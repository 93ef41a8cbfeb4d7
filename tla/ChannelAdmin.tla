----------------------------- MODULE ChannelAdmin -----------------------------
(***************************************************************************)
(* The registry of television channels and the backoffice that edits it:   *)
(* tabs with a table of switches and a form (backoffice-tv-section.tsx,    *)
(* backoffice-tv-channel-form.tsx), requests (lib/tv/api.ts) and the       *)
(* service that overlays a patch on the row it has read                    *)
(* (service/tv_channel.go).                                                *)
(***************************************************************************)
EXTENDS Integers, FiniteSets

CONSTANTS
  Tabs,
  Slots,                    \* requests a tab may have under way
  Slugs, Sources,
  MaxChannels, MaxRequests, \* bounds
  Nothing

ASSUME AdminAssumption ==
  /\ MaxChannels \in Nat \ {0} /\ MaxRequests \in Nat
  /\ Nothing \notin Slugs \cup Sources \cup Tabs

VARIABLES
  channels,   \* id -> row, None before it is created and Gone after its end
  wanted,     \* id -> the switches as creates and toggles last wrote them
  tabs,       \* tab -> list, rows with an error, row being edited
  calls,      \* tab -> slot -> request
  serial,     \* the server handles one patch at a time
  rowsMade        \* requests made

adminVars == <<channels, wanted, tabs, calls, serial, rowsMade>>

Ids == 1 .. MaxChannels
Fields == {"enabled", "archive"}
Gone == [slug |-> Nothing]
ChannelRow == [slug : Slugs, source : Sources, enabled : BOOLEAN, archive : BOOLEAN]
ASSUME GoneAssumption == Nothing # Gone /\ Nothing \notin ChannelRow
Live(id) == channels[id] # Nothing /\ channels[id] # Gone

Kinds == {"list", "create", "toggle", "edit", "delete"}
Free == [kind |-> "free"]
Request(kind, id, arg, value) ==
  [kind |-> kind, id |-> id, arg |-> arg, value |-> value, stage |-> "sent", reply |-> Nothing]

Shown == [id \in {i \in Ids : Live(i)} |-> [enabled |-> channels[id].enabled, archive |-> channels[id].archive]]

\* One channel was seeded: capture off, archiving on.
InitAdmin ==
  /\ \E row \in {r \in ChannelRow : ~r.enabled /\ r.archive} : channels = [id \in Ids |-> IF id = 1 THEN row ELSE Nothing]
  /\ wanted = [id \in Ids |-> IF id = 1 THEN [enabled |-> channels[1].enabled, archive |-> channels[1].archive]
                              ELSE [enabled |-> FALSE, archive |-> TRUE]]
  /\ tabs = [t \in Tabs |-> [list |-> Shown, errors |-> {}, editing |-> Nothing]]
  /\ calls = [t \in Tabs |-> [s \in Slots |-> Free]]
  /\ serial \in BOOLEAN /\ rowsMade = 0

-----------------------------------------------------------------------------
(* A tab.                                                                  *)

Sent(t, s, request) ==
  /\ calls[t][s] = Free /\ rowsMade < MaxRequests
  /\ calls' = [calls EXCEPT ![t][s] = request]
  /\ rowsMade' = rowsMade + 1
  /\ UNCHANGED <<channels, wanted, serial>>

\* The switch flips at once, and an error at its row is cleared.
Toggle(t, s, id, field) ==
  /\ id \in DOMAIN tabs[t].list
  /\ LET next == ~tabs[t].list[id][field] IN
       /\ Sent(t, s, Request("toggle", id, field, next))
       /\ tabs' = [tabs EXCEPT ![t].list[id][field] = next, ![t].errors = @ \ {id}]

StartEdit(t, id) ==
  /\ id \in DOMAIN tabs[t].list
  /\ tabs' = [tabs EXCEPT ![t].editing = [id |-> id, switches |-> tabs[t].list[id]]]
  /\ UNCHANGED <<channels, wanted, calls, serial, rowsMade>>

\* The form sends what it owns, never the switches.
Submit(t, s, source) ==
  /\ tabs[t].editing # Nothing
  /\ Sent(t, s, Request("edit", tabs[t].editing.id, source, tabs[t].editing.switches))
  /\ UNCHANGED tabs

\* A new channel's form starts with capture off and archiving on, and both can be changed.
Create(t, s, slug, source, enabled, archive) ==
  /\ tabs[t].editing = Nothing
  /\ Sent(t, s, Request("create", 0, slug, [slug |-> slug, source |-> source, enabled |-> enabled, archive |-> archive]))
  /\ UNCHANGED tabs

Delete(t, s, id) ==
  /\ id \in DOMAIN tabs[t].list
  /\ Sent(t, s, Request("delete", id, Nothing, Nothing))
  /\ UNCHANGED tabs

-----------------------------------------------------------------------------
(* The server.                                                             *)

Answer(t, s, reply) == calls' = [calls EXCEPT ![t][s].stage = "answered", ![t][s].reply = reply]
Reject(t, s) == calls' = [calls EXCEPT ![t][s].stage = "refused", ![t][s].reply = Nothing]
CallAt(t, s, kinds, stage) == calls[t][s].kind \in kinds /\ calls[t][s].stage = stage
Patching(t, s) == CallAt(t, s, {"toggle", "edit"}, "read")

\* Mutant: a form's patch carries its switches too.
OverlayWhole(call, row) ==
  IF call.kind = "toggle" THEN [row EXCEPT ![call.arg] = call.value]
  ELSE [row EXCEPT !.source = call.arg, !.enabled = call.value.enabled, !.archive = call.value.archive]

\* The switches of the form are not in its patch.
Overlay(call, row) ==
  IF call.kind = "toggle" THEN [row EXCEPT ![call.arg] = call.value]
  ELSE [row EXCEPT !.source = call.arg]

\* The service reads the row and overlays the patch.
ReadRow(t, s) ==
  /\ CallAt(t, s, {"toggle", "edit"}, "sent")
  /\ serial => \A u \in Tabs, r \in Slots : ~Patching(u, r)
  /\ LET call == calls[t][s] IN
       IF Live(call.id)
       THEN calls' = [calls EXCEPT ![t][s].stage = "read", ![t][s].reply = Overlay(call, channels[call.id])]
       ELSE Reject(t, s)
  /\ UNCHANGED <<channels, wanted, tabs, serial, rowsMade>>

Want(call) ==
  IF call.kind = "toggle" THEN [wanted EXCEPT ![call.id][call.arg] = call.value] ELSE wanted

\* Mutant: the row is written whether or not it is still there.
WriteRowAnyway(t, s) ==
  /\ Patching(t, s)
  /\ LET call == calls[t][s] IN
       /\ channels' = [channels EXCEPT ![call.id] = call.reply]
       /\ wanted' = Want(call)
       /\ Answer(t, s, call.reply)
  /\ UNCHANGED <<tabs, serial, rowsMade>>

\* The whole row is written back, if it is still there.
WriteRow(t, s) ==
  /\ Patching(t, s)
  /\ LET call == calls[t][s] IN
       IF Live(call.id)
       THEN /\ channels' = [channels EXCEPT ![call.id] = call.reply]
            /\ wanted' = Want(call)
            /\ Answer(t, s, call.reply)
       ELSE Reject(t, s) /\ UNCHANGED <<channels, wanted>>
  /\ UNCHANGED <<tabs, serial, rowsMade>>

\* The unique index on the slug.
Taken(slug) == \E id \in Ids : Live(id) /\ channels[id].slug = slug

Insert(t, s) ==
  /\ CallAt(t, s, {"create"}, "sent")
  /\ LET row == calls[t][s].value
         ids == {id \in Ids : channels[id] = Nothing}
     IN IF Taken(row.slug) THEN Reject(t, s) /\ UNCHANGED <<channels, wanted>>
        ELSE \E id \in ids :
               /\ \A i \in ids : id <= i
               /\ channels' = [channels EXCEPT ![id] = row]
               /\ wanted' = [wanted EXCEPT ![id] = [enabled |-> row.enabled, archive |-> row.archive]]
               /\ Answer(t, s, row)
  /\ UNCHANGED <<tabs, serial, rowsMade>>

\* Recordings survive it: they lose their channel.
RemoveRow(t, s) ==
  /\ CallAt(t, s, {"delete"}, "sent")
  /\ LET id == calls[t][s].id IN
       IF Live(id) THEN channels' = [channels EXCEPT ![id] = Gone] /\ Answer(t, s, Nothing)
       ELSE Reject(t, s) /\ UNCHANGED channels
  /\ UNCHANGED <<wanted, tabs, serial, rowsMade>>

List(t, s) ==
  /\ CallAt(t, s, {"list"}, "sent") /\ Answer(t, s, Shown)
  /\ UNCHANGED <<channels, wanted, tabs, serial, rowsMade>>

\* A request, or its answer, is lost.
Lost(t, s) ==
  /\ calls[t][s] # Free /\ calls[t][s].stage \in {"sent", "answered"}
  /\ Reject(t, s)
  /\ UNCHANGED <<channels, wanted, tabs, serial, rowsMade>>

-----------------------------------------------------------------------------
(* The answers.                                                            *)

Failed(call) == call.stage = "refused"
Answered(t, s, kinds) == CallAt(t, s, kinds, "answered") \/ CallAt(t, s, kinds, "refused")
Set(t, id, field, value) ==
  IF id \in DOMAIN tabs[t].list THEN [tabs[t].list EXCEPT ![id][field] = value] ELSE tabs[t].list

\* Only the switch that was toggled is taken from the answer; a failure rolls
\* it back and says why.
Toggled(t, s) ==
  /\ Answered(t, s, {"toggle"})
  /\ LET call == calls[t][s] IN
       tabs' = IF Failed(call)
               THEN [tabs EXCEPT ![t].list = Set(t, call.id, call.arg, ~call.value), ![t].errors = @ \cup {call.id}]
               ELSE [tabs EXCEPT ![t].list = Set(t, call.id, call.arg, call.reply[call.arg])]
  /\ calls' = [calls EXCEPT ![t][s] = Free]
  /\ UNCHANGED <<channels, wanted, serial, rowsMade>>

\* A create, an edit or a delete that succeeded lists the channels again.
Saved(t, s) ==
  /\ Answered(t, s, {"create", "edit", "delete"})
  /\ IF Failed(calls[t][s])
     THEN calls' = [calls EXCEPT ![t][s] = Free] /\ UNCHANGED tabs
     ELSE /\ calls' = [calls EXCEPT ![t][s] = Request("list", 0, Nothing, Nothing)]
          /\ tabs' = [tabs EXCEPT ![t].editing = IF calls[t][s].kind = "delete" THEN @ ELSE Nothing]
  /\ UNCHANGED <<channels, wanted, serial, rowsMade>>

\* A list that fails leaves the table as it is.
Reloaded(t, s) ==
  /\ Answered(t, s, {"list"})
  /\ tabs' = IF Failed(calls[t][s]) THEN tabs
             ELSE [tabs EXCEPT ![t].list = calls[t][s].reply, ![t].errors = {}]
  /\ calls' = [calls EXCEPT ![t][s] = Free]
  /\ UNCHANGED <<channels, wanted, serial, rowsMade>>

TabStep(t, s) ==
  \/ \E id \in Ids, field \in Fields : Toggle(t, s, id, field)
  \/ \E id \in Ids : Delete(t, s, id)
  \/ \E source \in Sources : Submit(t, s, source) \/ \E slug \in Slugs, e, a \in BOOLEAN : Create(t, s, slug, source, e, a)
ServerStep(t, s) == ReadRow(t, s) \/ WriteRow(t, s) \/ Insert(t, s) \/ RemoveRow(t, s) \/ List(t, s) \/ Lost(t, s)
AnswerStep(t, s) == Toggled(t, s) \/ Saved(t, s) \/ Reloaded(t, s)

NextAdmin ==
  \/ \E t \in Tabs, s \in Slots : TabStep(t, s) \/ ServerStep(t, s) \/ AnswerStep(t, s)
  \/ \E t \in Tabs, id \in Ids : StartEdit(t, id)

AdminSpec == InitAdmin /\ [][NextAdmin]_adminVars

-----------------------------------------------------------------------------
(* Properties.                                                             *)

\* The types of the registry and of the tabs.
AdminTypeOK ==
  /\ \A id \in Ids : channels[id] \in ChannelRow \cup {Nothing, Gone}
  /\ \A t \in Tabs : DOMAIN tabs[t].list \subseteq Ids /\ tabs[t].errors \subseteq Ids
  /\ \A t \in Tabs, s \in Slots : calls[t][s].kind \in Kinds \cup {"free"}
  /\ rowsMade \in 0 .. MaxRequests

\* Two channels never share a slug, whoever creates them at once: segments
\* and recordings are kept under it.
SlugsUnique == \A i, j \in Ids : Live(i) /\ Live(j) /\ channels[i].slug = channels[j].slug => i = j

\* A channel keeps its slug, and one that was deleted never comes back, not
\* even when a patch read it before.
IdentityKept ==
  [][\A id \in Ids :
       /\ channels[id] = Gone => channels'[id] = Gone
       /\ Live(id) /\ channels'[id] # Gone => channels'[id].slug = channels[id].slug]_adminVars

\* When patches are handled one at a time, a channel's switches are what the
\* creates and toggles said last: an edit from a form opened before, or a
\* toggle of the other switch, changes neither.
SwitchesAsWanted ==
  serial => \A id \in Ids : Live(id) =>
    [enabled |-> channels[id].enabled, archive |-> channels[id].archive] = wanted[id]

\* service/tv_channel.go:43-45 says so of any patches: "the enable and archive
\* toggles can each be flipped independently".
FlippedIndependently ==
  \A id \in Ids : Live(id) =>
    [enabled |-> channels[id].enabled, archive |-> channels[id].archive] = wanted[id]

\* The table of channels, whoever edits it at once: types, one channel per
\* slug, and the switches last asked for.
AdminSound == AdminTypeOK /\ SlugsUnique /\ SwitchesAsWanted
=============================================================================
