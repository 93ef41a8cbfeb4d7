---------------------------- MODULE ChannelViewer ----------------------------
(***************************************************************************)
(* A browser following one television channel: the viewer hook             *)
(* (use-channel-live.ts) on the stream of the channel hub.                 *)
(*                                                                         *)
(* The hub is its promise (TVHub): sessions on and off air, a backlog      *)
(* snapshot on attaching, then every frame in order, then off_air.  The    *)
(* units of a session are numbered from one, and each is a subtitle, its   *)
(* claim, the claim's verdict with the speaker's tally, and its result.    *)
(***************************************************************************)
EXTENDS Integers, Sequences, FiniteSets

CONSTANTS
  Units,                    \* units of a session, 1 .. n
  MaxSessions,
  Replay,                 \* frames of the backlog
  PageBuffer,                   \* frames under way to the viewer
  MaxAttempts,              \* MAX_RECONNECT_ATTEMPTS
  StartOf                   \* session -> unit -> the bucket of its start

ASSUME ViewerAssumption ==
  /\ IsFiniteSet(Units) /\ Units = 1 .. Cardinality(Units)
  /\ MaxSessions \in Nat \ {0} /\ Replay \in Nat \ {0} /\ MaxAttempts \in Nat
  /\ PageBuffer \in Nat /\ PageBuffer >= Replay
  /\ StartOf \in [1 .. MaxSessions -> [Units -> Nat]]
  /\ \A s \in 1 .. MaxSessions : \A u, v \in Units : u # v => StartOf[s][u] # StartOf[s][v]

VARIABLES
  air,        \* the hub: on air, session, backlog, progress of each unit
  line,       \* the connection: state and frames under way
  hook,       \* status, attempts, off_air seen, timer pending, disposed
  screen,     \* rows, their start index, claims, the tally, the caption
  seen        \* sessions whose frames were put on the screen

viewerVars == <<air, line, hook, screen, seen>>

Row == [status : {"none", "analysing", "checked"}, of : 0 .. MaxSessions]
NoRow == [status |-> "none", of |-> 0]
Frame(kind, u, n) == [kind |-> kind, unit |-> u, of |-> air.session, n |-> n]
OffAir == [kind |-> "off_air", unit |-> 0, of |-> 0, n |-> 0]
NoLine == [state |-> "none", queue |-> << >>]
Buckets == UNION {{StartOf[s][u] : u \in Units} : s \in 1 .. MaxSessions}

InitViewer ==
  /\ air = [on |-> FALSE, session |-> 0, ring |-> << >>, progress |-> [u \in Units |-> 0]]
  /\ line = [NoLine EXCEPT !.state = "opening"]
  /\ hook = [status |-> "connecting", attempts |-> 0, offAir |-> FALSE, timer |-> FALSE, disposed |-> FALSE]
  /\ screen = [rows |-> [u \in Units |-> NoRow], byStart |-> [b \in Buckets |-> 0],
               claims |-> [u \in Units |-> "none"], tally |-> 0, caption |-> FALSE]
  /\ seen = {}

-----------------------------------------------------------------------------
(* The hub.                                                                *)

PageAttached == line.state = "open"
Last(s, n) == IF Len(s) <= n THEN s ELSE SubSeq(s, Len(s) - n + 1, Len(s))

\* A viewer whose buffer is full is detached; what it was sent still arrives.
Send(frames) ==
  /\ line' = IF ~PageAttached THEN line
             ELSE IF Len(line.queue) + Len(frames) <= PageBuffer THEN [line EXCEPT !.queue = @ \o frames]
             ELSE [line EXCEPT !.state = "detached"]
  /\ UNCHANGED <<hook, screen, seen>>

GoOnAir ==
  /\ ~air.on /\ air.session < MaxSessions
  /\ air' = [on |-> TRUE, session |-> air.session + 1, ring |-> << >>, progress |-> [u \in Units |-> 0]]
  /\ UNCHANGED <<line, hook, screen, seen>>

\* A unit's next frame, its result (5) following its subtitle when it makes no
\* claim; its subtitle follows that of the unit before it.
Advance(u, to) ==
  /\ air.on
  /\ (to <= 4 /\ to = air.progress[u] + 1) \/ (to = 5 /\ air.progress[u] = 1)
  /\ air.progress[u] = 0 => \A v \in Units : v < u => air.progress[v] > 0
  /\ LET progress == [air.progress EXCEPT ![u] = to]
         judged == Cardinality({v \in Units : progress[v] \in {3, 4}})
         frames == CASE to = 1 -> <<Frame("subtitle", u, 0)>>
                     [] to = 2 -> <<Frame("claims", u, 0)>>
                     [] to = 3 -> <<Frame("claim_result", u, 0), Frame("speaker_tally", 0, judged)>>
                     [] to >= 4 -> <<Frame("result", u, 0)>>
     IN /\ air' = [air EXCEPT !.progress = progress, !.ring = Last(@ \o frames, Replay)]
        /\ Send(frames)

\* A caption of the words being spoken, at most one of them in the backlog.
Interim ==
  /\ air.on
  /\ \A i \in DOMAIN air.ring : air.ring[i].kind # "interim"
  /\ air' = [air EXCEPT !.ring = Last(Append(@, Frame("interim", 0, 0)), Replay)]
  /\ Send(<<Frame("interim", 0, 0)>>)

\* Even off_air is dropped when the viewer's buffer is full.
GoOffAir ==
  /\ air.on
  /\ air' = [air EXCEPT !.on = FALSE, !.ring = << >>]
  /\ line' = IF ~PageAttached THEN line
             ELSE IF Len(line.queue) < PageBuffer THEN [state |-> "ending", queue |-> Append(line.queue, OffAir)]
             ELSE [line EXCEPT !.state = "detached"]
  /\ UNCHANGED <<hook, screen, seen>>

-----------------------------------------------------------------------------
(* The frames on the screen.                                               *)

\* Mutant: a subtitle takes its row back to analysing.
PlacedAnew(f, status) ==
  [screen EXCEPT !.rows[f.unit] = [status |-> status, of |-> f.of],
     !.caption = IF f.kind = "subtitle" THEN FALSE ELSE @]

\* A row sharing the start of another unit's row replaces it; a subtitle never
\* takes back a result.
Placed(f, status) ==
  LET b == StartOf[f.of][f.unit]
      old == screen.byStart[b]
      cleared == IF old \in Units /\ old # f.unit THEN [screen.rows EXCEPT ![old] = NoRow] ELSE screen.rows
  IN [screen EXCEPT !.byStart[b] = f.unit,
        !.caption = IF f.kind = "subtitle" THEN FALSE ELSE @,
        !.rows = IF status = "analysing" /\ cleared[f.unit].status = "checked" THEN cleared
                 ELSE [cleared EXCEPT ![f.unit] = [status |-> status, of |-> f.of]]]

\* A claim already judged keeps its verdict when its list comes again.
Listed(f) == [screen EXCEPT !.claims[f.unit] = IF @ = "none" THEN "pending" ELSE @]
Judged(f) == [screen EXCEPT !.claims[f.unit] = "verified"]

\* Mutant: the first sample stays.
TalliedFirst(f) == [screen EXCEPT !.tally = IF @ > 0 THEN @ ELSE f.n]

\* The larger sample stays.
Tallied(f) == [screen EXCEPT !.tally = IF @ > f.n THEN @ ELSE f.n]

Ingested(f) ==
  CASE f.kind = "subtitle" -> Placed(f, "analysing")
    [] f.kind = "result" -> Placed(f, "checked")
    [] f.kind = "claims" -> Listed(f)
    [] f.kind = "claim_result" -> Judged(f)
    [] f.kind = "speaker_tally" -> Tallied(f)
    [] f.kind = "interim" -> [screen EXCEPT !.caption = TRUE]

-----------------------------------------------------------------------------
(* The hook.                                                               *)

Opening == [NoLine EXCEPT !.state = "opening"]

\* The hub attaches the viewer and snapshots the backlog in one step.
Accept ==
  /\ line.state = "opening"
  /\ line' = [state |-> "open", queue |-> air.ring]
  /\ hook' = [hook EXCEPT !.attempts = 0, !.status = "live"]
  /\ UNCHANGED <<air, screen, seen>>

\* A clean close, or one after off_air, ends the stream; any other is tried
\* again until the attempts run out.
OnClose(clean) ==
  /\ line' = NoLine
  /\ hook' = IF clean \/ hook.offAir THEN [hook EXCEPT !.status = "ended"]
             ELSE IF hook.attempts = MaxAttempts
             THEN [hook EXCEPT !.status = "error", !.attempts = @ + 1]
             ELSE [hook EXCEPT !.status = "reconnecting", !.attempts = @ + 1, !.timer = TRUE]

Refuse == line.state = "opening" /\ OnClose(FALSE) /\ UNCHANGED <<air, screen, seen>>

\* The connection breaks and takes what was under way with it.
Break ==
  /\ line.state \in {"open", "ending", "detached"}
  /\ OnClose(FALSE) /\ UNCHANGED <<air, screen, seen>>

CloseArrives ==
  /\ line.state \in {"ending", "detached"} /\ line.queue = << >>
  /\ OnClose(line.state = "ending") /\ UNCHANGED <<air, screen, seen>>

\* Whatever trails off_air is ignored.
Deliver ==
  /\ line.queue # << >>
  /\ line' = [line EXCEPT !.queue = Tail(@)]
  /\ LET f == Head(line.queue)
     IN IF f.kind = "off_air" /\ ~hook.offAir
        THEN /\ hook' = [hook EXCEPT !.offAir = TRUE, !.status = "ended"]
             /\ screen' = [screen EXCEPT !.caption = FALSE]
             /\ UNCHANGED seen
        ELSE IF hook.offAir THEN UNCHANGED <<hook, screen, seen>>
        ELSE /\ screen' = Ingested(f) /\ seen' = seen \cup {f.of}
             /\ UNCHANGED hook
  /\ UNCHANGED air

TimerFires ==
  /\ hook.timer
  /\ line' = Opening
  /\ hook' = [hook EXCEPT !.timer = FALSE, !.status = IF hook.attempts = 0 THEN "connecting" ELSE "reconnecting"]
  /\ UNCHANGED <<air, screen, seen>>

\* The view is left: the timer is cleared and the socket closed.
Unmount ==
  /\ ~hook.disposed
  /\ hook' = [hook EXCEPT !.disposed = TRUE, !.timer = FALSE]
  /\ line' = NoLine
  /\ UNCHANGED <<air, screen, seen>>

-----------------------------------------------------------------------------

HubStep == GoOnAir \/ GoOffAir \/ Interim \/ \E u \in Units, to \in 1 .. 5 : Advance(u, to)
Answer == Accept \/ Refuse
NextViewer ==
  \/ HubStep
  \/ Answer \/ Break \/ CloseArrives \/ Deliver \/ TimerFires \/ Unmount

\* The browser's timer fires, an opening connection is answered, and what is
\* under way arrives.
ViewerFairness ==
  WF_viewerVars(Answer) /\ WF_viewerVars(TimerFires) /\ WF_viewerVars(Deliver) /\ WF_viewerVars(CloseArrives)

ViewerSpec == InitViewer /\ [][NextViewer]_viewerVars /\ ViewerFairness

-----------------------------------------------------------------------------
(* Properties.                                                             *)

\* The types of the viewer's state.
ViewerTypeOK ==
  /\ air.on \in BOOLEAN /\ air.session \in 0 .. MaxSessions /\ Len(air.ring) <= Replay
  /\ line.state \in {"none", "opening", "open", "ending", "detached"}
  /\ hook.status \in {"connecting", "live", "reconnecting", "ended", "error"}
  /\ hook.attempts \in 0 .. MaxAttempts + 1
  /\ screen.rows \in [Units -> Row] /\ screen.tally \in 0 .. Cardinality(Units)
  /\ screen.claims \in [Units -> {"none", "pending", "verified"}]
  /\ screen.byStart \in [Buckets -> Units \cup {0}]

OneSession == Cardinality(seen) <= 1

\* A viewer that has received all it was sent shows every frame of the
\* backlog, however often it reconnected and however much of it was replayed.
CaughtUp ==
  PageAttached /\ line.queue = << >> /\ OneSession =>
    \A i \in DOMAIN air.ring : LET f == air.ring[i] IN
      CASE f.kind = "subtitle" -> screen.rows[f.unit].status # "none"
        [] f.kind = "result" -> screen.rows[f.unit].status = "checked"
        [] f.kind = "claims" -> screen.claims[f.unit] # "none"
        [] f.kind = "claim_result" -> screen.claims[f.unit] = "verified"
        [] f.kind = "speaker_tally" -> screen.tally >= f.n
        [] OTHER -> TRUE

\* A backlog replayed over what is on the screen takes back no result and no
\* verdict, and the tally never shrinks.
NothingTakenBack ==
  [][OneSession' => \A u \in Units :
       /\ screen.rows[u].status = "checked" => screen'.rows[u].status = "checked"
       /\ screen.claims[u] = "verified" => screen'.claims[u] = "verified"
       /\ screen'.tally >= screen.tally]_viewerVars

\* A stream seen to end stays ended, without a caption; one given up, ended or
\* left has no socket and no timer behind it.
EndIsFinal ==
  /\ hook.offAir => hook.status = "ended" /\ ~screen.caption
  /\ hook.status = "error" \/ hook.disposed => line.state = "none" /\ ~hook.timer
  /\ line.state # "none" => ~hook.timer

\* A viewer that lost its channel gets it back, sees it end or says that it
\* has given up.
Settles ==
  hook.status \in {"connecting", "reconnecting"} ~> hook.status \in {"live", "ended", "error"} \/ hook.disposed

\* tvhub.go:159 starts a fresh session with an empty backlog: what a viewer
\* shows comes from one session.
OneSessionShown == OneSession

\* What the page shows is what it was sent, and a page that is over is over.
PageSound == ViewerTypeOK /\ CaughtUp /\ EndIsFinal
=============================================================================
