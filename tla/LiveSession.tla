----------------------------- MODULE LiveSession -----------------------------
(***************************************************************************)
(* The browser's side of a live analysis: the session reducer              *)
(* (frontend/src/lib/live/session.ts), the hook that runs its commands     *)
(* against the socket, the audio capture and the reconnect timer           *)
(* (hooks/use-live-analysis.ts), and the statements and claims its frames  *)
(* build (lib/live/statements.ts and claims.ts).                           *)
(*                                                                         *)
(* Playback is a position; the p-th utterance of the video is heard as the *)
(* position goes from p - 1 to p.  The server hears what is captured,      *)
(* times it from the start of its stream, and may store what it heard for  *)
(* later sessions to replay (LiveSocket).                                  *)
(***************************************************************************)
EXTENDS Naturals, Sequences

CONSTANTS
  Length,        \* utterances of the video
  MaxSeq,        \* bound: sockets opened and closed by the hook
  MaxAttempts,   \* MAX_RECONNECT_ATTEMPTS
  Latency,       \* playback may advance while a socket is connecting
  Caching,       \* the server stores and replays analyses
  Verifying      \* the server runs the verify path: verdicts come per claim

ASSUME SessionAssumption ==
  /\ {Length, MaxSeq, MaxAttempts} \subseteq Nat \ {0}
  /\ {Latency, Caching, Verifying} \subseteq BOOLEAN

VARIABLES
  player,      \* the video element: position and paused
  machine,     \* LiveSessionState
  hook,        \* the hook's refs: sequence number, base time, capture, timer
  sockets,     \* sockets[s]: the socket opened as session s
  shown,       \* shown[t]: the statement that starts at t on the timeline
  claims,      \* the statements whose claims are in, as sessions and positions
  stored,      \* the utterances of a stored analysis, in stream order
  mounted

browserVars == <<player, machine, hook, sockets, shown, claims, stored, mounted>>

Phases == {"idle", "connecting", "streaming", "paused", "reconnecting", "ended", "failed"}
Times == 0 .. 2 * Length
Utterances == 1 .. Length
NoStatement == [status |-> "none"]
Statements == [status : {"analysing", "checked"}, session : 1 .. MaxSeq,
               rel : 0 .. Length, utterance : Utterances]
Unused == [state |-> "unused", replay |-> FALSE, heard |-> << >>, captions |-> 0,
           results |-> {}]

BrowserTypeOK ==
  /\ player \in [position : 0 .. Length, paused : BOOLEAN]
  /\ machine \in [phase : Phases, attempts : 0 .. MaxAttempts + 1, wantsPlay : BOOLEAN]
  /\ hook \in [seq : 0 .. MaxSeq + 1, base : 0 .. Length,
               capture : {"none", "gated", "forwarding"}, timer : BOOLEAN]
  /\ \A s \in 1 .. MaxSeq :
       /\ sockets[s].state \in {"unused", "connecting", "open", "closing", "closed"}
       /\ sockets[s].heard \in Seq(Utterances)
       /\ sockets[s].captions <= Len(sockets[s].heard)
       /\ sockets[s].results \subseteq 1 .. sockets[s].captions
  /\ shown \in [Times -> Statements \cup {NoStatement}]
  /\ claims \subseteq (1 .. MaxSeq) \X Utterances
  /\ stored \in Seq(Utterances)
  /\ mounted \in BOOLEAN

InitBrowser ==
  /\ player = [position |-> 0, paused |-> TRUE]
  /\ machine = [phase |-> "idle", attempts |-> 0, wantsPlay |-> FALSE]
  /\ hook = [seq |-> 0, base |-> 0, capture |-> "none", timer |-> FALSE]
  /\ sockets = [s \in 1 .. MaxSeq |-> Unused]
  /\ shown = [t \in Times |-> NoStatement]
  /\ claims = {} /\ stored = << >>
  /\ mounted = TRUE

-----------------------------------------------------------------------------
(* reduceSession: the next state and the commands, of each phase and event.   *)

To(phase, attempts, wantsPlay, commands) ==
  [state |-> [phase |-> phase, attempts |-> attempts, wantsPlay |-> wantsPlay],
   commands |-> commands]

Stay(m) == [state |-> m, commands |-> << >>]

OnUncleanClose(m) ==
  IF m.attempts + 1 > MaxAttempts
  THEN To("failed", m.attempts + 1, m.wantsPlay, <<"stopCapture">>)
  ELSE To("reconnecting", m.attempts + 1, m.wantsPlay,
          <<"stopCapture", "clearAnalysing", "scheduleReconnect">>)

OnClose(m, clean) ==
  IF clean THEN To("ended", 0, m.wantsPlay, <<"stopCapture">>) ELSE OnUncleanClose(m)

\* Mutant: the socket of a session that connects is not torn down by a seek.
OnSeekKeepsConnecting(m) ==
  IF m.phase = "idle" THEN To("idle", 0, m.wantsPlay, << >>)
  ELSE LET teardown == CASE m.phase = "reconnecting" -> <<"cancelReconnect", "clearAnalysing">>
                         [] m.phase = "connecting" -> <<"clearAnalysing">>
                         [] OTHER -> <<"closeSocket", "stopCapture", "clearAnalysing">>
       IN IF m.wantsPlay THEN To("connecting", 0, TRUE, Append(teardown, "openSocket"))
          ELSE To("idle", 0, FALSE, teardown)

OnSeek(m) ==
  IF m.phase = "idle" THEN To("idle", 0, m.wantsPlay, << >>)
  ELSE LET teardown == IF m.phase = "reconnecting"
                       THEN <<"cancelReconnect", "clearAnalysing">>
                       ELSE <<"closeSocket", "stopCapture", "clearAnalysing">>
       IN IF m.wantsPlay THEN To("connecting", 0, TRUE, Append(teardown, "openSocket"))
          ELSE To("idle", 0, FALSE, teardown)

OnStop == To("idle", 0, FALSE, <<"closeSocket", "stopCapture", "cancelReconnect">>)

OnPlay(m) ==
  CASE m.phase = "idle" -> To("connecting", 0, TRUE, <<"openSocket">>)
    [] m.phase = "connecting" -> To("connecting", m.attempts, TRUE, << >>)
    [] m.phase = "paused" -> To("streaming", m.attempts, TRUE, <<"resumeCapture">>)
    [] m.phase \in {"ended", "failed"} -> To("connecting", 0, TRUE, <<"openSocket">>)
    [] OTHER -> Stay(m)

OnPause(m) ==
  CASE m.phase = "streaming" -> To("paused", m.attempts, FALSE, <<"suspendCapture">>)
    [] m.phase = "reconnecting" -> To("idle", 0, FALSE, <<"cancelReconnect">>)
    [] m.phase = "idle" -> Stay(m)
    [] OTHER -> To(m.phase, m.attempts, FALSE, << >>)

OnSocketOpen(m) ==
  CASE m.phase = "connecting" /\ m.wantsPlay -> To("streaming", 0, TRUE, <<"startCapture">>)
    [] m.phase = "connecting" /\ ~m.wantsPlay -> To("paused", 0, FALSE, << >>)
    [] m.phase = "paused" -> To("paused", m.attempts, FALSE, << >>)
    [] OTHER -> Stay(m)

OnSocketClose(m, clean) ==
  CASE m.phase \in {"connecting", "streaming"} -> OnClose(m, clean)
    [] m.phase = "paused" -> To("idle", 0, FALSE, <<"stopCapture", "clearAnalysing">>)
    [] OTHER -> Stay(m)

OnReconnect(m) ==
  IF m.phase = "reconnecting"
  THEN To("connecting", m.attempts, m.wantsPlay, <<"openSocket">>)
  ELSE Stay(m)

-----------------------------------------------------------------------------
(* runCommand, on the hook's refs, the sockets and the statements.          *)

\* Mutant: a reset clears the whole list.
ClearAnalysingAll(list) == [t \in Times |-> NoStatement]

ClearAnalysing(list) ==
  [t \in Times |-> IF list[t].status = "checked" THEN list[t] ELSE NoStatement]

\* openSocket: the new session's clock starts at the present position.
OpenSocket(c) ==
  [c EXCEPT !.hook.seq = @ + 1, !.hook.base = c.position,
            !.sockets[c.hook.seq + 1] = [Unused EXCEPT !.state = "connecting"]]

\* closeSocket: the sequence moves on, so the socket's own events are ignored.
CloseSocket(c) ==
  [c EXCEPT !.hook.seq = @ + 1,
            !.sockets = [s \in 1 .. MaxSeq |->
               IF s = c.hook.seq /\ c.sockets[s].state \in {"connecting", "open"}
               THEN [c.sockets[s] EXCEPT !.state = "closing"] ELSE c.sockets[s]]]

\* dropUnits: only the claims of the statements that survive are kept.
DropUnits(units, list) ==
  {u \in units : \E t \in Times : /\ list[t].status = "checked"
                                 /\ u = <<list[t].session, list[t].rel>>}

RunCommand(c, command) ==
  CASE command = "openSocket" -> OpenSocket(c)
    [] command = "closeSocket" -> CloseSocket(c)
    [] command \in {"startCapture", "resumeCapture"} ->
         [c EXCEPT !.hook.capture = "forwarding"]
    [] command = "suspendCapture" ->
         [c EXCEPT !.hook.capture = IF @ = "none" THEN @ ELSE "gated"]
    [] command = "stopCapture" -> [c EXCEPT !.hook.capture = "none"]
    [] command = "clearAnalysing" -> [c EXCEPT !.shown = ClearAnalysing(@),
                                                     !.claims = DropUnits(@, c.shown)]
    [] command = "scheduleReconnect" -> [c EXCEPT !.hook.timer = TRUE]
    [] command = "cancelReconnect" -> [c EXCEPT !.hook.timer = FALSE]

\* The commands of a reduction in order; no reduction has more than four.
RunCommands(c, commands) ==
  LET Run(d, i) == IF i \in DOMAIN commands THEN RunCommand(d, commands[i]) ELSE d
  IN Run(Run(Run(Run(c, 1), 2), 3), 4)

\* dispatch: the reduction's state, then its commands.
Dispatch(reduction, position, h, socks) ==
  LET c == RunCommands([hook |-> h, sockets |-> socks, shown |-> shown, claims |-> claims,
                        position |-> position], reduction.commands)
  IN /\ machine' = reduction.state
     /\ hook' = c.hook /\ sockets' = c.sockets
     /\ shown' = c.shown /\ claims' = c.claims

\* Bound: sockets the run may still use.
Room == hook.seq + 2 <= MaxSeq

-----------------------------------------------------------------------------
(* The player.                                                             *)

Play ==
  /\ mounted /\ player.paused /\ Room
  /\ player' = [player EXCEPT !.paused = FALSE]
  /\ Dispatch(OnPlay(machine), player.position, hook, sockets)
  /\ UNCHANGED <<stored, mounted>>

Pause ==
  /\ mounted /\ ~player.paused
  /\ player' = [player EXCEPT !.paused = TRUE]
  /\ Dispatch(OnPause(machine), player.position, hook, sockets)
  /\ UNCHANGED <<stored, mounted>>

Seek(position) ==
  /\ mounted /\ Room
  /\ player' = [player EXCEPT !.position = position]
  /\ Dispatch(OnSeek(machine), position, hook, sockets)
  /\ UNCHANGED <<stored, mounted>>

\* The next utterance plays, and is sent if capture forwards to an open socket.
Tick ==
  /\ ~player.paused /\ player.position < Length
  /\ Latency \/ machine.phase # "connecting"
  /\ player' = [player EXCEPT !.position = @ + 1]
  /\ sockets' = [s \in 1 .. MaxSeq |->
       IF /\ s = hook.seq /\ sockets[s].state = "open" /\ ~sockets[s].replay
          /\ hook.capture = "forwarding" /\ Len(sockets[s].heard) < Length
       THEN [sockets[s] EXCEPT !.heard = Append(@, player.position + 1)]
       ELSE sockets[s]]
  /\ UNCHANGED <<machine, hook, shown, claims, stored, mounted>>

Unmount ==
  /\ mounted /\ Room
  /\ mounted' = FALSE
  /\ Dispatch(OnStop, player.position, hook, sockets)
  /\ UNCHANGED <<player, stored>>

TimerFires ==
  /\ hook.timer /\ Room
  /\ Dispatch(OnReconnect(machine), player.position, [hook EXCEPT !.timer = FALSE], sockets)
  /\ UNCHANGED <<player, stored, mounted>>

-----------------------------------------------------------------------------
(* The sockets.                                                            *)

IsCurrent(s) == s = hook.seq

\* An event of socket s, whose new record is given.
SocketEvent(s, record, reduction) ==
  LET socks == [sockets EXCEPT ![s] = record]
  IN IF IsCurrent(s) THEN Dispatch(reduction, player.position, hook, socks)
     ELSE sockets' = socks /\ UNCHANGED <<machine, hook, shown, claims>>

\* The server accepts; it replays a stored analysis or listens.
Accept(s) ==
  /\ sockets[s].state = "connecting"
  /\ \E replay \in {FALSE} \cup {stored # << >>} :
       SocketEvent(s, [Unused EXCEPT !.state = "open", !.replay = replay,
                                     !.heard = IF replay THEN stored ELSE << >>],
                   OnSocketOpen(machine))
  /\ UNCHANGED <<player, stored, mounted>>

Closed(s) == [Unused EXCEPT !.state = "closed", !.replay = sockets[s].replay]

\* The connection is lost, or never made.
Drop(s) ==
  /\ sockets[s].state \in {"connecting", "open"}
  /\ SocketEvent(s, Closed(s), OnSocketClose(machine, FALSE))
  /\ UNCHANGED <<player, stored, mounted>>

\* The analyzer could not be started: a close handshake with an error code.
Refuse(s) ==
  /\ sockets[s].state = "open" /\ ~sockets[s].replay /\ sockets[s].captions = 0
  /\ SocketEvent(s, Closed(s), OnSocketClose(machine, TRUE))
  /\ UNCHANGED <<player, stored, mounted>>

\* The stream is over and resolved (LiveSocket); what it heard may be stored.
End(s) ==
  /\ sockets[s].state = "open"
  /\ sockets[s].results = 1 .. Len(sockets[s].heard)
  /\ SocketEvent(s, Closed(s), OnSocketClose(machine, TRUE))
  /\ \/ Caching /\ ~sockets[s].replay /\ sockets[s].heard # << >>
        /\ stored' = sockets[s].heard
     \/ UNCHANGED stored
  /\ UNCHANGED <<player, mounted>>

\* The close the hook asked for completes.
CloseCompletes(s) ==
  /\ sockets[s].state = "closing"
  /\ \E clean \in BOOLEAN : SocketEvent(s, Closed(s), OnSocketClose(machine, clean))
  /\ UNCHANGED <<player, stored, mounted>>

\* applyFrame: the frame of utterance number rel of the session's stream lands at
\* the session's base plus its time; a subtitle does not undo its own verdict.
ApplyFrame(s, rel, status) ==
  LET t == hook.base + rel - 1
      new == [status |-> status, session |-> s, rel |-> rel,
              utterance |-> sockets[s].heard[rel]]
  IN shown' = [shown EXCEPT ![t] =
       IF @.status = "checked" /\ @.session = s /\ @.rel = rel THEN @ ELSE new]

Caption(s) ==
  /\ sockets[s].state = "open" /\ IsCurrent(s)
  /\ sockets[s].captions < Len(sockets[s].heard)
  /\ sockets' = [sockets EXCEPT ![s].captions = @ + 1]
  /\ ApplyFrame(s, sockets[s].captions + 1, "analysing")
  /\ UNCHANGED <<player, machine, hook, claims, stored, mounted>>

\* A result: a gate skip on the verify path, the verdict on the plain one.
Result(s, rel) ==
  /\ sockets[s].state = "open" /\ IsCurrent(s)
  /\ rel \in 1 .. sockets[s].captions \ sockets[s].results
  /\ sockets' = [sockets EXCEPT ![s].results = @ \cup {rel}]
  /\ ApplyFrame(s, rel, "checked")
  /\ UNCHANGED <<player, machine, hook, claims, stored, mounted>>

\* The claim results of a checkable statement: applyClaimResultFrame leaves the
\* statement itself as it is, and no result of its own follows.
ClaimResult(s, rel) ==
  /\ Verifying
  /\ sockets[s].state = "open" /\ IsCurrent(s)
  /\ rel \in 1 .. sockets[s].captions \ sockets[s].results
  /\ sockets' = [sockets EXCEPT ![s].results = @ \cup {rel}]
  /\ claims' = claims \cup {<<s, rel>>}
  /\ UNCHANGED <<player, machine, hook, shown, stored, mounted>>

NextBrowser ==
  \/ Play \/ Pause \/ Tick \/ Unmount \/ TimerFires
  \/ \E position \in 0 .. Length : Seek(position)
  \/ \E s \in 1 .. MaxSeq :
       \/ Accept(s) \/ Drop(s) \/ Refuse(s) \/ End(s) \/ CloseCompletes(s)
       \/ Caption(s)
       \/ \E rel \in Utterances : Result(s, rel) \/ ClaimResult(s, rel)

BrowserSpec == InitBrowser /\ [][NextBrowser]_browserVars

-----------------------------------------------------------------------------
(* The machine's phase and what the hook holds agree, whatever order playback, *)
(* sockets and the timer report in: at most one socket is alive and it is the  *)
(* current one, audio is forwarded exactly while streaming, the timer is armed *)
(* exactly while reconnecting, and an unmounted hook holds nothing.            *)
OwnsResources ==
  /\ hook.timer <=> machine.phase = "reconnecting"
  /\ hook.capture = "forwarding" <=> machine.phase = "streaming"
  /\ \A s \in 1 .. MaxSeq :
       sockets[s].state \in {"connecting", "open"} <=>
         /\ s = hook.seq
         /\ machine.phase \in {"connecting", "streaming", "paused"}
  /\ ~mounted => machine.phase = "idle"

(* A statement still shown as being analysed and without claims belongs to the *)
(* session that is alive and can resolve it: none lingers from a session that  *)
(* was lost, left by a seek, or ended (clearAnalysing).                        *)
NothingLingers ==
  mounted => \A t \in Times :
    shown[t].status = "analysing" /\ <<shown[t].session, shown[t].rel>> \notin claims =>
      shown[t].session = hook.seq /\ sockets[hook.seq].state = "open"

(* A verdict on screen stays through seeks, pauses, drops and reconnects, and  *)
(* only another session's statement of the same moment takes its place         *)
(* (clearAnalysing, applyFrame).                                               *)
VerdictsSurvive ==
  [][\A t \in Times : shown[t].status = "checked" =>
       \/ shown'[t].status = "checked"
       \/ shown'[t].status = "analysing" /\ shown'[t].session # shown[t].session]_browserVars

(* "So a resolved unit's verdicts are not lost on reconnect"                    *)
(* (use-live-analysis.ts): the claims of a statement stay through resets.      *)
ClaimsSurvive == [][claims \subseteq claims']_browserVars

(* "wantsPlay records the operator's intent (playing vs paused) independently  *)
(* of the connection phase" (session.ts).                                      *)
IntentKept ==
  machine.phase \in {"connecting", "reconnecting", "streaming", "paused"} =>
    (machine.wantsPlay <=> ~player.paused)

(* "A normal server closure (end of stream) is clean; an abrupt drop is not    *)
(* and drives a reconnect" (socket.ts): a session only ends at the end of a    *)
(* stream, never because the server could not analyse it.                      *)
EndsAtEndOfStream ==
  [][machine'.phase = "ended" /\ machine.phase # "ended" =>
       \E s \in 1 .. MaxSeq : End(s)]_browserVars

(* "So the timeline never duplicates or loses a statement" (session.ts): no    *)
(* utterance is on the timeline twice.                                         *)
NeverDuplicated ==
  \A t, u \in Times :
    shown[t] # NoStatement /\ shown[u] # NoStatement
      /\ shown[t].utterance = shown[u].utterance => t = u

(* "The replayed frames carry the same playback timestamps as the live stream" *)
(* (handler/live.go): a replayed statement stands where its words are said.    *)
ReplayAligned ==
  \A t \in Times :
    shown[t] # NoStatement /\ sockets[shown[t].session].replay =>
      t = shown[t].utterance - 1

(* The phase, what the hook holds and what the page shows agree.               *)
BrowserSound == BrowserTypeOK /\ OwnsResources /\ NothingLingers
==============================================================================
