----------------------------- MODULE LiveSocket ------------------------------
(***************************************************************************)
(* internal/handler/live.go with service/snapshot.go and                   *)
(* snapshot_reader.go: the live socket of a video.  A reader goroutine     *)
(* feeds audio to the analyzer, the handler writes the analyzer's events   *)
(* back and captures them, a third goroutine pings the peer, and a session *)
(* that completes is stored for later connections to replay.               *)
(*                                                                         *)
(* The analyzer is its promise, Statements, which LiveAnalyzer implements: *)
(* statement i is what audio frame i carries.  The websocket library       *)
(* (coder/websocket) and the client are external.                          *)
(***************************************************************************)
EXTENDS Naturals, FiniteSets

CONSTANTS
  Frames,        \* audio frames of the video
  Buffer,        \* liveAudioBuffer
  CloseCodes     \* how clients close: "normal" (1000), "no status" (1005)

Events == [kind : {"subtitle", "result"}, id : 1 .. Frames]
NoEvent == [kind |-> "none", id |-> 0]

ASSUME SocketAssumption ==
  /\ Frames \in Nat \ {0} /\ Buffer \in Nat \ {0}
  /\ CloseCodes \subseteq {"normal", "no status"}

VARIABLES
  \* the client
  peer,        \* "open", a close code, "dropped", or "vanished": half-open
  sent,        \* frames sent
  \* the reader and the ping loop
  reader, cleanClose,
  read, fed,   \* frames the reader took off the socket, and put into audio
  pinging,
  \* the contexts of the session and of the request
  ctxDone, reqDone,
  \* the analyzer's promise, the frames it took, and its provider's end
  captioned, resolved, outClosed, heard, ended,
  \* the handler
  pc, event, captured, drained, aborted,
  closed,      \* the server closed the connection
  delivered,   \* events written to the client
  cache        \* the stored analysis of the video, empty if there is none

client == <<peer, sent>>
readerVars == <<reader, cleanClose, read, fed>>
contexts == <<ctxDone, reqDone>>
analyzer == <<captioned, resolved, outClosed, heard, ended>>
handlerVars == <<pc, event, captured, drained, aborted, closed, delivered, cache>>
vars == <<client, readerVars, pinging, contexts, analyzer, handlerVars>>

Switches ==
  /\ cleanClose \in BOOLEAN /\ pinging \in BOOLEAN /\ ctxDone \in BOOLEAN
  /\ reqDone \in BOOLEAN /\ outClosed \in BOOLEAN /\ ended \in BOOLEAN
  /\ drained \in BOOLEAN /\ aborted \in BOOLEAN /\ closed \in BOOLEAN
Counts ==
  /\ heard \in 0 .. fed /\ fed \in 0 .. read /\ read \in 0 .. sent /\ sent \in 0 .. Frames
  /\ fed - heard <= Buffer
Points ==
  /\ peer \in {"open", "normal", "no status", "dropped", "vanished"}
  /\ reader \in {"none", "reading", "forwarding", "done"}
  /\ pc \in {"lookup", "replay", "run", "range", "write", "close", "await",
            "returned", "replayed", "refused"}
Sets ==
  /\ captioned \subseteq 1 .. heard /\ resolved \subseteq captioned
  /\ event \in Events \cup {NoEvent}
  /\ captured \subseteq Events /\ delivered \subseteq Events
  /\ cache \in SUBSET Events

TypeOK == Switches /\ Counts /\ Points /\ Sets

Init ==
  /\ peer = "open" /\ sent = 0
  /\ reader = "none" /\ cleanClose = FALSE /\ read = 0 /\ fed = 0
  /\ pinging = FALSE
  /\ ctxDone = FALSE /\ reqDone = FALSE
  /\ captioned = {} /\ resolved = {} /\ outClosed = FALSE /\ heard = 0 /\ ended = FALSE
  /\ pc = "lookup" /\ event = NoEvent /\ captured = {} /\ drained = FALSE
  /\ aborted = FALSE /\ closed = FALSE /\ delivered = {}
  /\ cache \in {{}, Events}

Returned == {"returned", "replayed", "refused"}

Promise == INSTANCE Statements
  WITH MaxStatements <- Frames, cancelled <- ctxDone, closed <- outClosed

-----------------------------------------------------------------------------
(* The client and the request.                                             *)

SendFrame ==
  /\ peer = "open" /\ ~closed
  /\ sent < Frames
  /\ sent' = sent + 1
  /\ UNCHANGED <<peer, readerVars, pinging, contexts, analyzer, handlerVars>>

\* The client closes the socket, or drops off it with or without a trace.
Leave ==
  /\ peer = "open"
  /\ peer' \in CloseCodes \cup {"dropped", "vanished"}
  /\ UNCHANGED <<sent, readerVars, pinging, contexts, analyzer, handlerVars>>

\* A client answers the server's close with the server's code.
EchoClose ==
  /\ peer = "open" /\ closed
  /\ peer' = "normal"
  /\ UNCHANGED <<sent, readerVars, pinging, contexts, analyzer, handlerVars>>

\* A server shutdown cancels the request, and the session's context with it.
AbortRequest ==
  /\ ~reqDone /\ pc \notin Returned
  /\ reqDone' = TRUE /\ ctxDone' = TRUE
  /\ UNCHANGED <<client, readerVars, pinging, analyzer, handlerVars>>

-----------------------------------------------------------------------------
(* The audio reader: run.                                                  *)

ReadFrame ==
  /\ reader = "reading"
  /\ read < sent /\ ~ctxDone
  /\ read' = read + 1
  /\ reader' = "forwarding"
  /\ UNCHANGED <<client, cleanClose, fed, pinging, contexts, analyzer, handlerVars>>

Forward ==
  /\ reader = "forwarding"
  /\ fed - heard < Buffer
  /\ fed' = fed + 1
  /\ reader' = "reading"
  /\ UNCHANGED <<client, cleanClose, read, pinging, contexts, analyzer, handlerVars>>

\* The deferred calls: cancel, close(audio), close(done).
Finish(clean) ==
  /\ reader' = "done"
  /\ cleanClose' = clean
  /\ ctxDone' = TRUE
  /\ UNCHANGED <<client, read, fed, pinging, reqDone, analyzer, handlerVars>>

StopForwarding ==
  /\ reader = "forwarding" /\ ctxDone
  /\ Finish(FALSE)

\* Read fails: on the peer's close once every frame before it was read, or on a
\* connection that is broken, cancelled, or closed by the server's own side.
ReadFails ==
  /\ reader = "reading"
  /\ \/ /\ peer \in {"normal", "no status"} /\ read = sent
        /\ Finish(~ctxDone /\ peer = "normal")
     \/ (peer = "dropped" \/ ctxDone \/ closed) /\ Finish(FALSE)

\* Mutant: a lost ping only ends the ping loop.
PingGivesUp ==
  /\ pinging /\ ~ctxDone
  /\ \/ peer # "open" \/ closed
     \/ reader = "forwarding" /\ fed - heard = Buffer
  /\ pinging' = FALSE
  /\ UNCHANGED <<client, readerVars, contexts, analyzer, handlerVars>>

\* pingLoop: no pong comes from a peer that is gone, from a connection that is
\* closed, or while the reader is stuck and reads no pong.
PingLost ==
  /\ pinging /\ ~ctxDone
  /\ \/ peer # "open" \/ closed
     \/ reader = "forwarding" /\ fed - heard = Buffer
  /\ pinging' = FALSE
  /\ ctxDone' = TRUE
  /\ UNCHANGED <<client, readerVars, reqDone, analyzer, handlerVars>>

PingStops ==
  /\ pinging /\ ctxDone
  /\ pinging' = FALSE
  /\ UNCHANGED <<client, readerVars, contexts, analyzer, handlerVars>>

-----------------------------------------------------------------------------
(* The analyzer, behind its promise.                                       *)

Analyzing == pc \in {"range", "write", "close", "await", "returned"}

Hear ==
  /\ Analyzing
  /\ heard < fed /\ ~ended
  /\ heard' = heard + 1
  /\ UNCHANGED <<client, readerVars, pinging, contexts, captioned, resolved, outClosed,
                 ended, handlerVars>>

\* The provider closes its stream, of its own accord or because the audio did.
ProviderEnds ==
  /\ Analyzing /\ ~ended
  /\ ended' = TRUE
  /\ UNCHANGED <<client, readerVars, pinging, contexts, captioned, resolved, outClosed,
                 heard, handlerVars>>

CloseEvents ==
  /\ Analyzing
  /\ ended \/ ctxDone
  /\ Promise!Close
  /\ UNCHANGED <<client, readerVars, pinging, reqDone, heard, ended, handlerVars>>

-----------------------------------------------------------------------------
(* The handler.                                                            *)

\* A miss, a disabled cache, an expired or unreadable entry and a backend error
\* all fall through to the live pipeline.
Lookup ==
  /\ pc = "lookup"
  /\ \/ pc' = "run"
     \/ cache # {} /\ pc' = "replay"
  /\ UNCHANGED <<client, readerVars, pinging, contexts, analyzer, event, captured,
                 drained, aborted, closed, delivered, cache>>

ReplayEvent ==
  /\ pc = "replay"
  /\ \E e \in cache \ delivered : delivered' = delivered \cup {e}
  /\ UNCHANGED <<client, readerVars, pinging, contexts, analyzer, pc, event, captured,
                 drained, aborted, closed, cache>>

\* All was written or a write failed.
EndReplay ==
  /\ pc = "replay"
  /\ delivered = cache \/ peer # "open" \/ ctxDone
  /\ pc' = "replayed" /\ closed' = TRUE /\ ctxDone' = TRUE
  /\ UNCHANGED <<client, readerVars, pinging, reqDone, analyzer, event, captured,
                 drained, aborted, delivered, cache>>

\* The reader and the ping loop are started, then the analyzer, which may fail to
\* start.
StartSession ==
  /\ pc = "run"
  /\ reader' = "reading" /\ pinging' = TRUE
  /\ \/ pc' = "range" /\ UNCHANGED <<closed, ctxDone>>
     \/ pc' = "refused" /\ closed' = TRUE /\ ctxDone' = TRUE
  /\ UNCHANGED <<client, cleanClose, read, fed, reqDone, analyzer, event, captured,
                 drained, aborted, delivered, cache>>

\* One event of the analyzer, captured before it is written.
Receive(e) ==
  /\ pc = "range"
  /\ e.id <= heard
  /\ IF e.kind = "subtitle" THEN Promise!Caption(e.id) ELSE Promise!Resolve(e.id)
  /\ pc' = "write" /\ event' = e /\ captured' = captured \cup {e}
  /\ UNCHANGED <<client, readerVars, pinging, reqDone, heard, ended, drained, aborted,
                 closed, delivered, cache>>

WriteEvent ==
  /\ pc = "write"
  /\ peer \in {"open", "vanished"} /\ reader # "done"
  /\ pc' = "range" /\ event' = NoEvent /\ delivered' = delivered \cup {event}
  /\ UNCHANGED <<client, readerVars, pinging, contexts, analyzer, captured, drained,
                 aborted, closed, cache>>

\* The peer is gone, or takes nothing for the length of a deadline.
WriteFails ==
  /\ pc = "write"
  /\ peer # "open" \/ ctxDone
  /\ pc' = "close" /\ event' = NoEvent /\ drained' = FALSE /\ ctxDone' = TRUE
  /\ aborted' = reqDone
  /\ UNCHANGED <<client, readerVars, pinging, reqDone, analyzer, captured, closed,
                 delivered, cache>>

\* The stream is over; whether the request was aborted is read before the close.
StreamEnds ==
  /\ pc = "range" /\ outClosed
  /\ pc' = "close" /\ drained' = TRUE
  /\ aborted' = reqDone
  /\ UNCHANGED <<client, readerVars, pinging, contexts, analyzer, event, captured,
                 closed, delivered, cache>>

CloseConnection ==
  /\ pc = "close"
  /\ closed' = TRUE /\ pc' = "await"
  /\ UNCHANGED <<client, readerVars, pinging, contexts, analyzer, event, captured,
                 drained, aborted, delivered, cache>>

\* Mutant: a session whose last write failed is stored.
CompletedUndrained == cleanClose /\ ~aborted

Completed == cleanClose /\ drained /\ ~aborted

\* persistSnapshot, which may fail and stores no empty analysis, once the reader is
\* done; then the deferred calls.
Return ==
  /\ pc = "await" /\ reader = "done"
  /\ pc' = "returned" /\ ctxDone' = TRUE
  /\ \/ Completed /\ captured # {} /\ cache' = captured
     \/ UNCHANGED cache
  /\ UNCHANGED <<client, readerVars, pinging, reqDone, analyzer, event, captured,
                 drained, aborted, closed, delivered>>

-----------------------------------------------------------------------------
ClientStep == SendFrame \/ Leave \/ EchoClose
ReaderStep == ReadFrame \/ Forward \/ StopForwarding \/ ReadFails
PingStep == PingLost \/ PingStops
AnalyzerStep == Hear \/ ProviderEnds \/ CloseEvents
HandlerStep ==
  \/ Lookup \/ ReplayEvent \/ EndReplay \/ StartSession
  \/ \E e \in Events : Receive(e)
  \/ WriteEvent \/ WriteFails \/ StreamEnds \/ CloseConnection \/ Return

Next == ClientStep \/ AbortRequest \/ ReaderStep \/ PingStep \/ AnalyzerStep \/ HandlerStep

Spec == Init /\ [][Next]_vars

\* The goroutines run; the analyzer closes its stream once it may.  Nothing is
\* asked of the client, and of the provider no more than that.
Fairness ==
  /\ WF_vars(ReaderStep) /\ WF_vars(PingStep) /\ WF_vars(HandlerStep)
  /\ WF_vars(CloseEvents)

FairSpec == Spec /\ Fairness

-----------------------------------------------------------------------------
(* An analysis is stored only as the client of its session was sent it: an     *)
(* event whose write failed, or a session some of whose frames never left, is  *)
(* not replayed to the next viewer (writeEvents, liveHandler).                 *)
StoredAsSent == [][cache' # cache => cache' = delivered]_vars

(* Once the peer is gone, the request aborted or the transcript over, the      *)
(* handler returns and its reader, ping loop and analyzer stop, even with the  *)
(* reader stuck on a full channel nobody drains or a peer that vanished        *)
(* without a packet.                                                           *)
SessionReleased ==
  (peer # "open" \/ reqDone \/ ended) ~>
    /\ pc \in Returned /\ reader \in {"none", "done"} /\ ~pinging
    /\ pc = "returned" => outClosed

(* "The event stream drained to its close (the pipeline flushed every unit)"   *)
(* (live.go): a stored analysis has the result of every statement in it.       *)
StoredIsFlushed ==
  \A e \in cache : [kind |-> "result", id |-> e.id] \in cache

(* "It finished streaming the finite video's audio to EOF" (live.go): a stored *)
(* analysis comes from a session that was sent the whole video.                *)
StoredIsWhole == [][cache' # cache => sent = Frames /\ heard = Frames]_vars

(* "Once an imported or uploaded video finishes, its analysis is cached"       *)
(* (README.md): a viewer who saw the whole video analysed and closes the       *)
(* socket leaves a session that counts as completed.                           *)
FinishedIsStored ==
  pc = "await" /\ reader = "done" /\ ~reqDone /\ delivered = Events
    /\ peer \in CloseCodes => Completed
==============================================================================
