------------------------------ MODULE MCSockets ------------------------------
(***************************************************************************)
(* The ends of connections: the handler of a live session, on the server   *)
(* (LiveSocket); the hook that watches a channel, in the browser           *)
(* (ChannelViewer, which has its own image of the hub); and what lets a    *)
(* client in, the limiter of login attempts (LoginLimiter) and the token   *)
(* the capture worker calls with (CaptureToken).  They share no state, so  *)
(* a behaviour moves one of them, `part`, and leaves the others at rest: a *)
(* run pays their sum, not their product.                                  *)
(***************************************************************************)
EXTENDS LiveSocket, ChannelViewer, LoginLimiter, CaptureToken

CONSTANTS p1, p2, t1, t2, t3

VARIABLE part

MCCallers == {p1, p2}
MCTokenNames == {t1, t2, t3}

\* Two units of a session, one bucket of start times each.
MCStartOf == SubSeq(<<<<0, 1>>, <<1, 2>>>>, 1, MaxSessions)

SocketMoves  == part = "socket"
PageMoves    == part = "page"
LimiterMoves == part = "limiter"
TokenMoves   == part = "token"

\* A page that was closed before anything happened.
ViewerAtRest ==
  /\ air = [on |-> FALSE, session |-> 0, ring |-> << >>, progress |-> [u \in Units |-> 0]]
  /\ line = NoLine
  /\ hook = [status |-> "connecting", attempts |-> 0, offAir |-> FALSE, timer |-> FALSE, disposed |-> TRUE]
  /\ screen = [rows |-> [u \in Units |-> NoRow], byStart |-> [b \in Buckets |-> 0],
               claims |-> [u \in Units |-> "none"], tally |-> 0, caption |-> FALSE]
  /\ seen = {}

InitSockets ==
  /\ part \in {"socket", "page", "limiter", "token"}
  /\ Init /\ (SocketMoves \/ cache = {})
  /\ IF PageMoves THEN InitViewer ELSE ViewerAtRest
  /\ InitLimiter /\ InitToken

NextSockets ==
  \/ SocketMoves  /\ Next        /\ UNCHANGED <<part, viewerVars, limiterVars, tokenVars>>
  \/ PageMoves    /\ NextViewer  /\ UNCHANGED <<part, vars, limiterVars, tokenVars>>
  \/ LimiterMoves /\ NextLimiter /\ UNCHANGED <<part, vars, viewerVars, tokenVars>>
  \/ TokenMoves   /\ NextToken   /\ UNCHANGED <<part, vars, viewerVars, limiterVars>>

\* Fairness, ViewerFairness and TokenFairness, each while its part moves.
SocketsFairness ==
  /\ WF_vars(SocketMoves /\ ReaderStep) /\ WF_vars(SocketMoves /\ PingStep)
  /\ WF_vars(SocketMoves /\ HandlerStep) /\ WF_vars(SocketMoves /\ CloseEvents)
  /\ WF_viewerVars(PageMoves /\ Answer) /\ WF_viewerVars(PageMoves /\ TimerFires)
  /\ WF_viewerVars(PageMoves /\ Deliver) /\ WF_viewerVars(PageMoves /\ CloseArrives)
  /\ \A c \in Callers : WF_tokenVars(TokenMoves /\ CallStep(c)) /\ SF_tokenVars(TokenMoves /\ MutexStep(c))

socketsVars == <<part, vars, viewerVars, limiterVars, tokenVars>>
SocketsSpec == InitSockets /\ [][NextSockets]_socketsVars /\ SocketsFairness

\* A session that is over lets go of its handler, reader and pings, a page that
\* lost its channel gets it back, sees it end or gives up, and callers get
\* through again after the keys have changed.
SocketsEnd == SessionReleased /\ Settles /\ (TokenMoves => TokenRecovers)

\* The handler's counters and buffers are in range, the page shows what it was
\* sent, the limiter keeps its cap, and a cached token is good.
EndsSound == TypeOK /\ PageSound /\ LimiterSound /\ TokenSound
==============================================================================
