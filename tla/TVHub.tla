-------------------------------- MODULE TVHub --------------------------------
(***************************************************************************)
(* internal/service/tvhub.go with the two socket handlers that drive it    *)
(* (internal/handler/tv_live.go): one live analysis session per channel,   *)
(* fanned out to viewers.  A room is created on first use, shared by a     *)
(* publisher and its viewers, and deleted by gcRoom once nobody holds it.  *)
(*                                                                         *)
(* Publish and Subscribe hold h.mu and then room.mu across lookup and      *)
(* registration, so each is one step that needs h.mu free; gcRoom releases *)
(* room.mu between its check and the delete, so it is two steps with h.mu  *)
(* held between them (collector).  What runs under room.mu alone (publish, *)
(* endSession, removeSub, Publish's error path) may fall between the two.  *)
(*                                                                         *)
(* Every socket handler is modelled once: a reconnecting feed or viewer is *)
(* another member of Feeds or Viewers.                                     *)
(***************************************************************************)
EXTENDS Naturals, Sequences, FiniteSets

CONSTANTS
  HubChannels,
  Feeds,          \* publisher socket handlers
  Viewers,        \* viewer socket handlers
  ChannelOf,      \* ChannelOf[p]: the channel a handler was opened for
  NoFeed,
  Nobody,
  RingSize,       \* tvRingSize
  ViewerBuffer,   \* tvSubscriberBuffer
  AudioBuffer,    \* tvAudioBuffer
  MaxEvents,      \* bound: events of one session
  MaxFrames       \* bound: audio frames of one feed

ASSUME HandlersAssumption ==
  /\ ChannelOf \in [Feeds \cup Viewers -> HubChannels]
  /\ Feeds \cap Viewers = {}
  /\ NoFeed \notin Feeds
  /\ Nobody \notin Feeds \cup Viewers
  /\ IsFiniteSet(Feeds \cup Viewers)
ASSUME SizesAssumption ==
  /\ RingSize \in Nat \ {0} /\ ViewerBuffer \in Nat \ {0}
  /\ AudioBuffer \in Nat \ {0} /\ MaxEvents \in Nat /\ MaxFrames \in Nat

VARIABLES
  rooms,      \* h.rooms: rooms[c] is the room of channel c, or NoRoom
  published,       \* rooms allocated so far
  room,       \* room[r]: publisher flag, whose cancel it holds, ring, subs
  feed,       \* feed[f]: publisher handler, its audio, analyzer and broadcast
  done,       \* feeds whose session context is cancelled
  viewer,     \* viewer[v]: handler, backlog left, pending messages, and whether
              \* its channel is open or which removeSub call closed it
  gone,       \* handlers whose connection context is cancelled
  gcWait,     \* handlers that owe a gcRoom call
  collector   \* the gcRoom call that holds h.mu

hubVars == <<rooms, published, room, feed, done, viewer, gone, gcWait, collector>>

Handlers == Feeds \cup Viewers
NoRoom == 0
RoomIds == 1 .. Cardinality(Handlers)

HubEvents == [feed : Feeds, n : 1 .. MaxEvents]
OffAirMessage == [feed |-> NoFeed, n |-> 0]
Messages == HubEvents \cup {OffAirMessage}

EmptyRoom == [publisher |-> FALSE, session |-> NoFeed, ring |-> << >>, subs |-> {}]
NewFeed == [pc |-> "dial", room |-> NoRoom, frames |-> 0, audio |-> 0,
            stream |-> "none", sent |-> 0, cast |-> "off"]
NewViewer == [pc |-> "dial", room |-> NoRoom, backlog |-> << >>, queue |-> << >>,
              chan |-> "open", taken |-> << >>, joined |-> OffAirMessage]
NoCollector == [who |-> Nobody, empty |-> FALSE]

FeedPoints == {"dial", "rejected", "starting", "pump", "blocked", "done"}
ViewerPoints == {"dial", "backlog", "live", "closing", "done"}

HubTypeOK ==
  /\ rooms \in [HubChannels -> RoomIds \cup {NoRoom}]
  /\ published \in 0 .. Cardinality(Handlers)
  /\ \A r \in RoomIds :
       /\ room[r].publisher \in BOOLEAN
       /\ room[r].session \in Feeds \cup {NoFeed}
       /\ room[r].ring \in Seq(HubEvents) /\ Len(room[r].ring) <= RingSize
       /\ room[r].subs \subseteq Viewers
  /\ feed \in [Feeds -> [pc : FeedPoints, room : RoomIds \cup {NoRoom},
                         frames : 0 .. MaxFrames, audio : 0 .. AudioBuffer,
                         stream : {"none", "open", "closed"},
                         sent : 0 .. MaxEvents, cast : {"off", "run", "ended"}]]
  /\ done \subseteq Feeds
  /\ \A v \in Viewers :
       /\ viewer[v].pc \in ViewerPoints
       /\ viewer[v].room \in RoomIds \cup {NoRoom}
       /\ viewer[v].backlog \in Seq(HubEvents) /\ Len(viewer[v].backlog) <= RingSize
       /\ viewer[v].queue \in Seq(Messages) /\ Len(viewer[v].queue) <= ViewerBuffer
       /\ viewer[v].taken \in Seq(Messages)
       /\ viewer[v].chan \in {"open", "slow", "session", "left"}
  /\ gone \subseteq Handlers
  /\ gcWait \subseteq Handlers
  /\ collector \in [who : Handlers \cup {Nobody}, empty : BOOLEAN]

InitHub ==
  /\ rooms = [c \in HubChannels |-> NoRoom]
  /\ published = 0
  /\ room = [r \in RoomIds |-> EmptyRoom]
  /\ feed = [f \in Feeds |-> NewFeed]
  /\ done = {}
  /\ viewer = [v \in Viewers |-> NewViewer]
  /\ gone = {}
  /\ gcWait = {}
  /\ collector = NoCollector

-----------------------------------------------------------------------------
(* The hub's map of rooms.                                                 *)

HubFree == collector = NoCollector

\* roomLocked: the channel's room, or a new one that becomes it.
RoomFor(c) == IF rooms[c] = NoRoom THEN published + 1 ELSE rooms[c]
Ensure(c) ==
  /\ rooms' = [rooms EXCEPT ![c] = RoomFor(c)]
  /\ published' = IF rooms[c] = NoRoom THEN published + 1 ELSE published

Empty(r) == ~room[r].publisher /\ room[r].subs = {}

\* gcRoom takes h.mu and looks at the room under room.mu ...
GcCheck(p) ==
  /\ p \in gcWait
  /\ HubFree
  /\ LET r == rooms[ChannelOf[p]]
     IN collector' = [who |-> p, empty |-> r # NoRoom /\ Empty(r)]
  /\ UNCHANGED <<rooms, published, room, feed, done, viewer, gone, gcWait>>

\* ... and deletes it if it was empty.
GcDelete ==
  /\ ~HubFree
  /\ rooms' = IF collector.empty
              THEN [rooms EXCEPT ![ChannelOf[collector.who]] = NoRoom]
              ELSE rooms
  /\ gcWait' = gcWait \ {collector.who}
  /\ collector' = NoCollector
  /\ UNCHANGED <<published, room, feed, done, viewer, gone>>

-----------------------------------------------------------------------------
(* Publishing.                                                             *)

Busy(r) == room[r].publisher

Publish(f) ==
  /\ feed[f].pc = "dial"
  /\ HubFree
  /\ LET r == RoomFor(ChannelOf[f])
     IN \/ /\ Busy(r)
           /\ feed' = [feed EXCEPT ![f].pc = "rejected"]
           /\ UNCHANGED <<rooms, published, room>>
        \/ /\ ~Busy(r)
           /\ Ensure(ChannelOf[f])
           /\ room' = [room EXCEPT ![r].publisher = TRUE, ![r].session = f,
                                   ![r].ring = << >>]
           /\ feed' = [feed EXCEPT ![f].pc = "starting", ![f].room = r]
  /\ UNCHANGED <<done, viewer, gone, gcWait, collector>>

\* analyzer.Run succeeds: the session's events start to flow.
StartChannelSession(f) ==
  /\ feed[f].pc = "starting"
  /\ feed' = [feed EXCEPT ![f].pc = "pump", ![f].stream = "open", ![f].cast = "run"]
  /\ UNCHANGED <<rooms, published, room, done, viewer, gone, gcWait, collector>>

\* analyzer.Run fails: the channel is released.
SessionStartFails(f) ==
  /\ feed[f].pc = "starting"
  /\ LET r == feed[f].room
     IN room' = [room EXCEPT ![r].publisher = FALSE, ![r].session = NoFeed]
  /\ feed' = [feed EXCEPT ![f].pc = "done"]
  /\ done' = done \cup {f}
  /\ gcWait' = gcWait \cup {f}
  /\ UNCHANGED <<rooms, published, viewer, gone, collector>>

\* tvFeedHandler reads a frame and calls Feed, which waits for room in the
\* audio buffer or for the session to be over.
ReadFeedFrame(f) ==
  /\ feed[f].pc = "pump"
  /\ feed[f].frames < MaxFrames
  /\ feed' = [feed EXCEPT ![f].pc = "blocked", ![f].frames = @ + 1]
  /\ UNCHANGED <<rooms, published, room, done, viewer, gone, gcWait, collector>>

FeedFrame(f) ==
  /\ feed[f].pc = "blocked"
  /\ \/ /\ feed[f].audio < AudioBuffer
        /\ feed' = [feed EXCEPT ![f].pc = "pump", ![f].audio = @ + 1]
     \/ /\ f \in done
        /\ feed' = [feed EXCEPT ![f].pc = "pump"]
  /\ UNCHANGED <<rooms, published, room, done, viewer, gone, gcWait, collector>>

\* The socket closes: the handler returns and pub.Close cancels the session.
FeedCloses(f) ==
  /\ feed[f].pc = "pump"
  /\ feed' = [feed EXCEPT ![f].pc = "done"]
  /\ done' = done \cup {f}
  /\ UNCHANGED <<rooms, published, room, viewer, gone, gcWait, collector>>

\* pingLoop gives the connection up and cancels the handler's context, which
\* the session's derives from, whatever the handler is doing.
FeedPingLost(f) ==
  /\ feed[f].pc \in {"pump", "blocked"}
  /\ f \notin gone
  /\ gone' = gone \cup {f}
  /\ done' = done \cup {f}
  /\ UNCHANGED <<rooms, published, room, feed, viewer, gcWait, collector>>

-----------------------------------------------------------------------------
(* The session: the analyzer (LiveAnalyzer) seen from outside, and the     *)
(* broadcast goroutine.                                                    *)

AnalyzerReads(f) ==
  /\ feed[f].stream = "open"
  /\ feed[f].audio > 0
  /\ feed' = [feed EXCEPT ![f].audio = @ - 1]
  /\ UNCHANGED <<rooms, published, room, done, viewer, gone, gcWait, collector>>

\* The provider ends the transcript, or the session was cancelled.
AnalyzerEnds(f) ==
  /\ feed[f].stream = "open"
  /\ feed' = [feed EXCEPT ![f].stream = "closed"]
  /\ UNCHANGED <<rooms, published, room, done, viewer, gone, gcWait, collector>>

\* Mutant: the window slides one event too early.
PushEarlySlide(ring, ev) ==
  IF Len(ring) < RingSize - 1 THEN Append(ring, ev) ELSE Tail(Append(ring, ev))

Push(ring, ev) ==
  IF Len(ring) < RingSize THEN Append(ring, ev) ELSE Tail(Append(ring, ev))

Slow(v) == Len(viewer[v].queue) >= ViewerBuffer

\* publish's default case removes the viewer.
FastSubs(r) == {v \in room[r].subs : ~Slow(v)}

\* An event is appended to the ring and sent to every viewer; one whose buffer
\* is full is disconnected.
BroadcastEvent(f) ==
  /\ feed[f].cast = "run"
  /\ feed[f].stream = "open"
  /\ feed[f].sent < MaxEvents
  /\ LET r == feed[f].room
         ev == [feed |-> f, n |-> feed[f].sent + 1]
     IN /\ room' = [room EXCEPT ![r].ring = Push(@, ev), ![r].subs = FastSubs(r)]
        /\ viewer' = [v \in Viewers |->
             IF v \notin room[r].subs THEN viewer[v]
             ELSE IF Slow(v) THEN [viewer[v] EXCEPT !.chan = "slow"]
             ELSE [viewer[v] EXCEPT !.queue = Append(@, ev)]]
  /\ feed' = [feed EXCEPT ![f].sent = @ + 1]
  /\ UNCHANGED <<rooms, published, done, gone, gcWait, collector>>

\* What endSession leaves in a viewer's channel: off air if there is room.
WithOffAir(v) == IF Slow(v) THEN viewer[v].queue ELSE Append(viewer[v].queue, OffAirMessage)

\* The event stream closed: the channel is idle, the session cancelled, every
\* viewer told (without blocking) and disconnected.
EndSession(f) ==
  /\ feed[f].cast = "run"
  /\ feed[f].stream = "closed"
  /\ LET r == feed[f].room
     IN /\ room' = [room EXCEPT ![r] = EmptyRoom]
        /\ viewer' = [v \in Viewers |->
             IF v \in room[r].subs
             THEN [viewer[v] EXCEPT !.queue = WithOffAir(v), !.chan = "session"]
             ELSE viewer[v]]
        /\ done' = done \cup ({room[r].session} \ {NoFeed})
  /\ feed' = [feed EXCEPT ![f].cast = "ended"]
  /\ gcWait' = gcWait \cup {f}
  /\ UNCHANGED <<rooms, published, gone, collector>>

-----------------------------------------------------------------------------
(* Viewing.                                                                *)

\* History: the session running when the viewer joined, and its last event.
JoinPoint(r) ==
  LET f == room[r].session
  IN IF f = NoFeed THEN OffAirMessage ELSE [feed |-> f, n |-> feed[f].sent]

Attach(v, r) ==
  /\ Ensure(ChannelOf[v])
  /\ room' = [room EXCEPT ![r].subs = @ \cup {v}]
  /\ viewer' = [viewer EXCEPT ![v] =
       [NewViewer EXCEPT !.pc = "backlog", !.room = r,
                         !.backlog = room[r].ring, !.joined = JoinPoint(r)]]

\* Mutant: Subscribe does not hold h.mu.
SubscribeUnlocked(v) ==
  /\ viewer[v].pc = "dial"
  /\ Attach(v, RoomFor(ChannelOf[v]))
  /\ UNCHANGED <<feed, done, gone, gcWait, collector>>

Subscribe(v) ==
  /\ viewer[v].pc = "dial"
  /\ HubFree
  /\ Attach(v, RoomFor(ChannelOf[v]))
  /\ UNCHANGED <<feed, done, gone, gcWait, collector>>

\* tvViewerHandler writes the backlog, then the live messages.  A write to a
\* connection that is gone fails; one to a live connection may time out.
SendBacklog(v) ==
  /\ viewer[v].pc = "backlog"
  /\ \/ /\ viewer[v].backlog = << >>
        /\ viewer' = [viewer EXCEPT ![v].pc = "live"]
     \/ /\ viewer[v].backlog # << >>
        /\ v \notin gone
        /\ viewer' = [viewer EXCEPT ![v].backlog = Tail(@),
                        ![v].taken = Append(@, Head(viewer[v].backlog))]
     \/ /\ viewer[v].backlog # << >>
        /\ viewer' = [viewer EXCEPT ![v].pc = "closing"]
  /\ UNCHANGED <<rooms, published, room, feed, done, gone, gcWait, collector>>

SendMessage(v) ==
  /\ viewer[v].pc = "live"
  /\ viewer[v].queue # << >>
  /\ LET msg == Head(viewer[v].queue)
     IN \/ /\ v \notin gone
           /\ viewer' = [viewer EXCEPT ![v].queue = Tail(@),
                           ![v].taken = Append(@, msg),
                           ![v].pc = IF msg = OffAirMessage THEN "closing" ELSE "live"]
        \/ viewer' = [viewer EXCEPT ![v].queue = Tail(@), ![v].pc = "closing"]
  /\ UNCHANGED <<rooms, published, room, feed, done, gone, gcWait, collector>>

\* The range over Messages ends: the channel is closed and drained.
ChannelStreamEnds(v) ==
  /\ viewer[v].pc = "live"
  /\ viewer[v].queue = << >>
  /\ viewer[v].chan # "open"
  /\ viewer' = [viewer EXCEPT ![v].pc = "closing"]
  /\ UNCHANGED <<rooms, published, room, feed, done, gone, gcWait, collector>>

\* sub.Close: removeSub, then gcRoom.
CloseViewer(v) ==
  /\ viewer[v].pc = "closing"
  /\ room' = [room EXCEPT ![viewer[v].room].subs = @ \ {v}]
  /\ viewer' = [viewer EXCEPT ![v].pc = "done",
                              ![v].chan = IF @ = "open" THEN "left" ELSE @]
  /\ gcWait' = gcWait \cup {v}
  /\ UNCHANGED <<rooms, published, feed, done, gone, collector>>

\* drainReader or pingLoop notices the client has left and cancels its context.
ClientLeaves(v) ==
  /\ viewer[v].pc \in {"backlog", "live"}
  /\ v \notin gone
  /\ gone' = gone \cup {v}
  /\ UNCHANGED <<rooms, published, room, feed, done, viewer, gcWait, collector>>

\* Live: the room's flag, looked up under h.mu and read under room.mu.
LiveNow(c) == rooms[c] # NoRoom /\ room[rooms[c]].publisher

-----------------------------------------------------------------------------

FeedStep(f) ==
  \/ Publish(f) \/ StartChannelSession(f) \/ SessionStartFails(f) \/ ReadFeedFrame(f)
  \/ FeedFrame(f) \/ FeedCloses(f) \/ FeedPingLost(f)
  \/ AnalyzerReads(f) \/ AnalyzerEnds(f) \/ BroadcastEvent(f) \/ EndSession(f)

ViewerStep(v) ==
  \/ Subscribe(v) \/ SendBacklog(v) \/ SendMessage(v) \/ ChannelStreamEnds(v)
  \/ CloseViewer(v) \/ ClientLeaves(v)

NextHub == \/ \E f \in Feeds : FeedStep(f)
        \/ \E v \in Viewers : ViewerStep(v)
        \/ \E p \in Handlers : GcCheck(p)
        \/ GcDelete

(***************************************************************************)
(* Runnable goroutines run; analyzer.Run returns; a running analyzer reads *)
(* its audio and, once cancelled, closes its stream (LiveAnalyzer's        *)
(* StreamCloses); a socket write has a deadline.  Nothing makes a feed     *)
(* connect or close, a provider speak or end, or a viewer come or leave.   *)
(***************************************************************************)
HubFairness ==
  /\ \A f \in Feeds :
       /\ WF_hubVars(StartChannelSession(f) \/ SessionStartFails(f))
       /\ WF_hubVars(FeedFrame(f))
       /\ WF_hubVars(AnalyzerReads(f))
       /\ WF_hubVars(f \in done /\ AnalyzerEnds(f))
       /\ WF_hubVars(EndSession(f))
       /\ WF_hubVars(f \in gone /\ FeedCloses(f))
  /\ \A v \in Viewers :
       WF_hubVars(SendBacklog(v) \/ SendMessage(v) \/ ChannelStreamEnds(v)
               \/ CloseViewer(v))
  /\ \A p \in Handlers : WF_hubVars(GcCheck(p))
  /\ WF_hubVars(GcDelete)

HubSpec == InitHub /\ [][NextHub]_hubVars
HubFairSpec == HubSpec /\ HubFairness

-----------------------------------------------------------------------------
(* Properties.                                                             *)

\* The feeds whose session holds their channel.
Holding == {f \in Feeds : feed[f].pc = "starting" \/ feed[f].cast = "run"}

\* Two capture processes never analyze one channel at once (ErrTVChannelBusy).
OneSessionPerChannel ==
  \A f, g \in Holding : ChannelOf[f] = ChannelOf[g] => f = g

Attached(v) == viewer[v].room # NoRoom /\ v \in room[viewer[v].room].subs

\* The room a running session or an attached viewer uses is the one the hub
\* finds: gcRoom never deletes a room somebody holds (roomLocked's contract).
NoOrphanRoom ==
  /\ \A f \in Holding : rooms[ChannelOf[f]] = feed[f].room
  /\ \A v \in Viewers : Attached(v) => rooms[ChannelOf[v]] = viewer[v].room

\* Everything a viewer was sent and, while its handler is still writing, is
\* about to be sent or has waiting.
Writing(v) == viewer[v].pc \in {"backlog", "live"}
Stream(v) == IF Writing(v)
             THEN viewer[v].taken \o viewer[v].backlog \o viewer[v].queue
             ELSE viewer[v].taken

Follows(e, d) == d = OffAirMessage \/ (e.feed = d.feed /\ d.n = e.n + 1)

FirstOwed(v) ==
  LET j == viewer[v].joined
  IN IF j.n > RingSize THEN j.n - RingSize + 1 ELSE 1

\* Across the join and until it is disconnected, a viewer gets every event of
\* one session once and in order, from as far back as the ring reaches, and
\* while it is attached nothing that was published is still owed to it
\* (Subscribe's "no event is missed or duplicated across the join").
ViewerMissesNothing ==
  \A v \in Viewers :
    LET s == Stream(v)
    IN /\ \A k \in 1 .. Len(s) - 1 : Follows(s[k], s[k + 1])
       /\ s # << >> /\ s[1] # OffAirMessage => s[1].n = FirstOwed(v)
       /\ Attached(v) /\ Writing(v) =>
            LET f == room[viewer[v].room].session
            IN f # NoFeed /\ feed[f].sent > 0
                 => s # << >> /\ s[Len(s)] = [feed |-> f, n |-> feed[f].sent]

\* A viewer's channel is open exactly while it is registered, so nothing is
\* sent on a closed channel and no channel is closed twice (removeSub).
OpenWhileAttached ==
  \A v \in Viewers : viewer[v].room # NoRoom => (Attached(v) <=> viewer[v].chan = "open")

\* Off air is the last message of a stream, and a stream that carries it is
\* closed: no event of a later session can follow it (endSession).
OffAirIsLast ==
  \A v \in Viewers : LET s == Stream(v)
    IN \A k \in 1 .. Len(s) : s[k] = OffAirMessage => k = Len(s) /\ viewer[v].chan = "session"

\* A handler never stays blocked handing a frame to a stopped analyzer (Feed).
FeedNeverWedged ==
  \A f \in Feeds : (feed[f].pc = "blocked") ~> (feed[f].pc # "blocked")

\* The end of a session, however it comes, releases every viewer of it.
ViewersReleased ==
  \A f \in Feeds, v \in Viewers :
    (Attached(v) /\ feed[f].cast = "run" /\ viewer[v].room = feed[f].room
       /\ f \in done) ~> ~Attached(v)

\* Idle channels do not accumulate: a room nobody holds is collected, or held
\* again (gcRoom).
IdleRoomsCollected ==
  \A c \in HubChannels :
    LET Idle == rooms[c] # NoRoom /\ Empty(rooms[c])
    IN Idle ~> ~Idle

-----------------------------------------------------------------------------
(* What comments in the code say and the code does not do.                 *)

\* TVSubscriber.Messages: "an OffAir message precedes the close on a session
\* end".  A stream that ended with its session carries OffAirMessage.
OffAirPrecedesClose ==
  \A v \in Viewers :
    viewer[v].chan = "session" /\ Writing(v)
      => viewer[v].queue # << >> /\ viewer[v].queue[Len(viewer[v].queue)] = OffAirMessage

\* drainReader: "any read error cancels the session so the writer stops".
LeavingStopsWriter ==
  \A v \in Viewers : (v \in gone) ~> (viewer[v].pc = "done")

\* Live: "reports whether the channel currently has a connected publisher feed".
ConnectedIsLive ==
  \A f \in Feeds :
    feed[f].pc \in {"pump", "blocked"} /\ f \notin gone => LiveNow(ChannelOf[f])

\* The hub's bookkeeping: types, one session of a channel, no room deleted
\* under its holders, and no channel of a viewer closed twice or written to
\* once closed.
HubSound == HubTypeOK /\ OneSessionPerChannel /\ NoOrphanRoom /\ OpenWhileAttached

\* What a viewer gets of a session is whole: no event is missed or comes twice
\* across its joining, and off-air is the last thing it hears.
StreamWhole == ViewerMissesNothing /\ OffAirIsLast

\* Nobody is held by a session that is over: feeds get away, viewers are let
\* go, and rooms nobody uses are collected.
HubReleases == FeedNeverWedged /\ ViewersReleased /\ IdleRoomsCollected
==============================================================================
