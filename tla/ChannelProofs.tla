---------------------------- MODULE ChannelProofs ----------------------------
(***************************************************************************)
(* Theorems about the channels: the hub their feeds and viewers meet in,   *)
(* the registry that says what channels there are, and the worker that     *)
(* captures them.                                                          *)
(*                                                                         *)
(* The hub, for any number of channels, feeds, viewers, events and frames, *)
(* and any ring and buffer sizes.  A room is never deleted under somebody  *)
(* who holds it because joining needs h.mu, which gcRoom keeps from its    *)
(* check to the delete (StillEmpty), while everything that may fall        *)
(* between the two only empties rooms.  What a viewer gets has a closed    *)
(* form (Whole, UpToDate), which the ring's window starts it on (Rings).   *)
(*                                                                         *)
(* The registry, for any number of tabs, of requests a tab has under way,  *)
(* of channels, slugs and sources.  A patch is a read, an overlay and a    *)
(* write, so what matters is what becomes of the row between the read and  *)
(* the write: it keeps its slug or is gone for good (Holds), and when      *)
(* patches come one at a time nobody else changes its switches (Owed).     *)
(*                                                                         *)
(* The worker, for any number of channels, supervisors, segments and rows. *)
(* Whoever drains is awaited by the manager, or not wanted any more, or    *)
(* was wanted again too early (DrainingOK), so what the manager starts it  *)
(* starts on a channel that is vacant, or hasty (ManagerOK).  A segment is *)
(* on disk until its object is stored and its row ready, unless it is late *)
(* (JobOK); the retention takes what has left the disk, or is late         *)
(* (ExpiredOK), the object before the row (PruneOK).                       *)
(***************************************************************************)
EXTENDS TVHub, ChannelAdmin, Capture, FiniteSetTheorems, SequenceTheorems, WellFoundedInduction, TLAPS

\* The types, one variable at a time.
RoomRec == [publisher : BOOLEAN, session : Feeds \cup {NoFeed}, ring : Seq(HubEvents), subs : SUBSET Viewers]
FeedRec == [pc : FeedPoints, room : RoomIds \cup {NoRoom}, frames : 0 .. MaxFrames, audio : 0 .. AudioBuffer,
            stream : {"none", "open", "closed"}, sent : 0 .. MaxEvents, cast : {"off", "run", "ended"}]
Joined == [feed : Feeds \cup {NoFeed}, n : 0 .. MaxEvents]
ViewerRec == [pc : ViewerPoints, room : RoomIds \cup {NoRoom}, backlog : Seq(HubEvents), queue : Seq(Messages),
              chan : {"open", "slow", "session", "left"}, taken : Seq(Messages), joined : Joined]

RoomsOK == rooms \in [HubChannels -> RoomIds \cup {NoRoom}]
RoomOK == room \in [RoomIds -> RoomRec] /\ \A r \in RoomIds : Len(room[r].ring) <= RingSize
FeedOK == feed \in [Feeds -> FeedRec]
ViewersOK ==
  /\ viewer \in [Viewers -> ViewerRec]
  /\ \A v \in Viewers : Len(viewer[v].backlog) <= RingSize /\ Len(viewer[v].queue) <= ViewerBuffer
SetsOK == done \subseteq Feeds /\ gone \subseteq Handlers /\ gcWait \subseteq Handlers
CollectorOK ==
  /\ collector \in [who : Handlers \cup {Nobody}, empty : BOOLEAN]
  /\ ~HubFree => collector.who \in Handlers

\* A handler makes at most one room, when it stops dialling.
Arrived == {f \in Feeds : feed[f].pc # "dial"} \cup {v \in Viewers : viewer[v].pc # "dial"}
Counted == published \in Nat /\ published <= Cardinality(Arrived)
Made ==
  /\ \A c \in HubChannels : rooms[c] <= published
  /\ \A v \in Viewers : viewer[v].room <= published
  /\ \A f \in Feeds : feed[f].room <= published

\* A broadcast starts after its feed, and a viewer has a room once it has dialled.
Begun ==
  /\ \A f \in Feeds : feed[f].cast # "off" => feed[f].pc \notin {"dial", "starting"}
  /\ \A f \in Feeds : feed[f].stream # "none" <=> feed[f].cast # "off"
  /\ \A v \in Viewers : viewer[v].pc = "dial" <=> viewer[v].room = NoRoom

\* A session holds the room the hub finds for its channel.
Held ==
  \A f \in Holding :
    /\ feed[f].room # NoRoom /\ rooms[ChannelOf[f]] = feed[f].room
    /\ room[feed[f].room].publisher /\ room[feed[f].room].session = f

\* A room's viewers know it for theirs.
SubsOwn == \A r \in RoomIds : \A v \in room[r].subs : viewer[v].room = r
Seats == \A v \in Viewers : Attached(v) => rooms[ChannelOf[v]] = viewer[v].room

\* What gcRoom saw empty is empty until it deletes it: joining needs h.mu.
StillEmpty ==
  ~HubFree /\ collector.empty => rooms[ChannelOf[collector.who]] # NoRoom /\ Empty(rooms[ChannelOf[collector.who]])

HubInv ==
  /\ RoomsOK /\ RoomOK /\ FeedOK /\ ViewersOK /\ SetsOK /\ CollectorOK
  /\ Counted /\ Made /\ Begun /\ Held /\ SubsOwn /\ Seats /\ StillEmpty /\ OpenWhileAttached

-----------------------------------------------------------------------------
LEMMA HubInit == InitHub => HubInv
<1> SUFFICES ASSUME InitHub PROVE HubInv
  OBVIOUS
<1> USE DEF InitHub
<1>1. HubFree /\ Arrived = {} /\ Holding = {}
  BY DEF HubFree, Arrived, Holding, NewFeed, NewViewer
<1>2. RoomsOK
  BY DEF RoomsOK
<1>3. RoomOK
  BY SizesAssumption DEF RoomOK, RoomRec, EmptyRoom
<1>4. FeedOK
  BY SizesAssumption DEF FeedOK, FeedRec, FeedPoints, NewFeed
<1>5. ViewersOK
  <2>1. OffAirMessage \in Joined
    BY SizesAssumption DEF OffAirMessage, Joined
  <2>2. NewViewer \in ViewerRec /\ NewViewer.backlog = <<>> /\ NewViewer.queue = <<>>
    BY <2>1 DEF NewViewer, ViewerRec, ViewerPoints
  <2> QED BY <2>2, SizesAssumption DEF ViewersOK
<1>6. SetsOK
  BY DEF SetsOK
<1>7. CollectorOK /\ StillEmpty
  BY <1>1 DEF CollectorOK, StillEmpty, NoCollector
<1>8. Counted
  BY <1>1, FS_EmptySet DEF Counted
<1>9. Made /\ Begun
  BY DEF Made, Begun, NoRoom, NewFeed, NewViewer
<1>10. Held
  BY <1>1 DEF Held
<1>11. SubsOwn
  BY DEF SubsOwn, EmptyRoom
<1>12. Seats /\ OpenWhileAttached
  BY DEF Seats, OpenWhileAttached, Attached, NewViewer
<1> QED BY <1>2, <1>3, <1>4, <1>5, <1>6, <1>7, <1>8, <1>9, <1>10, <1>11, <1>12 DEF HubInv

\* What a step leaves alone keeps its part of the invariant.
LEMMA HubKept ==
  ASSUME HubInv
  PROVE  /\ UNCHANGED rooms => RoomsOK'
         /\ UNCHANGED room => RoomOK'
         /\ UNCHANGED feed => FeedOK'
         /\ UNCHANGED viewer => ViewersOK'
         /\ UNCHANGED <<done, gone, gcWait>> => SetsOK'
         /\ UNCHANGED collector => CollectorOK'
         /\ UNCHANGED <<published, feed, viewer>> => Counted' /\ Begun'
         /\ UNCHANGED <<published, rooms, feed, viewer>> => Made'
         /\ UNCHANGED <<rooms, room, feed>> => Held'
         /\ UNCHANGED <<room, viewer>> => SubsOwn' /\ OpenWhileAttached'
         /\ UNCHANGED <<rooms, room, viewer>> => Seats'
         /\ UNCHANGED <<rooms, room, collector>> => StillEmpty'
<1> USE DEF HubInv
<1>1. UNCHANGED rooms => RoomsOK'
  BY DEF RoomsOK
<1>2. UNCHANGED room => RoomOK'
  BY DEF RoomOK
<1>3. UNCHANGED feed => FeedOK'
  BY DEF FeedOK
<1>4. UNCHANGED viewer => ViewersOK'
  BY DEF ViewersOK
<1>5. UNCHANGED <<done, gone, gcWait>> => SetsOK'
  BY DEF SetsOK
<1>6. UNCHANGED collector => CollectorOK'
  BY DEF CollectorOK, HubFree
<1>7. UNCHANGED <<published, feed, viewer>> => Counted' /\ Begun'
  BY DEF Counted, Begun, Arrived
<1>8. UNCHANGED <<published, rooms, feed, viewer>> => Made'
  BY DEF Made
<1>9. UNCHANGED <<rooms, room, feed>> => Held'
  BY DEF Held, Holding
<1>10. UNCHANGED <<room, viewer>> => SubsOwn' /\ OpenWhileAttached'
  BY DEF SubsOwn, OpenWhileAttached, Attached
<1>11. UNCHANGED <<rooms, room, viewer>> => Seats'
  BY DEF Seats, Attached
<1>12. UNCHANGED <<rooms, room, collector>> => StillEmpty'
  BY DEF StillEmpty, HubFree, Empty
<1> QED BY <1>1, <1>2, <1>3, <1>4, <1>5, <1>6, <1>7, <1>8, <1>9, <1>10, <1>11, <1>12

\* A handler that stops dialling finds a number for the room it may make.
LEMMA RoomForOne ==
  ASSUME HubInv, NEW h \in Handlers, h \notin Arrived, NEW c \in HubChannels
  PROVE  /\ published + 1 \in RoomIds /\ RoomFor(c) \in RoomIds
         /\ Cardinality(Arrived \cup {h}) = Cardinality(Arrived) + 1
<1>1. IsFiniteSet(Handlers)
  BY HandlersAssumption DEF Handlers
<1>2. Arrived \cup {h} \subseteq Handlers
  BY DEF Arrived, Handlers
<1>3. IsFiniteSet(Arrived) /\ IsFiniteSet(Arrived \cup {h})
  BY <1>1, <1>2, FS_Subset
<1>4. Cardinality(Arrived \cup {h}) = Cardinality(Arrived) + 1 /\ Cardinality(Arrived) \in Nat
  BY <1>3, FS_AddElement, FS_CardinalityType
<1>5. Cardinality(Arrived \cup {h}) <= Cardinality(Handlers) /\ Cardinality(Handlers) \in Nat
  BY <1>1, <1>2, FS_Subset, FS_CardinalityType
<1>6. published \in Nat /\ published <= Cardinality(Arrived)
  BY DEF HubInv, Counted
<1>7. published + 1 \in RoomIds
  BY <1>4, <1>5, <1>6 DEF RoomIds
<1>8. RoomFor(c) \in RoomIds
  BY <1>7 DEF RoomFor, HubInv, RoomsOK
<1> QED BY <1>4, <1>7, <1>8

\* roomLocked leaves every channel's room where it was and gives this one a room.
LEMMA EnsureKeeps ==
  ASSUME HubInv, NEW h \in Handlers, h \notin Arrived, Arrived' = Arrived \cup {h}, NEW c \in HubChannels, Ensure(c)
  PROVE  /\ RoomsOK' /\ Counted' /\ published <= published' /\ RoomFor(c) <= published'
         /\ rooms'[c] = RoomFor(c)
         /\ \A d \in HubChannels : rooms'[d] <= published' /\ (rooms[d] # NoRoom => rooms'[d] = rooms[d])
<1>1. published + 1 \in RoomIds /\ RoomFor(c) \in RoomIds /\ Cardinality(Arrived') = Cardinality(Arrived) + 1
  BY RoomForOne
<1>2. published \in Nat /\ published <= Cardinality(Arrived)
  BY DEF HubInv, Counted
<1>3. Cardinality(Arrived) \in Nat
  <2>1. IsFiniteSet(Handlers) /\ Arrived \subseteq Handlers
    BY HandlersAssumption DEF Handlers, Arrived
  <2> QED BY <2>1, FS_Subset, FS_CardinalityType
<1>4. rooms \in [HubChannels -> RoomIds \cup {NoRoom}] /\ \A d \in HubChannels : rooms[d] <= published
  BY DEF HubInv, RoomsOK, Made
<1>5. rooms' = [rooms EXCEPT ![c] = RoomFor(c)] /\ published' = IF rooms[c] = NoRoom THEN published + 1 ELSE published
  BY DEF Ensure
<1>6. RoomsOK' /\ rooms'[c] = RoomFor(c)
  BY <1>1, <1>4, <1>5 DEF RoomsOK
<1>7. Counted' /\ published <= published'
  BY <1>1, <1>2, <1>3, <1>5 DEF Counted
<1>8. RoomFor(c) <= published'
  BY <1>2, <1>4, <1>5 DEF RoomFor
<1>9. \A d \in HubChannels : rooms'[d] <= published' /\ (rooms[d] # NoRoom => rooms'[d] = rooms[d])
  <2> SUFFICES ASSUME NEW d \in HubChannels PROVE rooms'[d] <= published' /\ (rooms[d] # NoRoom => rooms'[d] = rooms[d])
    OBVIOUS
  <2>1. CASE d = c
    BY <1>4, <1>5, <1>6, <1>8, <2>1 DEF RoomFor
  <2>2. CASE d # c
    <3>1. rooms'[d] = rooms[d] /\ rooms[d] <= published /\ rooms[d] \in Int
      BY <1>4, <1>5, <2>2 DEF RoomIds, NoRoom
    <3> QED BY <1>2, <1>5, <3>1
  <2> QED BY <2>1, <2>2
<1> QED BY <1>6, <1>7, <1>8, <1>9

\* A feed that goes on, in the room it has.
LEMMA FeedMoves ==
  ASSUME HubInv, NEW f \in Feeds, NEW x \in FeedRec, feed' = [feed EXCEPT ![f] = x],
         x.room = feed[f].room, x.pc # "dial", feed[f].pc # "dial",
         x.pc = "starting" \/ x.cast = "run" => f \in Holding,
         x.cast # "off" => x.pc # "starting",
         x.stream # "none" <=> x.cast # "off",
         UNCHANGED <<published, rooms, viewer>>
  PROVE  /\ FeedOK' /\ Counted' /\ Made' /\ Begun' /\ Holding' \subseteq Holding
         /\ UNCHANGED room => Held'
         /\ feed'[f] = x /\ \A g \in Feeds : feed'[g].room = feed[g].room /\ (g # f => feed'[g] = feed[g])
<1> USE DEF HubInv
<1>1. feed \in [Feeds -> FeedRec]
  BY DEF FeedOK
<1>2. feed' \in [Feeds -> FeedRec] /\ feed'[f] = x /\ \A g \in Feeds : feed'[g].room = feed[g].room /\ (g # f => feed'[g] = feed[g])
  BY <1>1
<1>3. Arrived' = Arrived
  BY <1>2 DEF Arrived
<1>4. Counted' /\ Made' /\ Begun'
  BY <1>2, <1>3 DEF Counted, Made, Begun
<1>5. Holding' \subseteq Holding
  BY <1>2 DEF Holding
<1>6. UNCHANGED room => Held'
  BY <1>2, <1>5 DEF Held
<1> QED BY <1>2, <1>4, <1>5, <1>6 DEF FeedOK

\* A viewer that goes on, in its seat.
LEMMA ViewerMoves ==
  ASSUME HubInv, NEW v \in Viewers, NEW x \in ViewerRec, viewer' = [viewer EXCEPT ![v] = x],
         Len(x.backlog) <= RingSize, Len(x.queue) <= ViewerBuffer,
         x.room = viewer[v].room, x.chan = viewer[v].chan, x.pc # "dial", viewer[v].pc # "dial",
         UNCHANGED <<rooms, published, room, feed>>
  PROVE  ViewersOK' /\ Counted' /\ Made' /\ Begun' /\ SubsOwn' /\ Seats' /\ OpenWhileAttached'
<1> USE DEF HubInv
<1>1. viewer \in [Viewers -> ViewerRec]
  BY DEF ViewersOK
<1>2. /\ viewer' \in [Viewers -> ViewerRec] /\ viewer'[v] = x
      /\ \A w \in Viewers : viewer'[w].room = viewer[w].room /\ viewer'[w].chan = viewer[w].chan
      /\ \A w \in Viewers : w # v => viewer'[w] = viewer[w]
  BY <1>1
<1>3. ViewersOK'
  BY <1>2 DEF ViewersOK
<1>4. Arrived' = Arrived
  BY <1>2 DEF Arrived
<1>5. Counted' /\ Made' /\ Begun'
  BY <1>2, <1>4 DEF Counted, Made, Begun
<1>6. \A w \in Viewers : Attached(w)' <=> Attached(w)
  BY <1>2 DEF Attached
<1>7. Seats' /\ OpenWhileAttached'
  BY <1>2, <1>6 DEF Seats, OpenWhileAttached
<1>8. SubsOwn'
  <2>1. \A r \in RoomIds : room[r].subs \subseteq Viewers
    BY DEF RoomOK, RoomRec
  <2> QED BY <1>2, <2>1 DEF SubsOwn
<1> QED BY <1>3, <1>5, <1>7, <1>8
-----------------------------------------------------------------------------
(* Feeds.                                                                  *)

LEMMA RoomTaken ==
  ASSUME room \in [RoomIds -> RoomRec], NEW r \in RoomIds, NEW f \in Feeds,
         room' = [room EXCEPT ![r].publisher = TRUE, ![r].session = f, ![r].ring = << >>]
  PROVE  /\ room' \in [RoomIds -> RoomRec] /\ room'[r].publisher /\ room'[r].session = f /\ room'[r].ring = << >>
         /\ \A q \in RoomIds : room'[q].subs = room[q].subs /\ (q # r => room'[q] = room[q])
<1>1. PICK b \in BOOLEAN : b = TRUE
  OBVIOUS
<1>2. PICK ring \in Seq(HubEvents) : ring = << >>
  <2>1. << >> \in Seq(HubEvents)
    OBVIOUS
  <2> QED BY <2>1, Zenon
<1>3. PICK t \in RoomRec : t = room[r]
  OBVIOUS
<1>4. PICK y : y = [t EXCEPT !.publisher = b, !.session = f, !.ring = ring]
  OBVIOUS
<1>5. y \in RoomRec
  BY <1>1, <1>2, <1>3, <1>4 DEF RoomRec
<1>6. y.publisher = b /\ y.session = f /\ y.ring = ring /\ y.subs = t.subs
  BY <1>1, <1>2, <1>3, <1>4 DEF RoomRec
<1>7. room' = [room EXCEPT ![r] = [room[r] EXCEPT !.publisher = TRUE, !.session = f, !.ring = << >>]]
  BY Zenon
<1>8. room' = [room EXCEPT ![r] = y]
  BY <1>1, <1>2, <1>3, <1>4, <1>7, Zenon
<1> QED BY <1>1, <1>2, <1>3, <1>5, <1>6, <1>8

LEMMA PublishKeeps == ASSUME HubInv, NEW f \in Feeds, Publish(f) PROVE HubInv'
<1> USE DEF HubInv
<1> DEFINE c == ChannelOf[f]
           r == RoomFor(c)
<1>1. feed[f].pc = "dial" /\ HubFree /\ UNCHANGED <<done, viewer, gone, gcWait, collector>>
  BY DEF Publish
<1>2. feed \in [Feeds -> FeedRec] /\ feed[f] \in FeedRec /\ feed[f].cast = "off" /\ feed[f].stream = "none"
  BY <1>1 DEF FeedOK, Begun
<1>3. f \in Handlers /\ f \notin Arrived /\ c \in HubChannels
  BY <1>1, HandlersAssumption DEF Handlers, Arrived
<1>4. HubFree'
  BY <1>1 DEF HubFree
<1>5. StillEmpty'
  BY <1>4 DEF StillEmpty
<1>6. CASE feed' = [feed EXCEPT ![f].pc = "rejected"] /\ UNCHANGED <<rooms, published, room>>
  <2>1. /\ feed' \in [Feeds -> FeedRec] /\ feed'[f].pc = "rejected" /\ feed'[f].cast = "off"
        /\ \A g \in Feeds : feed'[g].room = feed[g].room /\ (g # f => feed'[g] = feed[g])
    BY <1>2, <1>6 DEF FeedRec, FeedPoints
  <2>2. Arrived' = Arrived \cup {f}
    BY <1>1, <2>1, HandlersAssumption DEF Arrived
  <2>3. Cardinality(Arrived') = Cardinality(Arrived) + 1
    BY <1>3, <2>2, RoomForOne
  <2>4. Counted'
    <3>1. Cardinality(Arrived) \in Nat
      <4>1. IsFiniteSet(Handlers) /\ Arrived \subseteq Handlers
        BY HandlersAssumption DEF Handlers, Arrived
      <4> QED BY <4>1, FS_Subset, FS_CardinalityType
    <3> QED BY <1>6, <2>3, <3>1 DEF Counted
  <2>5. Holding' \subseteq Holding
    BY <2>1 DEF Holding
  <2>6. Held'
    BY <1>6, <2>1, <2>5 DEF Held
  <2>7. Made' /\ Begun'
    BY <1>1, <1>6, <2>1 DEF Made, Begun
  <2> QED BY <1>1, <1>5, <1>6, <2>1, <2>4, <2>6, <2>7, HubKept DEF FeedOK
<1>7. CASE /\ ~Busy(r) /\ Ensure(c)
           /\ room' = [room EXCEPT ![r].publisher = TRUE, ![r].session = f, ![r].ring = << >>]
           /\ feed' = [feed EXCEPT ![f].pc = "starting", ![f].room = r]
  <2>1. r \in RoomIds
    BY <1>3, RoomForOne
  <2> DEFINE x == [feed[f] EXCEPT !.pc = "starting", !.room = r]
  <2>2. feed' = [feed EXCEPT ![f] = x]
    BY <1>7, Zenon
  <2>3. x \in FeedRec /\ x.pc = "starting" /\ x.room = r /\ x.cast = "off" /\ x.stream = "none"
    BY <1>2, <2>1 DEF FeedRec, FeedPoints
  <2>4. /\ feed' \in [Feeds -> FeedRec] /\ feed'[f].pc = "starting" /\ feed'[f].room = r /\ feed'[f].cast = "off" /\ feed'[f].stream = "none"
        /\ \A g \in Feeds : g # f => feed'[g] = feed[g]
    BY <1>2, <2>2, <2>3
  <2>5. room \in [RoomIds -> RoomRec] /\ \A q \in RoomIds : Len(room[q].ring) <= RingSize
    BY DEF RoomOK
  <2>8. /\ room' \in [RoomIds -> RoomRec] /\ room'[r].publisher /\ room'[r].session = f /\ room'[r].ring = << >>
        /\ \A q \in RoomIds : room'[q].subs = room[q].subs /\ (q # r => room'[q] = room[q])
    BY <1>7, <2>1, <2>5, RoomTaken, Zenon
  <2>9. RoomOK'
    BY <2>5, <2>8, SizesAssumption DEF RoomOK
  <2>10. Arrived' = Arrived \cup {f}
    BY <1>1, <2>4, HandlersAssumption DEF Arrived
  <2>11. /\ RoomsOK' /\ Counted' /\ published <= published' /\ r <= published' /\ rooms'[c] = r
         /\ \A d \in HubChannels : rooms'[d] <= published' /\ (rooms[d] # NoRoom => rooms'[d] = rooms[d])
    BY <1>3, <1>7, <2>10, EnsureKeeps
  <2>12. Made'
    <3>1. published \in Int /\ published' \in Int
      BY <2>11 DEF Counted
    <3>2. \A v \in Viewers : viewer[v].room <= published /\ viewer[v].room \in Int
      BY DEF Made, ViewersOK, ViewerRec, RoomIds, NoRoom
    <3>3. \A g \in Feeds : feed[g].room <= published /\ feed[g].room \in Int
      BY DEF Made, FeedOK, FeedRec, RoomIds, NoRoom
    <3> QED BY <1>1, <2>4, <2>11, <3>1, <3>2, <3>3 DEF Made
  <2>13. Begun'
    BY <1>1, <2>4 DEF Begun
  <2>14. Held'
    <3> SUFFICES ASSUME NEW g \in Holding'
                 PROVE  /\ feed'[g].room # NoRoom /\ rooms'[ChannelOf[g]] = feed'[g].room
                        /\ room'[feed'[g].room].publisher /\ room'[feed'[g].room].session = g
      BY DEF Held
    <3>1. CASE g = f
      BY <2>1, <2>4, <2>8, <2>11, <3>1 DEF RoomIds, NoRoom
    <3>2. CASE g # f
      <4>1. g \in Holding /\ g \in Feeds /\ feed'[g] = feed[g]
        BY <2>4, <3>2 DEF Holding
      <4>2. /\ feed[g].room # NoRoom /\ rooms[ChannelOf[g]] = feed[g].room
            /\ room[feed[g].room].publisher /\ room[feed[g].room].session = g
        BY <4>1 DEF Held
      <4>3. feed[g].room \in RoomIds
        BY <1>2, <4>1, <4>2 DEF FeedRec
      <4>4. feed[g].room # r
        BY <1>7, <4>2 DEF Busy
      <4>5. ChannelOf[g] \in HubChannels
        BY <4>1, HandlersAssumption
      <4> QED BY <2>8, <2>11, <4>1, <4>2, <4>3, <4>4, <4>5
    <3> QED BY <3>1, <3>2
  <2>15. \A v \in Viewers : Attached(v)' <=> Attached(v)
    BY <1>1, <2>8 DEF Attached, ViewersOK, ViewerRec
  <2>16. Seats'
    <3> SUFFICES ASSUME NEW v \in Viewers, Attached(v)' PROVE rooms'[ChannelOf[v]] = viewer[v].room
      BY <1>1 DEF Seats
    <3>1. Attached(v) /\ rooms[ChannelOf[v]] = viewer[v].room /\ viewer[v].room # NoRoom
      BY <2>15 DEF Seats, Attached
    <3>2. ChannelOf[v] \in HubChannels
      BY HandlersAssumption
    <3> QED BY <2>11, <3>1, <3>2
  <2>17. OpenWhileAttached' /\ SubsOwn'
    BY <1>1, <2>8, <2>15 DEF OpenWhileAttached, SubsOwn
  <2> QED BY <1>1, <1>5, <2>4, <2>9, <2>11, <2>12, <2>13, <2>14, <2>16, <2>17, HubKept DEF FeedOK
<1> QED BY <1>6, <1>7 DEF Publish

\* The steps of a feed that leave every room alone.
LEMMA FeedGoesOn ==
  ASSUME HubInv, NEW f \in Feeds, NEW x \in FeedRec, feed' = [feed EXCEPT ![f] = x],
         x.room = feed[f].room, x.pc # "dial", feed[f].pc # "dial",
         x.pc = "starting" \/ x.cast = "run" => f \in Holding,
         x.cast # "off" => x.pc # "starting",
         x.stream # "none" <=> x.cast # "off",
         done' \subseteq Feeds,
         UNCHANGED <<rooms, published, room, viewer, gone, gcWait, collector>>
  PROVE  HubInv'
<1>1. FeedOK' /\ Counted' /\ Made' /\ Begun' /\ Held'
  BY FeedMoves
<1>2. SetsOK'
  BY DEF HubInv, SetsOK
<1> QED BY <1>1, <1>2, HubKept DEF HubInv

LEMMA PumpKeeps ==
  ASSUME HubInv, NEW f \in Feeds,
         StartChannelSession(f) \/ ReadFeedFrame(f) \/ FeedFrame(f) \/ FeedCloses(f) \/ AnalyzerReads(f) \/ AnalyzerEnds(f)
  PROVE  HubInv'
<1>1. feed \in [Feeds -> FeedRec] /\ feed[f] \in FeedRec /\ done \subseteq Feeds
  BY DEF HubInv, FeedOK, SetsOK
<1>2. (feed[f].cast # "off" => feed[f].pc \notin {"dial", "starting"}) /\ (feed[f].stream # "none" <=> feed[f].cast # "off")
  BY DEF HubInv, Begun
<1>3. CASE StartChannelSession(f)
  <2> DEFINE x == [feed[f] EXCEPT !.pc = "pump", !.stream = "open", !.cast = "run"]
  <2>1. feed' = [feed EXCEPT ![f] = x] /\ UNCHANGED <<rooms, published, room, done, viewer, gone, gcWait, collector>>
    BY <1>3, Zenon DEF StartChannelSession
  <2>2. feed[f].pc = "starting" /\ f \in Holding
    BY <1>3 DEF StartChannelSession, Holding
  <2>3. x \in FeedRec /\ x.room = feed[f].room /\ x.pc = "pump" /\ x.stream = "open" /\ x.cast = "run"
    BY <1>1 DEF FeedRec, FeedPoints
  <2> QED BY <1>1, <2>1, <2>2, <2>3, FeedGoesOn
<1>4. CASE ReadFeedFrame(f)
  <2> DEFINE x == [feed[f] EXCEPT !.pc = "blocked", !.frames = @ + 1]
  <2>1. feed' = [feed EXCEPT ![f] = x] /\ UNCHANGED <<rooms, published, room, done, viewer, gone, gcWait, collector>>
    BY <1>4, Zenon DEF ReadFeedFrame
  <2>2. feed[f].pc = "pump" /\ feed[f].frames < MaxFrames
    BY <1>4 DEF ReadFeedFrame
  <2>3. x \in FeedRec /\ x.room = feed[f].room /\ x.pc = "blocked" /\ x.cast = feed[f].cast /\ x.stream = feed[f].stream
    <3>1. feed[f].frames + 1 \in 0 .. MaxFrames
      BY <1>1, <2>2, SizesAssumption DEF FeedRec
    <3> QED BY <1>1, <3>1 DEF FeedRec, FeedPoints
  <2>4. x.cast = "run" => f \in Holding
    BY <2>3 DEF Holding
  <2> QED BY <1>1, <1>2, <2>1, <2>2, <2>3, <2>4, FeedGoesOn
<1>5. CASE FeedFrame(f)
  <2> DEFINE x == [feed[f] EXCEPT !.pc = "pump", !.audio = @ + 1]
             y == [feed[f] EXCEPT !.pc = "pump"]
  <2>1. /\ (feed' = [feed EXCEPT ![f] = x] /\ feed[f].audio < AudioBuffer) \/ feed' = [feed EXCEPT ![f] = y]
        /\ UNCHANGED <<rooms, published, room, done, viewer, gone, gcWait, collector>>
    BY <1>5, Zenon DEF FeedFrame
  <2>2. feed[f].pc = "blocked"
    BY <1>5 DEF FeedFrame
  <2>3. feed[f].audio < AudioBuffer => x \in FeedRec /\ x.room = feed[f].room /\ x.pc = "pump" /\ x.cast = feed[f].cast /\ x.stream = feed[f].stream
    <3> SUFFICES ASSUME feed[f].audio < AudioBuffer
                 PROVE  x \in FeedRec /\ x.room = feed[f].room /\ x.pc = "pump" /\ x.cast = feed[f].cast /\ x.stream = feed[f].stream
      OBVIOUS
    <3>1. feed[f].audio + 1 \in 0 .. AudioBuffer
      BY <1>1, SizesAssumption DEF FeedRec
    <3> QED BY <1>1, <3>1 DEF FeedRec, FeedPoints
  <2>4. y \in FeedRec /\ y.room = feed[f].room /\ y.pc = "pump" /\ y.cast = feed[f].cast /\ y.stream = feed[f].stream
    BY <1>1 DEF FeedRec, FeedPoints
  <2>5. feed[f].cast = "run" => f \in Holding
    BY DEF Holding
  <2>6. CASE feed' = [feed EXCEPT ![f] = x] /\ feed[f].audio < AudioBuffer
    BY <1>1, <1>2, <2>1, <2>2, <2>3, <2>5, <2>6, FeedGoesOn
  <2>7. CASE feed' = [feed EXCEPT ![f] = y]
    BY <1>1, <1>2, <2>1, <2>2, <2>4, <2>5, <2>7, FeedGoesOn
  <2> QED BY <2>1, <2>6, <2>7
<1>6. CASE FeedCloses(f)
  <2> DEFINE x == [feed[f] EXCEPT !.pc = "done"]
  <2>1. feed' = [feed EXCEPT ![f] = x] /\ done' = done \cup {f} /\ UNCHANGED <<rooms, published, room, viewer, gone, gcWait, collector>>
    BY <1>6, Zenon DEF FeedCloses
  <2>2. feed[f].pc = "pump"
    BY <1>6 DEF FeedCloses
  <2>3. x \in FeedRec /\ x.room = feed[f].room /\ x.pc = "done" /\ x.cast = feed[f].cast /\ x.stream = feed[f].stream
    BY <1>1 DEF FeedRec, FeedPoints
  <2>4. x.cast = "run" => f \in Holding
    BY <2>3 DEF Holding
  <2> QED BY <1>1, <1>2, <2>1, <2>2, <2>3, <2>4, FeedGoesOn
<1>7. CASE AnalyzerReads(f)
  <2> DEFINE x == [feed[f] EXCEPT !.audio = @ - 1]
  <2>1. feed' = [feed EXCEPT ![f] = x] /\ UNCHANGED <<rooms, published, room, done, viewer, gone, gcWait, collector>>
    BY <1>7, Zenon DEF AnalyzerReads
  <2>2. feed[f].stream = "open" /\ feed[f].audio > 0
    BY <1>7 DEF AnalyzerReads
  <2>3. x \in FeedRec /\ x.room = feed[f].room /\ x.pc = feed[f].pc /\ x.cast = feed[f].cast /\ x.stream = feed[f].stream
    BY <1>1, <2>2, SizesAssumption DEF FeedRec
  <2>4. x.pc = "starting" \/ x.cast = "run" => f \in Holding
    BY <2>3 DEF Holding
  <2>5. feed[f].pc # "dial"
    BY <2>2 DEF HubInv, Begun
  <2> QED BY <1>1, <1>2, <2>1, <2>2, <2>3, <2>4, <2>5, FeedGoesOn
<1>8. CASE AnalyzerEnds(f)
  <2> DEFINE x == [feed[f] EXCEPT !.stream = "closed"]
  <2>1. feed' = [feed EXCEPT ![f] = x] /\ UNCHANGED <<rooms, published, room, done, viewer, gone, gcWait, collector>>
    BY <1>8, Zenon DEF AnalyzerEnds
  <2>2. feed[f].stream = "open"
    BY <1>8 DEF AnalyzerEnds
  <2>3. x \in FeedRec /\ x.room = feed[f].room /\ x.pc = feed[f].pc /\ x.cast = feed[f].cast /\ x.stream = "closed"
    BY <1>1 DEF FeedRec
  <2>4. x.pc = "starting" \/ x.cast = "run" => f \in Holding
    BY <2>3 DEF Holding
  <2>5. feed[f].pc # "dial"
    BY <2>2 DEF HubInv, Begun
  <2> QED BY <1>1, <1>2, <2>1, <2>2, <2>3, <2>4, <2>5, FeedGoesOn
<1> QED BY <1>3, <1>4, <1>5, <1>6, <1>7, <1>8

LEMMA PingKeeps == ASSUME HubInv, NEW f \in Feeds, FeedPingLost(f) PROVE HubInv'
<1>1. gone' = gone \cup {f} /\ done' = done \cup {f} /\ UNCHANGED <<rooms, published, room, feed, viewer, gcWait, collector>>
  BY DEF FeedPingLost
<1>2. SetsOK'
  BY <1>1 DEF HubInv, SetsOK, Handlers
<1> QED BY <1>1, <1>2, HubKept DEF HubInv

\* A room that loses members or its session is as empty as before.
LEMMA RoomLoosens ==
  ASSUME HubInv, NEW r \in RoomIds, NEW y \in RoomRec, room' = [room EXCEPT ![r] = y], Len(y.ring) <= RingSize,
         y.subs \subseteq room[r].subs, y.publisher => room[r].publisher,
         UNCHANGED <<rooms, collector>>
  PROVE  /\ RoomOK' /\ StillEmpty' /\ room'[r] = y /\ \A q \in RoomIds : q # r => room'[q] = room[q]
<1> USE DEF HubInv
<1>1. room \in [RoomIds -> RoomRec] /\ \A q \in RoomIds : Len(room[q].ring) <= RingSize
  BY DEF RoomOK
<1>2. room' \in [RoomIds -> RoomRec] /\ room'[r] = y /\ \A q \in RoomIds : q # r => room'[q] = room[q]
  BY <1>1
<1>3. RoomOK'
  BY <1>1, <1>2 DEF RoomOK
<1>4. \A q \in RoomIds : Empty(q) => Empty(q)'
  BY <1>2 DEF Empty
<1>5. StillEmpty'
  <2> SUFFICES ASSUME ~HubFree, collector.empty
               PROVE  /\ rooms[ChannelOf[collector.who]] # NoRoom
                      /\ ~room'[rooms[ChannelOf[collector.who]]].publisher /\ room'[rooms[ChannelOf[collector.who]]].subs = {}
    BY DEF StillEmpty, HubFree, Empty
  <2>1. rooms[ChannelOf[collector.who]] # NoRoom /\ Empty(rooms[ChannelOf[collector.who]])
    BY DEF StillEmpty
  <2>2. ChannelOf[collector.who] \in HubChannels
    BY HandlersAssumption DEF CollectorOK, Handlers
  <2>3. rooms[ChannelOf[collector.who]] \in RoomIds
    BY <2>1, <2>2 DEF RoomsOK
  <2> QED BY <1>4, <2>1, <2>3 DEF Empty
<1> QED BY <1>2, <1>3, <1>5

LEMMA HoldersApart ==
  ASSUME HubInv, NEW f \in Holding, NEW g \in Holding, feed[f].room = feed[g].room
  PROVE  f = g
BY DEF HubInv, Held

LEMMA HolderRoom == ASSUME HubInv, NEW f \in Holding PROVE f \in Feeds /\ feed[f].room \in RoomIds
<1>1. f \in Feeds /\ feed[f].room # NoRoom
  BY DEF HubInv, Held, Holding
<1>2. feed[f] \in FeedRec
  BY <1>1 DEF HubInv, FeedOK
<1> QED BY <1>1, <1>2 DEF FeedRec

LEMMA StartFailsKeeps == ASSUME HubInv, NEW f \in Feeds, SessionStartFails(f) PROVE HubInv'
<1> USE DEF HubInv
<1>1. /\ feed[f].pc = "starting" /\ done' = done \cup {f} /\ gcWait' = gcWait \cup {f}
      /\ UNCHANGED <<rooms, published, viewer, gone, collector>>
  BY DEF SessionStartFails
<1>2. f \in Holding /\ feed[f].cast = "off" /\ feed[f].stream = "none" /\ feed[f] \in FeedRec
  BY <1>1 DEF Holding, Begun, FeedOK
<1>3. PICK r \in RoomIds : r = feed[f].room
  BY <1>2, HolderRoom
<1>4. PICK b \in BOOLEAN : b = FALSE
  OBVIOUS
<1>5. PICK t \in RoomRec : t = room[r]
  BY DEF RoomOK
<1>6. PICK y : y = [t EXCEPT !.publisher = b, !.session = NoFeed]
  OBVIOUS
<1>7. y \in RoomRec
  BY <1>4, <1>5, <1>6 DEF RoomRec
<1>8. y.publisher = b /\ y.session = NoFeed /\ y.ring = t.ring /\ y.subs = t.subs
  BY <1>4, <1>5, <1>6 DEF RoomRec
<1>9. room' = [room EXCEPT ![r] = [room[r] EXCEPT !.publisher = FALSE, !.session = NoFeed]]
  BY <1>3, Zenon DEF SessionStartFails
<1>10. room' = [room EXCEPT ![r] = y]
  BY <1>4, <1>5, <1>6, <1>9, Zenon
<1>11. Len(y.ring) <= RingSize /\ y.subs = room[r].subs /\ ~y.publisher
  BY <1>4, <1>5, <1>8 DEF RoomOK
<1>12. RoomOK' /\ StillEmpty' /\ room'[r] = y /\ \A q \in RoomIds : q # r => room'[q] = room[q]
  BY <1>1, <1>7, <1>10, <1>11, RoomLoosens
<1> DEFINE x == [feed[f] EXCEPT !.pc = "done"]
<1>13. feed' = [feed EXCEPT ![f] = x]
  BY Zenon DEF SessionStartFails
<1>14. x \in FeedRec /\ x.room = feed[f].room /\ x.pc = "done" /\ x.cast = "off" /\ x.stream = "none"
  BY <1>2 DEF FeedRec, FeedPoints
<1>15. /\ FeedOK' /\ Counted' /\ Made' /\ Begun' /\ Holding' \subseteq Holding
       /\ feed'[f] = x /\ \A g \in Feeds : feed'[g].room = feed[g].room /\ (g # f => feed'[g] = feed[g])
  BY <1>1, <1>13, <1>14, FeedMoves
<1>16. Held'
  <2> SUFFICES ASSUME NEW g \in Holding'
               PROVE  /\ feed'[g].room # NoRoom /\ rooms[ChannelOf[g]] = feed'[g].room
                      /\ room'[feed'[g].room].publisher /\ room'[feed'[g].room].session = g
    BY <1>1 DEF Held
  <2>1. g \in Holding /\ g \in Feeds /\ g # f
    BY <1>14, <1>15 DEF Holding
  <2>2. feed[g].room # r /\ feed[g].room \in RoomIds
    BY <1>2, <1>3, <2>1, HoldersApart, HolderRoom
  <2> QED BY <1>12, <1>15, <2>1, <2>2 DEF Held
<1>17. \A q \in RoomIds : room'[q].subs = room[q].subs
  BY <1>11, <1>12
<1>18. \A v \in Viewers : Attached(v)' <=> Attached(v)
  BY <1>1, <1>17 DEF Attached, ViewersOK, ViewerRec
<1>19. SubsOwn' /\ Seats' /\ OpenWhileAttached'
  BY <1>1, <1>17, <1>18 DEF SubsOwn, Seats, OpenWhileAttached
<1>20. SetsOK'
  BY <1>1 DEF SetsOK, Handlers
<1> QED BY <1>1, <1>12, <1>15, <1>16, <1>19, <1>20, HubKept

LEMMA PushKeeps ==
  ASSUME NEW ring \in Seq(HubEvents), Len(ring) <= RingSize, NEW ev \in HubEvents
  PROVE  Push(ring, ev) \in Seq(HubEvents) /\ Len(Push(ring, ev)) <= RingSize
<1>1. Append(ring, ev) \in Seq(HubEvents) /\ Len(Append(ring, ev)) = Len(ring) + 1 /\ Append(ring, ev) # << >>
  OBVIOUS
<1>2. Tail(Append(ring, ev)) \in Seq(HubEvents) /\ Len(Tail(Append(ring, ev))) = Len(ring)
  BY <1>1
<1> QED BY <1>1, <1>2, SizesAssumption DEF Push

\* What a session sends touches its own viewers only, and lets go of those whose
\* channel it closes.
Sends(r, y) ==
  /\ room' = [room EXCEPT ![r] = y] /\ UNCHANGED <<rooms, published, collector>>
  /\ Len(y.ring) <= RingSize /\ y.subs \subseteq room[r].subs /\ (y.publisher => room[r].publisher)
  /\ viewer' \in [Viewers -> ViewerRec]
  /\ \A v \in Viewers :
       /\ v \notin room[r].subs => viewer'[v] = viewer[v]
       /\ v \in room[r].subs => /\ viewer'[v].room = viewer[v].room /\ viewer'[v].pc = viewer[v].pc
                                /\ v \in y.subs => viewer'[v].chan = viewer[v].chan
                                /\ v \notin y.subs => viewer'[v].chan # "open"
                                /\ viewer'[v].backlog = viewer[v].backlog /\ Len(viewer'[v].queue) <= ViewerBuffer

LEMMA SendKeeps ==
  ASSUME HubInv, NEW r \in RoomIds, NEW y \in RoomRec, Sends(r, y)
  PROVE  /\ RoomOK' /\ StillEmpty' /\ ViewersOK' /\ SubsOwn' /\ Seats' /\ OpenWhileAttached'
         /\ room'[r] = y /\ \A q \in RoomIds : q # r => room'[q] = room[q]
         /\ \A v \in Viewers : viewer'[v].room = viewer[v].room /\ viewer'[v].pc = viewer[v].pc
<1> USE DEF Sends
<1> USE DEF HubInv
<1>1. RoomOK' /\ StillEmpty' /\ room'[r] = y /\ \A q \in RoomIds : q # r => room'[q] = room[q]
  BY RoomLoosens
<1>2. \A v \in Viewers : viewer'[v].room = viewer[v].room /\ viewer'[v].pc = viewer[v].pc
  OBVIOUS
<1>3. ViewersOK'
  BY DEF ViewersOK
<1>4. \A q \in RoomIds : room'[q].subs \subseteq room[q].subs /\ room[q].subs \subseteq Viewers
  BY <1>1 DEF RoomOK, RoomRec
<1>5. SubsOwn'
  BY <1>2, <1>4 DEF SubsOwn
<1>6. \A v \in Viewers : viewer[v].room \in RoomIds \cup {NoRoom}
  BY DEF ViewersOK, ViewerRec
<1>7. \A v \in Viewers : Attached(v)' => Attached(v)
  BY <1>2, <1>4, <1>6 DEF Attached
<1>8. Seats'
  BY <1>2, <1>7 DEF Seats
<1>9. OpenWhileAttached'
  <2> SUFFICES ASSUME NEW v \in Viewers, viewer[v].room # NoRoom
               PROVE  v \in room'[viewer[v].room].subs <=> viewer'[v].chan = "open"
    BY <1>2 DEF OpenWhileAttached, Attached
  <2>1. v \in room[viewer[v].room].subs <=> viewer[v].chan = "open"
    BY DEF OpenWhileAttached, Attached
  <2>2. v \in room[r].subs => viewer[v].room = r
    BY DEF SubsOwn
  <2>3. CASE v \in room[r].subs
    BY <1>1, <2>1, <2>2, <2>3
  <2>4. CASE v \notin room[r].subs
    <3>1. viewer'[v] = viewer[v]
      BY <2>4
    <3>2. v \in room'[viewer[v].room].subs <=> v \in room[viewer[v].room].subs
      BY <1>1, <1>4, <1>6, <2>4
    <3> QED BY <2>1, <3>1, <3>2
  <2> QED BY <2>3, <2>4
<1> QED BY <1>1, <1>2, <1>3, <1>5, <1>8, <1>9

LEMMA BroadcastKeeps == ASSUME HubInv, NEW f \in Feeds, BroadcastEvent(f) PROVE HubInv'
<1> USE DEF HubInv
<1>1. /\ feed[f].cast = "run" /\ feed[f].stream = "open" /\ feed[f].sent < MaxEvents
      /\ UNCHANGED <<rooms, published, done, gone, gcWait, collector>>
  BY DEF BroadcastEvent
<1>2. f \in Holding /\ feed[f] \in FeedRec /\ feed[f].pc \notin {"dial", "starting"}
  BY <1>1 DEF Holding, Begun, FeedOK
<1>3. PICK r \in RoomIds : r = feed[f].room
  BY <1>2, HolderRoom
<1>4. feed[f].sent + 1 \in 1 .. MaxEvents /\ feed[f].sent + 1 \in 0 .. MaxEvents
  BY <1>1, <1>2, SizesAssumption DEF FeedRec
<1>5. PICK ev \in HubEvents : ev = [feed |-> f, n |-> feed[f].sent + 1]
  BY <1>4 DEF HubEvents
<1>6. PICK t \in RoomRec : t = room[r] /\ Len(t.ring) <= RingSize
  BY DEF RoomOK
<1>7. PICK ring \in Seq(HubEvents) : ring = Push(t.ring, ev) /\ Len(ring) <= RingSize
  <2>1. t.ring \in Seq(HubEvents)
    BY <1>6 DEF RoomRec
  <2> QED BY <1>5, <1>6, <2>1, PushKeeps
<1>8. PICK y : y = [t EXCEPT !.ring = ring, !.subs = FastSubs(r)]
  OBVIOUS
<1>9. FastSubs(r) \subseteq t.subs /\ t.subs \subseteq Viewers
  BY <1>6 DEF FastSubs, RoomRec
<1>10. y \in RoomRec /\ y.ring = ring /\ y.subs = FastSubs(r) /\ y.publisher = t.publisher /\ y.session = t.session
  <2>1. PICK subs \in SUBSET Viewers : subs = FastSubs(r)
    BY <1>9
  <2>2. y = [t EXCEPT !.ring = ring, !.subs = subs]
    BY <1>8, <2>1, Zenon
  <2>3. y \in RoomRec
    BY <1>6, <1>7, <2>1, <2>2 DEF RoomRec
  <2>4. y.ring = ring /\ y.subs = subs /\ y.publisher = t.publisher /\ y.session = t.session
    BY <1>6, <1>7, <2>1, <2>2 DEF RoomRec
  <2> QED BY <2>1, <2>3, <2>4
<1>11. room' = [room EXCEPT ![r] = y]
  <2>1. room' = [room EXCEPT ![r] = [room[r] EXCEPT !.ring = Push(room[r].ring, ev), !.subs = FastSubs(r)]]
    BY <1>3, <1>5, Zenon DEF BroadcastEvent
  <2> QED BY <1>6, <1>7, <1>8, <2>1, Zenon
<1>12. viewer' = [v \in Viewers |->
             IF v \notin room[r].subs THEN viewer[v]
             ELSE IF Slow(v) THEN [viewer[v] EXCEPT !.chan = "slow"]
             ELSE [viewer[v] EXCEPT !.queue = Append(@, ev)]]
  BY <1>3, <1>5, Zenon DEF BroadcastEvent
<1>13. \A v \in Viewers :
         /\ viewer'[v] \in ViewerRec
         /\ v \notin room[r].subs => viewer'[v] = viewer[v]
         /\ v \in room[r].subs => /\ viewer'[v].room = viewer[v].room /\ viewer'[v].pc = viewer[v].pc
                                  /\ v \in y.subs => viewer'[v].chan = viewer[v].chan
                                  /\ v \notin y.subs => viewer'[v].chan # "open"
                                  /\ viewer'[v].backlog = viewer[v].backlog /\ Len(viewer'[v].queue) <= ViewerBuffer
  <2> TAKE v \in Viewers
  <2>1. viewer[v] \in ViewerRec /\ Len(viewer[v].queue) <= ViewerBuffer
    BY DEF ViewersOK
  <2>2. CASE v \notin room[r].subs
    BY <1>12, <2>1, <2>2
  <2>3. CASE v \in room[r].subs /\ Slow(v)
    <3>1. viewer'[v] = [viewer[v] EXCEPT !.chan = "slow"] /\ v \notin y.subs
      BY <1>10, <1>12, <2>3, Zenon DEF FastSubs
    <3> QED BY <2>1, <2>3, <3>1 DEF ViewerRec
  <2>4. CASE v \in room[r].subs /\ ~Slow(v)
    <3>1. viewer'[v] = [viewer[v] EXCEPT !.queue = Append(viewer[v].queue, ev)] /\ v \in y.subs
      BY <1>10, <1>12, <2>4, Zenon DEF FastSubs
    <3>2. viewer[v].queue \in Seq(Messages) /\ Len(viewer[v].queue) < ViewerBuffer /\ ev \in Messages
      BY <1>5, <2>1, <2>4, SizesAssumption DEF ViewerRec, Slow, Messages
    <3>3. PICK q \in Seq(Messages) : q = Append(viewer[v].queue, ev) /\ Len(q) <= ViewerBuffer
      <4>1. Append(viewer[v].queue, ev) \in Seq(Messages) /\ Len(Append(viewer[v].queue, ev)) <= ViewerBuffer
        BY <3>2, SizesAssumption
      <4> QED BY <4>1
    <3>4. viewer'[v] = [viewer[v] EXCEPT !.queue = q]
      BY <3>1, <3>3
    <3> QED BY <2>1, <2>4, <3>1, <3>3, <3>4 DEF ViewerRec
  <2> QED BY <2>2, <2>3, <2>4
<1>14. viewer' \in [Viewers -> ViewerRec]
  BY <1>12, <1>13
<1>15. /\ RoomOK' /\ StillEmpty' /\ ViewersOK' /\ SubsOwn' /\ Seats' /\ OpenWhileAttached'
       /\ room'[r] = y /\ \A q \in RoomIds : q # r => room'[q] = room[q]
       /\ \A v \in Viewers : viewer'[v].room = viewer[v].room /\ viewer'[v].pc = viewer[v].pc
  <2>1. Len(y.ring) <= RingSize /\ y.subs \subseteq room[r].subs /\ (y.publisher => room[r].publisher)
    BY <1>6, <1>7, <1>9, <1>10
  <2>2. Sends(r, y)
    BY <1>1, <1>11, <1>13, <1>14, <2>1 DEF Sends
  <2> QED BY <1>10, <2>2, SendKeeps
<1> DEFINE x == [feed[f] EXCEPT !.sent = feed[f].sent + 1]
<1>16. feed' = [feed EXCEPT ![f] = x]
  BY Zenon DEF BroadcastEvent
<1>17. x \in FeedRec /\ x.room = feed[f].room /\ x.pc = feed[f].pc /\ x.cast = feed[f].cast /\ x.stream = feed[f].stream
  BY <1>2, <1>4 DEF FeedRec
<1>18. /\ feed' \in [Feeds -> FeedRec]
       /\ \A g \in Feeds : /\ feed'[g].room = feed[g].room /\ feed'[g].pc = feed[g].pc
                           /\ feed'[g].cast = feed[g].cast /\ feed'[g].stream = feed[g].stream
  BY <1>16, <1>17 DEF FeedOK
<1>19. Arrived' = Arrived /\ Holding' = Holding
  BY <1>15, <1>18 DEF Arrived, Holding
<1>20. Counted' /\ Made' /\ Begun'
  BY <1>1, <1>15, <1>18, <1>19 DEF Counted, Made, Begun
<1>21. Held'
  <2>1. \A q \in RoomIds : room'[q].publisher = room[q].publisher /\ room'[q].session = room[q].session
    BY <1>6, <1>10, <1>15
  <2>2. \A g \in Holding : g \in Feeds /\ feed[g].room \in RoomIds
    BY HolderRoom
  <2> QED BY <1>1, <1>18, <1>19, <2>1, <2>2 DEF Held
<1> QED BY <1>1, <1>15, <1>18, <1>20, <1>21, HubKept DEF FeedOK

LEMMA EndKeeps == ASSUME HubInv, NEW f \in Feeds, EndSession(f) PROVE HubInv'
<1> USE DEF HubInv
<1>1. feed[f].cast = "run" /\ gcWait' = gcWait \cup {f} /\ UNCHANGED <<rooms, published, gone, collector>>
  BY Zenon DEF EndSession
<1>2. f \in Holding /\ feed[f] \in FeedRec /\ feed[f].pc \notin {"dial", "starting"} /\ feed[f].stream # "none"
  BY <1>1 DEF Holding, Begun, FeedOK
<1>3. PICK r \in RoomIds : r = feed[f].room
  BY <1>2, HolderRoom
<1>4. EmptyRoom \in RoomRec /\ ~EmptyRoom.publisher /\ EmptyRoom.subs = {} /\ Len(EmptyRoom.ring) <= RingSize
  BY SizesAssumption DEF EmptyRoom, RoomRec
<1>5. room' = [room EXCEPT ![r] = EmptyRoom]
  BY <1>3, Zenon DEF EndSession
<1>6. viewer' = [v \in Viewers |->
             IF v \in room[r].subs
             THEN [viewer[v] EXCEPT !.queue = WithOffAir(v), !.chan = "session"]
             ELSE viewer[v]]
  BY <1>3, Zenon DEF EndSession
<1>7. \A v \in Viewers :
         /\ viewer'[v] \in ViewerRec
         /\ v \notin room[r].subs => viewer'[v] = viewer[v]
         /\ v \in room[r].subs => /\ viewer'[v].room = viewer[v].room /\ viewer'[v].pc = viewer[v].pc
                                  /\ viewer'[v].chan # "open"
                                  /\ viewer'[v].backlog = viewer[v].backlog /\ Len(viewer'[v].queue) <= ViewerBuffer
  <2> TAKE v \in Viewers
  <2>1. viewer[v] \in ViewerRec /\ Len(viewer[v].queue) <= ViewerBuffer
    BY DEF ViewersOK
  <2>2. CASE v \notin room[r].subs
    BY <1>6, <2>1, <2>2
  <2>3. CASE v \in room[r].subs
    <3>1. viewer'[v] = [viewer[v] EXCEPT !.queue = WithOffAir(v), !.chan = "session"]
      BY <1>6, <2>3, Zenon
    <3>2. viewer[v].queue \in Seq(Messages) /\ OffAirMessage \in Messages
      BY <2>1 DEF ViewerRec, Messages
    <3>3. WithOffAir(v) \in Seq(Messages) /\ Len(WithOffAir(v)) <= ViewerBuffer
      BY <2>1, <3>2, SizesAssumption DEF WithOffAir, Slow
    <3>4. PICK q \in Seq(Messages) : q = WithOffAir(v) /\ Len(q) <= ViewerBuffer
      BY <3>3
    <3>5. viewer'[v] = [viewer[v] EXCEPT !.queue = q, !.chan = "session"]
      BY <3>1, <3>4, Zenon
    <3> QED BY <2>1, <2>3, <3>4, <3>5 DEF ViewerRec
  <2> QED BY <2>2, <2>3
<1>8. viewer' \in [Viewers -> ViewerRec]
  BY <1>6, <1>7, Zenon
<1>9. /\ RoomOK' /\ StillEmpty' /\ ViewersOK' /\ SubsOwn' /\ Seats' /\ OpenWhileAttached'
      /\ room'[r] = EmptyRoom /\ \A q \in RoomIds : q # r => room'[q] = room[q]
      /\ \A v \in Viewers : viewer'[v].room = viewer[v].room /\ viewer'[v].pc = viewer[v].pc
  <2>1. EmptyRoom.subs \subseteq room[r].subs /\ (EmptyRoom.publisher => room[r].publisher)
    BY <1>4
  <2>2. \A v \in Viewers :
          /\ v \notin room[r].subs => viewer'[v] = viewer[v]
          /\ v \in room[r].subs => /\ viewer'[v].room = viewer[v].room /\ viewer'[v].pc = viewer[v].pc
                                   /\ v \in EmptyRoom.subs => viewer'[v].chan = viewer[v].chan
                                   /\ v \notin EmptyRoom.subs => viewer'[v].chan # "open"
                                   /\ viewer'[v].backlog = viewer[v].backlog /\ Len(viewer'[v].queue) <= ViewerBuffer
    BY <1>4, <1>7
  <2>3. Sends(r, EmptyRoom)
    BY <1>1, <1>4, <1>5, <1>8, <2>1, <2>2, Zenon DEF Sends
  <2> QED BY <1>4, <2>3, SendKeeps
<1> DEFINE x == [feed[f] EXCEPT !.cast = "ended"]
<1>10. feed' = [feed EXCEPT ![f] = x]
  BY Zenon DEF EndSession
<1>11. x \in FeedRec /\ x.room = feed[f].room /\ x.pc = feed[f].pc /\ x.cast = "ended" /\ x.stream = feed[f].stream
  BY <1>2 DEF FeedRec
<1>12. /\ feed' \in [Feeds -> FeedRec] /\ feed'[f].cast = "ended"
       /\ \A g \in Feeds : /\ feed'[g].room = feed[g].room /\ feed'[g].pc = feed[g].pc /\ feed'[g].stream = feed[g].stream
                           /\ (g # f => feed'[g].cast = feed[g].cast)
  BY <1>10, <1>11 DEF FeedOK
<1>13. Arrived' = Arrived /\ Holding' = Holding \ {f}
  BY <1>2, <1>9, <1>12 DEF Arrived, Holding
<1>14. Counted' /\ Made' /\ Begun'
  BY <1>1, <1>2, <1>9, <1>12, <1>13 DEF Counted, Made, Begun
<1>15. Held'
  <2> SUFFICES ASSUME NEW g \in Holding, g # f
               PROVE  /\ feed'[g].room # NoRoom /\ rooms[ChannelOf[g]] = feed'[g].room
                      /\ room'[feed'[g].room].publisher /\ room'[feed'[g].room].session = g
    BY <1>1, <1>13 DEF Held
  <2>1. feed[g].room # r /\ feed[g].room \in RoomIds /\ g \in Feeds
    BY <1>2, <1>3, HoldersApart, HolderRoom
  <2> QED BY <1>9, <1>12, <2>1 DEF Held
<1>16. SetsOK'
  <2>1. room[r].session \in Feeds \cup {NoFeed}
    BY DEF RoomOK, RoomRec
  <2>2. done' = done \cup ({room[r].session} \ {NoFeed})
    BY <1>3, Zenon DEF EndSession
  <2> QED BY <1>1, <2>1, <2>2 DEF SetsOK, Handlers
<1> QED BY <1>1, <1>9, <1>12, <1>14, <1>15, <1>16, HubKept DEF FeedOK

-----------------------------------------------------------------------------
(* Viewers.                                                                *)

LEMMA SubscribeKeeps == ASSUME HubInv, NEW v \in Viewers, Subscribe(v) PROVE HubInv'
<1> USE DEF HubInv
<1> DEFINE c == ChannelOf[v]
           r == RoomFor(c)
<1>1. viewer[v].pc = "dial" /\ HubFree /\ Ensure(c) /\ UNCHANGED <<feed, done, gone, gcWait, collector>>
  BY DEF Subscribe, Attach
<1>2. v \in Handlers /\ v \notin Arrived /\ c \in HubChannels
  BY <1>1, HandlersAssumption DEF Handlers, Arrived
<1>3. r \in RoomIds /\ r # NoRoom
  <2>1. r \in RoomIds
    BY <1>2, RoomForOne
  <2> QED BY <2>1 DEF RoomIds, NoRoom
<1>4. StillEmpty'
  BY <1>1 DEF StillEmpty, HubFree
<1>5. PICK t \in RoomRec : t = room[r] /\ Len(t.ring) <= RingSize
  BY <1>3 DEF RoomOK
<1>6. PICK subs \in SUBSET Viewers : subs = t.subs \cup {v}
  BY <1>5 DEF RoomRec
<1>7. PICK y : y = [t EXCEPT !.subs = subs]
  OBVIOUS
<1>8. y \in RoomRec
  BY <1>5, <1>6, <1>7 DEF RoomRec
<1>9. y.subs = room[r].subs \cup {v} /\ y.ring = t.ring /\ y.publisher = room[r].publisher /\ y.session = room[r].session
  BY <1>5, <1>6, <1>7 DEF RoomRec
<1>10. room' = [room EXCEPT ![r] = y]
  <2>1. room' = [room EXCEPT ![r] = [room[r] EXCEPT !.subs = room[r].subs \cup {v}]]
    BY Zenon DEF Subscribe, Attach
  <2> QED BY <1>5, <1>6, <1>7, <2>1, Zenon
<1>11. /\ room' \in [RoomIds -> RoomRec] /\ room'[r] = y
       /\ \A q \in RoomIds : /\ q # r => room'[q] = room[q]
                             /\ room'[q].publisher = room[q].publisher /\ room'[q].session = room[q].session
  BY <1>3, <1>8, <1>9, <1>10 DEF RoomOK
<1>12. RoomOK'
  BY <1>5, <1>9, <1>11 DEF RoomOK
<1>13. PICK joined \in Joined : joined = JoinPoint(r)
  <2>1. room[r].session \in Feeds \cup {NoFeed}
    BY <1>5 DEF RoomRec
  <2>2. room[r].session \in Feeds => feed[room[r].session].sent \in 0 .. MaxEvents
    BY DEF FeedOK, FeedRec
  <2>3. OffAirMessage \in Joined
    BY SizesAssumption DEF OffAirMessage, Joined
  <2>4. room[r].session # NoFeed => [feed |-> room[r].session, n |-> feed[room[r].session].sent] \in Joined
    BY <2>1, <2>2 DEF Joined
  <2>5. JoinPoint(r) \in Joined
    BY <2>3, <2>4 DEF JoinPoint
  <2> QED BY <2>5
<1>14. PICK x : x = [NewViewer EXCEPT !.pc = "backlog", !.room = r, !.backlog = t.ring, !.joined = joined]
  OBVIOUS
<1>15. x \in ViewerRec /\ x.pc = "backlog" /\ x.room = r /\ x.chan = "open" /\ x.backlog = t.ring /\ x.queue = << >>
  <2>1. t.ring \in Seq(HubEvents) /\ r \in RoomIds \cup {NoRoom}
    BY <1>3, <1>5 DEF RoomRec
  <2>2. PICK n \in ViewerRec : n = NewViewer /\ n.chan = "open" /\ n.queue = << >>
    <3>1. OffAirMessage \in Joined
      BY SizesAssumption DEF OffAirMessage, Joined
    <3>2. NewViewer \in ViewerRec /\ NewViewer.chan = "open" /\ NewViewer.queue = << >>
      BY <3>1 DEF NewViewer, ViewerRec, ViewerPoints
    <3> QED BY <3>2
  <2>3. x = [n EXCEPT !.pc = "backlog", !.room = r, !.backlog = t.ring, !.joined = joined]
    BY <1>14, <2>2
  <2>4. x \in ViewerRec
    BY <1>13, <2>1, <2>2, <2>3 DEF ViewerRec, ViewerPoints
  <2>5. x.pc = "backlog" /\ x.room = r /\ x.chan = n.chan /\ x.backlog = t.ring /\ x.queue = n.queue
    BY <1>13, <2>1, <2>2, <2>3 DEF ViewerRec
  <2> QED BY <2>2, <2>4, <2>5
<1>16. viewer' = [viewer EXCEPT ![v] = x]
  BY <1>5, <1>13, <1>14, Zenon DEF Subscribe, Attach
<1>17. viewer' \in [Viewers -> ViewerRec] /\ viewer'[v] = x /\ \A w \in Viewers : w # v => viewer'[w] = viewer[w]
  BY <1>15, <1>16 DEF ViewersOK
<1>18. ViewersOK'
  BY <1>5, <1>15, <1>17, SizesAssumption DEF ViewersOK
<1>19. Arrived' = Arrived \cup {v}
  BY <1>1, <1>15, <1>17, HandlersAssumption DEF Arrived
<1>20. /\ RoomsOK' /\ Counted' /\ published <= published' /\ r <= published' /\ rooms'[c] = r
       /\ \A d \in HubChannels : rooms'[d] <= published' /\ (rooms[d] # NoRoom => rooms'[d] = rooms[d])
  BY <1>1, <1>2, <1>19, EnsureKeeps
<1>21. Made'
  <2>1. published \in Int /\ published' \in Int
    BY <1>20 DEF Counted
  <2>2. \A w \in Viewers : viewer[w].room <= published /\ viewer[w].room \in Int
    BY DEF Made, ViewersOK, ViewerRec, RoomIds, NoRoom
  <2>3. \A g \in Feeds : feed[g].room <= published /\ feed[g].room \in Int
    BY DEF Made, FeedOK, FeedRec, RoomIds, NoRoom
  <2>4. \A w \in Viewers : viewer'[w].room <= published'
    BY <1>15, <1>17, <1>20, <2>1, <2>2
  <2>5. \A g \in Feeds : feed'[g].room <= published'
    BY <1>1, <1>20, <2>1, <2>3
  <2> QED BY <1>20, <2>4, <2>5 DEF Made
<1>22. Begun'
  BY <1>1, <1>3, <1>15, <1>17 DEF Begun
<1>23. Held'
  <2> SUFFICES ASSUME NEW g \in Holding
               PROVE  /\ feed[g].room # NoRoom /\ rooms'[ChannelOf[g]] = feed[g].room
                      /\ room'[feed[g].room].publisher /\ room'[feed[g].room].session = g
    BY <1>1 DEF Held, Holding
  <2>1. g \in Feeds /\ feed[g].room \in RoomIds /\ feed[g].room # NoRoom
    BY HolderRoom DEF Held
  <2>2. ChannelOf[g] \in HubChannels
    BY <2>1, HandlersAssumption
  <2> QED BY <1>11, <1>20, <2>1, <2>2 DEF Held
<1>24. \A q \in RoomIds : v \notin room[q].subs
  BY <1>1 DEF SubsOwn, Begun, NoRoom, RoomIds
<1>25. SubsOwn'
  <2> SUFFICES ASSUME NEW q \in RoomIds, NEW w \in room'[q].subs PROVE viewer'[w].room = q
    BY DEF SubsOwn
  <2>1. w \in Viewers
    BY <1>11 DEF RoomRec
  <2>2. CASE w = v
    BY <1>11, <1>15, <1>17, <1>24, <2>2
  <2>3. CASE w # v
    <3>1. w \in room[q].subs
      BY <1>9, <1>11, <2>3
    <3> QED BY <1>17, <2>1, <2>3, <3>1 DEF SubsOwn
  <2> QED BY <2>2, <2>3
<1>26. Attached(v)'
  BY <1>3, <1>9, <1>11, <1>15, <1>17 DEF Attached
<1>27. \A w \in Viewers : w # v => (Attached(w)' <=> Attached(w))
  <2> SUFFICES ASSUME NEW w \in Viewers, w # v PROVE Attached(w)' <=> Attached(w)
    OBVIOUS
  <2>1. viewer'[w] = viewer[w] /\ viewer[w].room \in RoomIds \cup {NoRoom}
    BY <1>17 DEF ViewersOK, ViewerRec
  <2> QED BY <1>9, <1>11, <2>1 DEF Attached
<1>28. Seats'
  <2> SUFFICES ASSUME NEW w \in Viewers, Attached(w)' PROVE rooms'[ChannelOf[w]] = viewer'[w].room
    BY DEF Seats
  <2>1. CASE w = v
    BY <1>15, <1>17, <1>20, <2>1
  <2>2. CASE w # v
    <3>1. rooms[ChannelOf[w]] = viewer[w].room /\ viewer[w].room # NoRoom /\ viewer'[w] = viewer[w]
      BY <1>17, <1>27, <2>2 DEF Seats, Attached
    <3>2. ChannelOf[w] \in HubChannels
      BY HandlersAssumption
    <3> QED BY <1>20, <3>1, <3>2
  <2> QED BY <2>1, <2>2
<1>29. OpenWhileAttached'
  BY <1>15, <1>17, <1>26, <1>27 DEF OpenWhileAttached
<1> QED BY <1>1, <1>4, <1>12, <1>18, <1>20, <1>21, <1>22, <1>23, <1>25, <1>28, <1>29, HubKept

\* A viewer writes on: the steps that leave every room alone.
LEMMA ViewerGoesOn ==
  ASSUME HubInv, NEW v \in Viewers, SendBacklog(v) \/ SendMessage(v) \/ ChannelStreamEnds(v)
  PROVE  HubInv'
<1>1. viewer[v] \in ViewerRec /\ Len(viewer[v].backlog) <= RingSize /\ Len(viewer[v].queue) <= ViewerBuffer
  BY DEF HubInv, ViewersOK
<1>2. /\ viewer[v].backlog \in Seq(HubEvents) /\ viewer[v].queue \in Seq(Messages) /\ viewer[v].taken \in Seq(Messages)
      /\ viewer[v].pc \in ViewerPoints
  BY <1>1 DEF ViewerRec
<1>3. UNCHANGED <<rooms, published, room, feed, done, gone, gcWait, collector>> /\ viewer[v].pc # "dial"
  BY DEF SendBacklog, SendMessage, ChannelStreamEnds
<1>4. ASSUME NEW x \in ViewerRec, viewer' = [viewer EXCEPT ![v] = x], Len(x.backlog) <= RingSize,
             Len(x.queue) <= ViewerBuffer, x.room = viewer[v].room, x.chan = viewer[v].chan, x.pc # "dial"
      PROVE  HubInv'
  <2>1. ViewersOK' /\ Counted' /\ Made' /\ Begun' /\ SubsOwn' /\ Seats' /\ OpenWhileAttached'
    BY <1>3, <1>4, ViewerMoves
  <2> QED BY <1>3, <2>1, HubKept DEF HubInv
<1>5. ASSUME NEW p \in ViewerPoints \ {"dial"}, viewer' = [viewer EXCEPT ![v].pc = p] PROVE HubInv'
  <2> DEFINE x == [viewer[v] EXCEPT !.pc = p]
  <2>1. viewer' = [viewer EXCEPT ![v] = x]
    BY <1>5, Zenon
  <2>2. /\ x \in ViewerRec /\ x.pc = p /\ x.room = viewer[v].room /\ x.chan = viewer[v].chan
        /\ x.backlog = viewer[v].backlog /\ x.queue = viewer[v].queue
    BY <1>1 DEF ViewerRec
  <2> HIDE DEF x
  <2> QED BY <1>1, <1>4, <2>1, <2>2
<1>6. ASSUME NEW q \in Seq(Messages), Len(q) <= ViewerBuffer, NEW taken \in Seq(Messages), NEW p \in ViewerPoints \ {"dial"},
             viewer' = [viewer EXCEPT ![v].queue = q, ![v].taken = taken, ![v].pc = p]
      PROVE  HubInv'
  <2> DEFINE x == [viewer[v] EXCEPT !.queue = q, !.taken = taken, !.pc = p]
  <2>1. viewer' = [viewer EXCEPT ![v] = x]
    BY <1>6, Zenon
  <2>2. /\ x \in ViewerRec /\ x.pc = p /\ x.room = viewer[v].room /\ x.chan = viewer[v].chan
        /\ x.backlog = viewer[v].backlog /\ x.queue = q
    BY <1>1 DEF ViewerRec
  <2> HIDE DEF x
  <2> QED BY <1>1, <1>4, <1>6, <2>1, <2>2
<1>7. CASE SendBacklog(v)
  <2>1. CASE viewer' = [viewer EXCEPT ![v].pc = "live"]
    BY <1>5, <2>1 DEF ViewerPoints
  <2>2. CASE viewer' = [viewer EXCEPT ![v].pc = "closing"]
    BY <1>5, <2>2 DEF ViewerPoints
  <2>3. CASE /\ viewer[v].backlog # << >>
             /\ viewer' = [viewer EXCEPT ![v].backlog = Tail(@), ![v].taken = Append(@, Head(viewer[v].backlog))]
    <3>1. /\ Tail(viewer[v].backlog) \in Seq(HubEvents) /\ Len(Tail(viewer[v].backlog)) <= RingSize
          /\ Head(viewer[v].backlog) \in HubEvents
      BY <1>1, <1>2, <2>3, SizesAssumption
    <3>2. Append(viewer[v].taken, Head(viewer[v].backlog)) \in Seq(Messages)
      BY <1>2, <3>1 DEF Messages
    <3>3. PICK b \in Seq(HubEvents) : b = Tail(viewer[v].backlog) /\ Len(b) <= RingSize
      BY <3>1
    <3>4. PICK taken \in Seq(Messages) : taken = Append(viewer[v].taken, Head(viewer[v].backlog))
      BY <3>2
    <3> DEFINE x == [viewer[v] EXCEPT !.backlog = b, !.taken = taken]
    <3>5. viewer' = [viewer EXCEPT ![v] = x]
      BY <2>3, <3>3, <3>4, Zenon
    <3>6. /\ x \in ViewerRec /\ x.pc = viewer[v].pc /\ x.room = viewer[v].room /\ x.chan = viewer[v].chan
          /\ x.backlog = b /\ x.queue = viewer[v].queue
      BY <1>1 DEF ViewerRec
    <3> HIDE DEF x
    <3> QED BY <1>1, <1>3, <1>4, <3>3, <3>5, <3>6
  <2> QED BY <1>7, <2>1, <2>2, <2>3 DEF SendBacklog
<1>8. CASE SendMessage(v)
  <2>1. /\ Tail(viewer[v].queue) \in Seq(Messages) /\ Len(Tail(viewer[v].queue)) <= ViewerBuffer
        /\ Head(viewer[v].queue) \in Messages
    BY <1>1, <1>2, <1>8, SizesAssumption DEF SendMessage
  <2>2. PICK q \in Seq(Messages) : q = Tail(viewer[v].queue) /\ Len(q) <= ViewerBuffer
    BY <2>1
  <2>3. CASE viewer' = [viewer EXCEPT ![v].queue = Tail(@), ![v].pc = "closing"]
    <3> DEFINE x == [viewer[v] EXCEPT !.queue = q, !.pc = "closing"]
    <3>1. viewer' = [viewer EXCEPT ![v] = x]
      BY <2>2, <2>3, Zenon
    <3>2. /\ x \in ViewerRec /\ x.pc = "closing" /\ x.room = viewer[v].room /\ x.chan = viewer[v].chan
          /\ x.backlog = viewer[v].backlog /\ x.queue = q
      BY <1>1 DEF ViewerRec, ViewerPoints
    <3> HIDE DEF x
    <3> QED BY <1>1, <1>4, <2>2, <3>1, <3>2
  <2>4. CASE viewer' = [viewer EXCEPT ![v].queue = Tail(@), ![v].taken = Append(@, Head(viewer[v].queue)),
                          ![v].pc = IF Head(viewer[v].queue) = OffAirMessage THEN "closing" ELSE "live"]
    <3>1. Append(viewer[v].taken, Head(viewer[v].queue)) \in Seq(Messages)
      BY <1>2, <2>1
    <3>2. PICK taken \in Seq(Messages) : taken = Append(viewer[v].taken, Head(viewer[v].queue))
      BY <3>1
    <3>3. PICK p \in ViewerPoints \ {"dial"} : p = IF Head(viewer[v].queue) = OffAirMessage THEN "closing" ELSE "live"
      BY DEF ViewerPoints
    <3>4. viewer' = [viewer EXCEPT ![v].queue = q, ![v].taken = taken, ![v].pc = p]
      BY <2>2, <2>4, <3>2, <3>3, Zenon
    <3> QED BY <1>6, <2>2, <3>4
  <2> QED BY <1>8, <2>3, <2>4, Zenon DEF SendMessage
<1>9. CASE ChannelStreamEnds(v)
  BY <1>5, <1>9 DEF ChannelStreamEnds, ViewerPoints
<1> QED BY <1>7, <1>8, <1>9

LEMMA CloseKeeps == ASSUME HubInv, NEW v \in Viewers, CloseViewer(v) PROVE HubInv'
<1> USE DEF HubInv
<1>1. viewer[v].pc = "closing" /\ gcWait' = gcWait \cup {v} /\ UNCHANGED <<rooms, published, feed, done, gone, collector>>
  BY DEF CloseViewer
<1>2. viewer[v] \in ViewerRec /\ Len(viewer[v].backlog) <= RingSize /\ Len(viewer[v].queue) <= ViewerBuffer
  BY DEF ViewersOK
<1>3. PICK r \in RoomIds : r = viewer[v].room
  BY <1>1, <1>2 DEF Begun, ViewerRec
<1>4. PICK t \in RoomRec : t = room[r] /\ Len(t.ring) <= RingSize
  BY DEF RoomOK
<1>5. PICK subs \in SUBSET Viewers : subs = t.subs \ {v}
  BY <1>4 DEF RoomRec
<1>6. PICK y : y = [t EXCEPT !.subs = subs]
  OBVIOUS
<1>7. y \in RoomRec
  BY <1>4, <1>5, <1>6 DEF RoomRec
<1>8. y.subs = room[r].subs \ {v} /\ y.ring = t.ring /\ y.publisher = room[r].publisher /\ y.session = room[r].session
  BY <1>4, <1>5, <1>6 DEF RoomRec
<1>9. room' = [room EXCEPT ![r] = y]
  <2>1. room' = [room EXCEPT ![r] = [room[r] EXCEPT !.subs = room[r].subs \ {v}]]
    BY <1>3, Zenon DEF CloseViewer
  <2> QED BY <1>4, <1>5, <1>6, <2>1, Zenon
<1>10. RoomOK' /\ StillEmpty' /\ room'[r] = y /\ \A q \in RoomIds : q # r => room'[q] = room[q]
  BY <1>1, <1>4, <1>7, <1>8, <1>9, RoomLoosens
<1>11. \A q \in RoomIds : /\ room'[q].publisher = room[q].publisher /\ room'[q].session = room[q].session
                          /\ v \notin room'[q].subs /\ room'[q].subs = room[q].subs \ {v}
  <2> SUFFICES ASSUME NEW q \in RoomIds
               PROVE  /\ room'[q].publisher = room[q].publisher /\ room'[q].session = room[q].session
                      /\ v \notin room'[q].subs /\ room'[q].subs = room[q].subs \ {v}
    OBVIOUS
  <2>1. CASE q = r
    BY <1>8, <1>10, <2>1
  <2>2. CASE q # r
    BY <1>3, <1>10, <2>2 DEF SubsOwn
  <2> QED BY <2>1, <2>2
<1>12. PICK chan \in {"slow", "session", "left"} : chan = IF viewer[v].chan = "open" THEN "left" ELSE viewer[v].chan
  BY <1>2 DEF ViewerRec
<1>13. PICK x : x = [viewer[v] EXCEPT !.pc = "done", !.chan = chan]
  OBVIOUS
<1>14. /\ x \in ViewerRec /\ x.pc = "done" /\ x.chan = chan /\ x.room = viewer[v].room
       /\ x.backlog = viewer[v].backlog /\ x.queue = viewer[v].queue
  BY <1>2, <1>12, <1>13 DEF ViewerRec, ViewerPoints
<1>15. viewer' = [viewer EXCEPT ![v] = x]
  BY <1>12, <1>13, Zenon DEF CloseViewer
<1>16. /\ viewer' \in [Viewers -> ViewerRec] /\ viewer'[v] = x /\ \A w \in Viewers : w # v => viewer'[w] = viewer[w]
       /\ \A w \in Viewers : viewer'[w].room = viewer[w].room
  BY <1>14, <1>15 DEF ViewersOK
<1>17. ViewersOK'
  BY <1>2, <1>14, <1>16 DEF ViewersOK
<1>18. Arrived' = Arrived
  BY <1>1, <1>14, <1>16 DEF Arrived
<1>19. Counted' /\ Made' /\ Begun'
  BY <1>1, <1>14, <1>16, <1>18 DEF Counted, Made, Begun
<1>20. Held'
  <2>1. \A g \in Holding : g \in Feeds /\ feed[g].room \in RoomIds
    BY HolderRoom
  <2> QED BY <1>1, <1>11, <2>1 DEF Held, Holding
<1>21. \A w \in Viewers : viewer[w].room \in RoomIds \cup {NoRoom}
  BY DEF ViewersOK, ViewerRec
<1>22. ~Attached(v)' /\ \A w \in Viewers : w # v => (Attached(w)' <=> Attached(w))
  BY <1>11, <1>16, <1>21 DEF Attached
<1>23. SubsOwn'
  <2>1. \A q \in RoomIds : room[q].subs \subseteq Viewers
    BY DEF RoomOK, RoomRec
  <2> QED BY <1>11, <1>16, <2>1 DEF SubsOwn
<1>24. Seats'
  BY <1>1, <1>16, <1>22 DEF Seats
<1>25. OpenWhileAttached'
  BY <1>12, <1>14, <1>16, <1>22 DEF OpenWhileAttached
<1>26. SetsOK'
  BY <1>1 DEF SetsOK, Handlers
<1> QED BY <1>1, <1>10, <1>17, <1>19, <1>20, <1>23, <1>24, <1>25, <1>26, HubKept

LEMMA LeaveKeeps == ASSUME HubInv, NEW v \in Viewers, ClientLeaves(v) PROVE HubInv'
<1>1. gone' = gone \cup {v} /\ UNCHANGED <<rooms, published, room, feed, done, viewer, gcWait, collector>>
  BY DEF ClientLeaves
<1>2. SetsOK'
  BY <1>1 DEF HubInv, SetsOK, Handlers
<1> QED BY <1>1, <1>2, HubKept DEF HubInv

-----------------------------------------------------------------------------
(* Collecting rooms.                                                       *)

LEMMA CheckKeeps == ASSUME HubInv, NEW p \in Handlers, GcCheck(p) PROVE HubInv'
<1> DEFINE r == rooms[ChannelOf[p]]
<1>1. collector' = [who |-> p, empty |-> r # NoRoom /\ Empty(r)]
  BY DEF GcCheck
<1>2. UNCHANGED <<rooms, published, room, feed, done, viewer, gone, gcWait>>
  BY DEF GcCheck
<1>3. PICK b \in BOOLEAN : b <=> r # NoRoom /\ Empty(r)
  <2>1. (r # NoRoom /\ Empty(r)) \in BOOLEAN
    BY DEF Empty
  <2> QED BY <2>1
<1>4. collector'.who = p /\ (collector'.empty <=> r # NoRoom /\ Empty(r)) /\ collector' \in [who : Handlers \cup {Nobody}, empty : BOOLEAN]
  BY <1>1
<1>5. CollectorOK'
  BY <1>4 DEF CollectorOK
<1>6. StillEmpty'
  BY <1>2, <1>4 DEF StillEmpty, Empty
<1> QED BY <1>2, <1>5, <1>6, HubKept DEF HubInv

\* Whoever holds the room keeps it, since the room was empty and still is.
LEMMA DeleteKeeps == ASSUME HubInv, GcDelete PROVE HubInv'
<1> USE DEF HubInv
<1> DEFINE c == ChannelOf[collector.who]
<1>1. /\ ~HubFree /\ gcWait' = gcWait \ {collector.who} /\ collector' = NoCollector
      /\ rooms' = IF collector.empty THEN [rooms EXCEPT ![c] = NoRoom] ELSE rooms
      /\ UNCHANGED <<published, room, feed, done, viewer, gone>>
  BY DEF GcDelete
<1>2. rooms \in [HubChannels -> RoomIds \cup {NoRoom}]
  BY DEF RoomsOK
<1>3. HubFree' /\ StillEmpty' /\ CollectorOK'
  BY <1>1 DEF HubFree, StillEmpty, CollectorOK, NoCollector
<1>4. SetsOK'
  BY <1>1 DEF SetsOK
<1>5. RoomsOK'
  BY <1>1, <1>2 DEF RoomsOK
<1>6. \A d \in HubChannels : rooms'[d] = rooms[d] \/ (rooms'[d] = NoRoom /\ collector.empty /\ d = c)
  BY <1>1, <1>2
<1>7. Made'
  <2>1. published \in Nat
    BY DEF Counted
  <2> QED BY <1>1, <1>6, <2>1 DEF Made, NoRoom
<1>8. Held'
  <2> SUFFICES ASSUME NEW g \in Holding PROVE rooms'[ChannelOf[g]] = feed[g].room
    BY <1>1 DEF Held, Holding
  <2>1. /\ rooms[ChannelOf[g]] = feed[g].room /\ room[feed[g].room].publisher /\ ChannelOf[g] \in HubChannels
    BY HolderRoom, HandlersAssumption DEF Held
  <2>2. ~(collector.empty /\ ChannelOf[g] = c)
    BY <1>1, <2>1 DEF StillEmpty, Empty
  <2> QED BY <1>6, <2>1, <2>2
<1>9. Seats'
  <2> SUFFICES ASSUME NEW v \in Viewers, Attached(v) PROVE rooms'[ChannelOf[v]] = viewer[v].room
    BY <1>1 DEF Seats, Attached
  <2>1. rooms[ChannelOf[v]] = viewer[v].room /\ v \in room[viewer[v].room].subs /\ ChannelOf[v] \in HubChannels
    BY HandlersAssumption DEF Seats, Attached
  <2>2. ~(collector.empty /\ ChannelOf[v] = c)
    BY <1>1, <2>1 DEF StillEmpty, Empty
  <2> QED BY <1>6, <2>1, <2>2
<1> QED BY <1>1, <1>3, <1>4, <1>5, <1>7, <1>8, <1>9, HubKept

-----------------------------------------------------------------------------
LEMMA HubStep == HubInv /\ [NextHub]_hubVars => HubInv'
<1> SUFFICES ASSUME HubInv, [NextHub]_hubVars PROVE HubInv'
  OBVIOUS
<1>1. ASSUME NEW f \in Feeds, FeedStep(f) PROVE HubInv'
  <2>1. CASE Publish(f)
    BY <2>1, PublishKeeps
  <2>2. CASE SessionStartFails(f)
    BY <2>2, StartFailsKeeps
  <2>3. CASE FeedPingLost(f)
    BY <2>3, PingKeeps
  <2>4. CASE BroadcastEvent(f)
    BY <2>4, BroadcastKeeps
  <2>5. CASE EndSession(f)
    BY <2>5, EndKeeps
  <2> QED BY <1>1, <2>1, <2>2, <2>3, <2>4, <2>5, PumpKeeps DEF FeedStep
<1>2. ASSUME NEW v \in Viewers, ViewerStep(v) PROVE HubInv'
  <2>1. CASE Subscribe(v)
    BY <2>1, SubscribeKeeps
  <2>2. CASE CloseViewer(v)
    BY <2>2, CloseKeeps
  <2>3. CASE ClientLeaves(v)
    BY <2>3, LeaveKeeps
  <2> QED BY <1>2, <2>1, <2>2, <2>3, ViewerGoesOn DEF ViewerStep
<1>3. CASE UNCHANGED hubVars
  BY <1>3, HubKept DEF hubVars, HubInv
<1> QED BY <1>1, <1>2, <1>3, CheckKeeps, DeleteKeeps DEF NextHub

LEMMA HubInvSound == HubInv => HubSound
<1> SUFFICES ASSUME HubInv PROVE HubSound
  OBVIOUS
<1> USE DEF HubInv
<1>1. published \in 0 .. Cardinality(Handlers)
  <2>1. IsFiniteSet(Handlers) /\ Arrived \subseteq Handlers
    BY HandlersAssumption DEF Handlers, Arrived
  <2>2. Cardinality(Arrived) \in Nat /\ Cardinality(Handlers) \in Nat /\ Cardinality(Arrived) <= Cardinality(Handlers)
    BY <2>1, FS_Subset, FS_CardinalityType
  <2> QED BY <2>2 DEF Counted
<1>2. \A r \in RoomIds :
        /\ room[r].publisher \in BOOLEAN /\ room[r].session \in Feeds \cup {NoFeed}
        /\ room[r].ring \in Seq(HubEvents) /\ Len(room[r].ring) <= RingSize /\ room[r].subs \subseteq Viewers
  BY DEF RoomOK, RoomRec
<1>3. \A v \in Viewers :
        /\ viewer[v].pc \in ViewerPoints /\ viewer[v].room \in RoomIds \cup {NoRoom}
        /\ viewer[v].backlog \in Seq(HubEvents) /\ Len(viewer[v].backlog) <= RingSize
        /\ viewer[v].queue \in Seq(Messages) /\ Len(viewer[v].queue) <= ViewerBuffer
        /\ viewer[v].taken \in Seq(Messages) /\ viewer[v].chan \in {"open", "slow", "session", "left"}
  BY DEF ViewersOK, ViewerRec
<1>4. HubTypeOK
  BY <1>1, <1>2, <1>3 DEF HubTypeOK, RoomsOK, FeedOK, FeedRec, SetsOK, CollectorOK
<1>5. OneSessionPerChannel
  BY HoldersApart DEF OneSessionPerChannel, Held
<1>6. NoOrphanRoom
  BY DEF NoOrphanRoom, Held, Seats
<1> QED BY <1>4, <1>5, <1>6 DEF HubSound

\* However feeds, viewers and collecting overlap, a channel has one session at a
\* time, nobody is left in a room the hub no longer finds, and a viewer's channel
\* is open exactly while it is registered (tvhub.go's Publish, Subscribe,
\* removeSub, endSession and gcRoom).
THEOREM HubIsSound == HubSpec => []HubSound
<1>1. HubSpec => []HubInv
  BY HubInit, HubStep, PTL DEF HubSpec
<1> QED BY <1>1, HubInvSound, PTL

-----------------------------------------------------------------------------
(* What a viewer gets.  Everything one stream carries has a closed form:   *)
(* the events of one session from FirstOwed on, and off air last.  A       *)
(* viewer that is registered and still writing has had, or has waiting,    *)
(* all that was aired so far.                                              *)

\* The events the room's session has broadcast.
Aired(r) == IF room[r].session = NoFeed THEN 0 ELSE feed[room[r].session].sent

Sessions ==
  \A r \in RoomIds :
    /\ room[r].publisher <=> room[r].session # NoFeed
    /\ room[r].session # NoFeed => room[r].session \in Holding /\ feed[room[r].session].room = r
Quiet == \A f \in Feeds : feed[f].cast = "off" => feed[f].sent = 0

\* The ring is the window of what was aired last.
Window(ring, f, n) ==
  /\ Len(ring) = IF n < RingSize THEN n ELSE RingSize
  /\ \A i \in 1 .. Len(ring) : ring[i] = [feed |-> f, n |-> n - Len(ring) + i]
Rings == \A r \in RoomIds : Window(room[r].ring, room[r].session, Aired(r))
RoomDrained == \A v \in Viewers : viewer[v].pc = "live" => viewer[v].backlog = << >>

Whole(v) ==
  \E f \in Feeds \cup {NoFeed} : \A i \in 1 .. Len(Stream(v)) :
    \/ Stream(v)[i] = [feed |-> f, n |-> FirstOwed(v) - 1 + i]
    \/ i = Len(Stream(v)) /\ Stream(v)[i] = OffAirMessage /\ viewer[v].chan = "session"
UpToDate(v) ==
  LET r == viewer[v].room
  IN /\ viewer[v].joined.n <= Aired(r) /\ Len(Stream(v)) = Aired(r) + 1 - FirstOwed(v)
     /\ \A i \in 1 .. Len(Stream(v)) : Stream(v)[i] = [feed |-> room[r].session, n |-> FirstOwed(v) - 1 + i]

StreamInv ==
  /\ Sessions /\ Quiet /\ Rings /\ RoomDrained
  /\ \A v \in Viewers : Whole(v) /\ (Attached(v) /\ Writing(v) => UpToDate(v))

\* Three sequences concatenated are the first followed by the rest.
LEMMA ThreeInARow ==
  ASSUME NEW s \in Seq(Messages), NEW t \in Seq(Messages), NEW u \in Seq(Messages)
  PROVE  s \o t \o u = s \o (t \o u)
  BY ConcatAssociative

\* Writing at the end and reading at the front move across a concatenation.
LEMMA AppendMovesOut ==
  ASSUME NEW S, NEW s \in Seq(S), NEW t \in Seq(S), NEW e \in S
  PROVE  s \o Append(t, e) = Append(s \o t, e)
<1>1. Append(t, e) = t \o <<e>> /\ s \o t \in Seq(S) /\ <<e>> \in Seq(S)
  BY AppendIsConcat, ConcatProperties
<1>2. Append(s \o t, e) = (s \o t) \o <<e>>
  BY <1>1, AppendIsConcat
<1> QED BY <1>1, <1>2, ConcatAssociative

LEMMA HeadMovesOut ==
  ASSUME NEW S, NEW s \in Seq(S), NEW t \in Seq(S), t # << >>
  PROVE  Append(s, Head(t)) \in Seq(S) /\ Append(s, Head(t)) \o Tail(t) = s \o t
<1>1. Head(t) \in S /\ Tail(t) \in Seq(S) /\ Len(Tail(t)) = Len(t) - 1
      /\ \A i \in 1 .. Len(Tail(t)) : Tail(t)[i] = t[i + 1]
  BY HeadTailProperties
<1>2. Append(s, Head(t)) \in Seq(S) /\ Len(Append(s, Head(t))) = Len(s) + 1
      /\ \A i \in 1 .. Len(s) : Append(s, Head(t))[i] = s[i]
      /\ Append(s, Head(t))[Len(s) + 1] = t[1]
  <2>1. Head(t) = t[1]
    OBVIOUS
  <2> QED BY <1>1, <2>1, AppendProperties
<1>3. Len(s) \in Nat /\ Len(t) \in Nat \ {0} /\ Len(Tail(t)) \in Nat
  BY <1>1, EmptySeq, LenProperties
<1>4. /\ Append(s, Head(t)) \o Tail(t) \in Seq(S) /\ Len(Append(s, Head(t)) \o Tail(t)) = Len(s) + 1 + Len(Tail(t))
      /\ \A i \in 1 .. Len(s) + 1 + Len(Tail(t)) :
           (Append(s, Head(t)) \o Tail(t))[i] = IF i <= Len(s) + 1 THEN Append(s, Head(t))[i] ELSE Tail(t)[i - (Len(s) + 1)]
  <2>1. Len(Append(s, Head(t))) + Len(Tail(t)) = Len(s) + 1 + Len(Tail(t))
    BY <1>2
  <2> QED BY <1>1, <1>2, <2>1, ConcatProperties
<1>5. /\ s \o t \in Seq(S) /\ Len(s \o t) = Len(s) + Len(t)
      /\ \A i \in 1 .. Len(s) + Len(t) : (s \o t)[i] = IF i <= Len(s) THEN s[i] ELSE t[i - Len(s)]
  BY ConcatProperties
<1>6. Len(s) + 1 + Len(Tail(t)) = Len(s) + Len(t)
  BY <1>1, <1>3
<1>7. \A i \in 1 .. Len(s) + Len(t) : (Append(s, Head(t)) \o Tail(t))[i] = (s \o t)[i]
  <2> SUFFICES ASSUME NEW i \in 1 .. Len(s) + Len(t) PROVE (Append(s, Head(t)) \o Tail(t))[i] = (s \o t)[i]
    OBVIOUS
  <2>1. CASE i <= Len(s)
    BY <1>2, <1>3, <1>4, <1>5, <1>6, <2>1
  <2>2. CASE i = Len(s) + 1
    BY <1>2, <1>3, <1>4, <1>5, <1>6, <2>2
  <2>3. CASE i > Len(s) + 1
    <3>1. i - (Len(s) + 1) \in 1 .. Len(Tail(t)) /\ (i - (Len(s) + 1)) + 1 = i - Len(s)
      BY <1>1, <1>3, <2>3
    <3> QED BY <1>1, <1>3, <1>4, <1>5, <1>6, <2>3, <3>1
  <2> QED BY <1>3, <2>1, <2>2, <2>3
<1> QED BY <1>2, <1>4, <1>5, <1>6, <1>7, SeqEqual

\* What a viewer holds is messages, and it is owed events from a first one on.
LEMMA StreamTyped ==
  ASSUME HubInv, NEW v \in Viewers
  PROVE  /\ viewer[v].taken \in Seq(Messages) /\ viewer[v].backlog \in Seq(Messages) /\ viewer[v].queue \in Seq(Messages)
         /\ Stream(v) \in Seq(Messages) /\ Len(Stream(v)) \in Nat /\ FirstOwed(v) \in Nat \ {0}
         /\ viewer[v].pc \in ViewerPoints
<1>1. viewer[v] \in ViewerRec
  BY DEF HubInv, ViewersOK
<1>2. /\ viewer[v].taken \in Seq(Messages) /\ viewer[v].backlog \in Seq(HubEvents) /\ viewer[v].queue \in Seq(Messages)
      /\ viewer[v].joined \in Joined /\ viewer[v].pc \in ViewerPoints
  BY <1>1 DEF ViewerRec
<1>3. viewer[v].backlog \in Seq(Messages)
  BY <1>2, SeqMonotonic DEF Messages
<1>4. Stream(v) \in Seq(Messages)
  BY <1>2, <1>3, ConcatProperties DEF Stream
<1>5. FirstOwed(v) \in Nat \ {0}
  <2>1. viewer[v].joined.n \in Nat
    BY <1>2, SizesAssumption DEF Joined
  <2>2. RingSize \in Nat \ {0}
    BY SizesAssumption
  <2>. DEFINE n == viewer[v].joined.n
  <2>3. FirstOwed(v) = IF n > RingSize THEN n - RingSize + 1 ELSE 1
    BY DEF FirstOwed
  <2>. HIDE DEF n
  <2> QED BY <2>1, <2>2, <2>3 DEF n
<1> QED BY <1>2, <1>3, <1>4, <1>5, LenProperties

LEMMA AiredTyped == ASSUME HubInv, NEW r \in RoomIds PROVE Aired(r) \in 0 .. MaxEvents
<1>1. room[r].session \in Feeds \cup {NoFeed}
  BY DEF HubInv, RoomOK, RoomRec
<1>2. \A f \in Feeds : feed[f].sent \in 0 .. MaxEvents
  BY DEF HubInv, FeedOK, FeedRec
<1> QED BY <1>1, <1>2, SizesAssumption DEF Aired

\* A stream that stops early is as whole as the rest.
LEMMA WholeShorter ==
  ASSUME HubInv, HubInv', NEW v \in Viewers, Whole(v), viewer'[v].joined = viewer[v].joined,
         Len(Stream(v)') <= Len(Stream(v)),
         \A i \in 1 .. Len(Stream(v)') : Stream(v)'[i] = Stream(v)[i],
         viewer'[v].chan = viewer[v].chan \/ viewer[v].chan = "open"
  PROVE  Whole(v)'
<1>1. Len(Stream(v)) \in Nat /\ Len(Stream(v)') \in Nat
  <2>1. Len(Stream(v)) \in Nat
    BY StreamTyped
  <2>2. Stream(v)' \in Seq(Messages)
    <3>1. viewer'[v] \in ViewerRec
      BY DEF HubInv, ViewersOK
    <3>2. viewer'[v].taken \in Seq(Messages) /\ viewer'[v].backlog \in Seq(HubEvents) /\ viewer'[v].queue \in Seq(Messages)
      BY <3>1 DEF ViewerRec
    <3>3. viewer'[v].backlog \in Seq(Messages)
      BY <3>2, SeqMonotonic DEF Messages
    <3> QED BY <3>2, <3>3, ConcatProperties DEF Stream, Writing
  <2> QED BY <2>1, <2>2, LenProperties
<1>2. FirstOwed(v)' = FirstOwed(v)
  BY DEF FirstOwed
<1>3. PICK f \in Feeds \cup {NoFeed} : \A i \in 1 .. Len(Stream(v)) :
         \/ Stream(v)[i] = [feed |-> f, n |-> FirstOwed(v) - 1 + i]
         \/ i = Len(Stream(v)) /\ Stream(v)[i] = OffAirMessage /\ viewer[v].chan = "session"
  BY DEF Whole
<1>4. \A i \in 1 .. Len(Stream(v)') :
         \/ Stream(v)'[i] = [feed |-> f, n |-> FirstOwed(v)' - 1 + i]
         \/ i = Len(Stream(v)') /\ Stream(v)'[i] = OffAirMessage /\ viewer'[v].chan = "session"
  BY <1>1, <1>2, <1>3
<1> QED BY <1>4 DEF Whole

\* Nothing is aired and nobody is registered at the start.
LEMMA StreamInit == InitHub => StreamInv
<1> SUFFICES ASSUME InitHub PROVE StreamInv
  OBVIOUS
<1>1. \A r \in RoomIds : room[r] = EmptyRoom /\ Aired(r) = 0
  BY DEF InitHub, EmptyRoom, Aired
<1>2. Sessions /\ Rings
  BY <1>1, SizesAssumption DEF Sessions, Rings, Window, EmptyRoom
<1>3. Quiet /\ RoomDrained
  BY DEF InitHub, Quiet, RoomDrained, NewFeed, NewViewer
<1>4. ASSUME NEW v \in Viewers PROVE Whole(v) /\ ~Attached(v)
  <2>1. Stream(v) = << >> /\ ~Attached(v)
    BY DEF InitHub, Stream, Writing, Attached, NewViewer
  <2> QED BY <2>1 DEF Whole
<1> QED BY <1>2, <1>3, <1>4 DEF StreamInv

LEMMA StreamOf ==
  ASSUME NEW v \in Viewers, viewer'[v] = viewer[v]
  PROVE  Stream(v)' = Stream(v) /\ FirstOwed(v)' = FirstOwed(v) /\ (Writing(v)' <=> Writing(v)) /\ (Whole(v)' <=> Whole(v))
BY DEF Stream, FirstOwed, Writing, Whole

\* A viewer is as up to date as it was unless something is aired.
LEMMA UpToDateStays ==
  ASSUME HubInv, NEW v \in Viewers, NEW r \in RoomIds, r = viewer[v].room, UpToDate(v),
         Stream(v)' = Stream(v), viewer'[v].room = viewer[v].room, viewer'[v].joined = viewer[v].joined,
         Aired(r)' = Aired(r), room'[r].session = room[r].session \/ Aired(r) = 0
  PROVE  UpToDate(v)'
<1>1. viewer[v].joined.n <= Aired(r) /\ Len(Stream(v)) = Aired(r) + 1 - FirstOwed(v)
      /\ \A i \in 1 .. Len(Stream(v)) : Stream(v)[i] = [feed |-> room[r].session, n |-> FirstOwed(v) - 1 + i]
  BY DEF UpToDate
<1>2. FirstOwed(v)' = FirstOwed(v) /\ viewer'[v].room = r
  BY DEF FirstOwed
<1>3. Aired(viewer[v].room)' = Aired(r)
  BY <1>2 DEF Aired
<1>4. Len(Stream(v)) \in Nat /\ FirstOwed(v) \in Nat \ {0}
  BY StreamTyped
<1>5. CASE room'[r].session = room[r].session
  BY <1>1, <1>2, <1>3, <1>5 DEF UpToDate
<1>6. CASE Aired(r) = 0
  BY <1>1, <1>2, <1>3, <1>4, <1>6 DEF UpToDate
<1> QED BY <1>5, <1>6

\* The steps that touch no viewer and air nothing.
LEMMA RoomsMove ==
  ASSUME HubInv, StreamInv, UNCHANGED viewer, Sessions', Quiet',
         \A q \in RoomIds : /\ room'[q].subs = room[q].subs /\ Aired(q)' = Aired(q)
                            /\ room'[q].session = room[q].session \/ Aired(q) = 0
                            /\ Window(room'[q].ring, room'[q].session, Aired(q))
  PROVE  StreamInv'
<1>1. Rings'
  BY DEF Rings, Window
<1>2. RoomDrained'
  BY DEF StreamInv, RoomDrained
<1>3. ASSUME NEW v \in Viewers, Attached(v)', Writing(v)' PROVE UpToDate(v)'
  <2>1. viewer[v].room \in RoomIds \cup {NoRoom}
    BY DEF HubInv, ViewersOK, ViewerRec
  <2>2. viewer[v].room \in RoomIds /\ Attached(v) /\ Writing(v)
    BY <1>3, <2>1 DEF Attached, Writing
  <2>3. Stream(v)' = Stream(v) /\ UpToDate(v)
    BY <2>2, StreamOf DEF StreamInv
  <2> QED BY <2>2, <2>3, UpToDateStays
<1> QED BY <1>1, <1>2, <1>3, StreamOf DEF StreamInv

\* ... among them those that leave every room alone.
LEMMA FeedsOnly ==
  ASSUME HubInv, StreamInv, UNCHANGED <<room, viewer>>,
         \A f \in Feeds : /\ feed'[f].sent = feed[f].sent /\ feed'[f].room = feed[f].room
                          /\ feed'[f].cast = "off" => feed[f].cast = "off"
                          /\ f \in Holding => f \in Holding'
  PROVE  StreamInv'
<1>1. \A r \in RoomIds : room[r].session \in Feeds \cup {NoFeed}
  BY DEF HubInv, RoomOK, RoomRec
<1>2. \A q \in RoomIds : Aired(q)' = Aired(q)
  BY <1>1 DEF Aired
<1>3. Sessions' /\ Quiet'
  BY <1>1 DEF StreamInv, Sessions, Quiet, Holding
<1>4. \A q \in RoomIds : Window(room[q].ring, room[q].session, Aired(q))
  BY DEF StreamInv, Rings
<1> QED BY <1>2, <1>3, <1>4, RoomsMove

LEMMA FeedsOnlySteps ==
  ASSUME HubInv, StreamInv,
         \/ \E f \in Feeds : \/ StartChannelSession(f) \/ ReadFeedFrame(f) \/ FeedFrame(f) \/ FeedCloses(f)
                             \/ FeedPingLost(f) \/ AnalyzerReads(f) \/ AnalyzerEnds(f)
         \/ \E v \in Viewers : ClientLeaves(v)
         \/ \E p \in Handlers : GcCheck(p)
         \/ GcDelete \/ UNCHANGED hubVars
  PROVE  StreamInv'
<1>1. feed \in [Feeds -> FeedRec]
  BY DEF HubInv, FeedOK
<1>2. UNCHANGED <<room, viewer>>
  BY Zenon DEF StartChannelSession, ReadFeedFrame, FeedFrame, FeedCloses, FeedPingLost, AnalyzerReads, AnalyzerEnds,
         ClientLeaves, GcCheck, GcDelete, hubVars
<1>3. CASE UNCHANGED feed
  BY <1>2, <1>3, FeedsOnly DEF Holding
<1>4. ASSUME NEW f \in Feeds, StartChannelSession(f) PROVE StreamInv'
  <2>1. feed' = [feed EXCEPT ![f] = [feed[f] EXCEPT !.pc = "pump", !.stream = "open", !.cast = "run"]]
    BY <1>4, Zenon DEF StartChannelSession
  <2>2. \A g \in Feeds : /\ feed'[g].sent = feed[g].sent /\ feed'[g].room = feed[g].room
                         /\ g # f => feed'[g] = feed[g]
    BY <1>1, <2>1 DEF FeedRec
  <2>3. feed'[f].cast = "run"
    BY <1>1, <2>1 DEF FeedRec
  <2> QED BY <1>2, <2>2, <2>3, FeedsOnly DEF Holding
<1>5. ASSUME NEW f \in Feeds, ReadFeedFrame(f) \/ FeedFrame(f) \/ FeedCloses(f) \/ AnalyzerReads(f) \/ AnalyzerEnds(f)
      PROVE  StreamInv'
  <2>1. \A g \in Feeds : g # f => feed'[g] = feed[g]
    BY <1>1, <1>5 DEF ReadFeedFrame, FeedFrame, FeedCloses, AnalyzerReads, AnalyzerEnds
  <2>2. feed'[f].sent = feed[f].sent /\ feed'[f].room = feed[f].room /\ feed'[f].cast = feed[f].cast
    BY <1>1, <1>5 DEF ReadFeedFrame, FeedFrame, FeedCloses, AnalyzerReads, AnalyzerEnds, FeedRec
  <2>3. f \in Holding => feed[f].cast = "run"
    <3>1. feed[f].pc = "starting" => feed[f].stream = "none"
      BY DEF HubInv, Begun
    <3> QED BY <1>5, <3>1 DEF Holding, ReadFeedFrame, FeedFrame, FeedCloses, AnalyzerReads, AnalyzerEnds
  <2>4. \A g \in Feeds : /\ feed'[g].sent = feed[g].sent /\ feed'[g].room = feed[g].room
                         /\ feed'[g].cast = "off" => feed[g].cast = "off"
                         /\ g \in Holding => g \in Holding'
    BY <2>1, <2>2, <2>3 DEF Holding
  <2> QED BY <1>2, <2>4, FeedsOnly
<1>6. CASE \E f \in Feeds : FeedPingLost(f)
  BY <1>3, <1>6 DEF FeedPingLost
<1>7. CASE (\E v \in Viewers : ClientLeaves(v)) \/ (\E p \in Handlers : GcCheck(p)) \/ GcDelete \/ UNCHANGED hubVars
  BY <1>3, <1>7 DEF ClientLeaves, GcCheck, GcDelete, hubVars
<1> QED BY <1>4, <1>5, <1>6, <1>7

-----------------------------------------------------------------------------
\* A viewer that writes: its stream is the same while it goes on, and stops
\* where it stood when it gives up.
Continues(x, y) ==
  \/ x.taken \o x.backlog \o x.queue = y.taken \o y.backlog \o y.queue
  \/ x.pc \notin {"backlog", "live"} /\ x.taken = y.taken

LEMMA ViewerWrites ==
  ASSUME HubInv, HubInv', StreamInv, NEW v \in Viewers, NEW x \in ViewerRec, viewer' = [viewer EXCEPT ![v] = x],
         UNCHANGED <<room, feed>>, x.room = viewer[v].room, x.joined = viewer[v].joined, x.chan = viewer[v].chan,
         x.pc = "live" => x.backlog = << >>, Writing(v), Continues(x, viewer[v])
  PROVE  StreamInv'
<1>1. viewer'[v] = x /\ \A w \in Viewers : w # v => viewer'[w] = viewer[w]
  BY DEF HubInv, ViewersOK
<1>2. \A r \in RoomIds : Aired(r)' = Aired(r)
  BY DEF Aired
<1>3. Sessions' /\ Quiet' /\ Rings'
  BY <1>2 DEF StreamInv, Sessions, Quiet, Rings, Window, Holding
<1>4. RoomDrained'
  BY <1>1 DEF StreamInv, RoomDrained
<1>5. Stream(v) = viewer[v].taken \o viewer[v].backlog \o viewer[v].queue /\ Stream(v) \in Seq(Messages)
  BY StreamTyped DEF Stream
<1>6. viewer[v].taken \in Seq(Messages) /\ viewer[v].backlog \in Seq(Messages) /\ viewer[v].queue \in Seq(Messages)
  BY StreamTyped
<1>7. x.taken \in Seq(Messages) /\ x.backlog \in Seq(Messages) /\ x.queue \in Seq(Messages)
  <2>1. x.taken \in Seq(Messages) /\ x.backlog \in Seq(HubEvents) /\ x.queue \in Seq(Messages)
    BY DEF ViewerRec
  <2> QED BY <2>1, SeqMonotonic DEF Messages
<1>8. x.taken \o x.backlog \o x.queue = Stream(v) \/ (x.pc \notin {"backlog", "live"} /\ x.taken = viewer[v].taken)
  BY <1>5, Zenon DEF Continues
<1>0. PICK a \in Seq(Messages), b \in Seq(Messages), c \in Seq(Messages), d \in Seq(Messages), e \in Seq(Messages) :
         a = x.taken /\ b = x.backlog /\ c = x.queue /\ d = viewer[v].backlog /\ e = viewer[v].queue
  BY <1>6, <1>7
<1>9. PICK t \in Seq(Messages) : Stream(v) = Stream(v)' \o t /\ Stream(v)' \in Seq(Messages)
  <2>1. CASE Writing(v)'
    <3>1. Stream(v)' = Stream(v)
      BY <1>1, <1>8, <2>1, Zenon DEF Stream, Writing
    <3>2. Stream(v) = Stream(v) \o << >> /\ << >> \in Seq(Messages)
      BY <1>5, ConcatEmptySeq, EmptySeq
    <3> QED BY <1>5, <3>1, <3>2
  <2>2. CASE ~Writing(v)'
    <3>1. Stream(v)' = x.taken
      BY <1>1, <2>2 DEF Stream
    <3>2. CASE x.taken = viewer[v].taken
      <4>1. a \o d \o e = a \o (d \o e)
        BY ThreeInARow, Zenon
      <4>2. d \o e \in Seq(Messages)
        BY ConcatProperties
      <4>3. Stream(v) = x.taken \o (d \o e)
        BY <1>0, <1>5, <3>2, <4>1
      <4> QED BY <1>7, <3>1, <4>2, <4>3
    <3>3. CASE x.taken \o x.backlog \o x.queue = Stream(v)
      <4>1. a \o b \o c = a \o (b \o c)
        BY ThreeInARow, Zenon
      <4>2. b \o c \in Seq(Messages)
        BY ConcatProperties
      <4>3. Stream(v) = x.taken \o (b \o c)
        BY <1>0, <3>3, <4>1
      <4> QED BY <1>7, <3>1, <4>2, <4>3
    <3> QED BY <1>8, <3>2, <3>3
  <2> QED BY <2>1, <2>2
<1>10. /\ Len(Stream(v)') <= Len(Stream(v))
       /\ \A i \in 1 .. Len(Stream(v)') : Stream(v)'[i] = Stream(v)[i]
  <2> DEFINE s == Stream(v)'
  <2>1. s \in Seq(Messages) /\ Len(s) \in Nat /\ Len(t) \in Nat
    BY <1>9, LenProperties
  <2> HIDE DEF s
  <2>2. Len(s \o t) = Len(s) + Len(t) /\ \A i \in 1 .. Len(s) + Len(t) : (s \o t)[i] = IF i <= Len(s) THEN s[i] ELSE t[i - Len(s)]
    BY <2>1, ConcatProperties
  <2>3. Len(s) <= Len(s \o t) /\ \A i \in 1 .. Len(s) : s[i] = (s \o t)[i]
    BY <2>1, <2>2
  <2> QED BY <1>9, <2>3 DEF s
<1>11. Whole(v)'
  <2>1. Whole(v) /\ viewer'[v].joined = viewer[v].joined /\ viewer'[v].chan = viewer[v].chan
    BY <1>1 DEF StreamInv
  <2> QED BY <1>10, <2>1, WholeShorter
<1>12. ASSUME NEW w \in Viewers, Attached(w)', Writing(w)' PROVE UpToDate(w)'
  <2>1. viewer[w].room \in RoomIds \cup {NoRoom}
    BY DEF HubInv, ViewersOK, ViewerRec
  <2>2. viewer[w].room \in RoomIds /\ viewer'[w].room = viewer[w].room /\ viewer'[w].joined = viewer[w].joined /\ Attached(w)
    BY <1>1, <1>12, <2>1 DEF Attached
  <2>3. Stream(w)' = Stream(w) /\ Writing(w)
    <3>1. CASE w = v
      BY <1>1, <1>8, <1>12, <3>1, Zenon DEF Stream, Writing
    <3>2. CASE w # v
      BY <1>1, <1>12, <3>2, StreamOf
    <3> QED BY <3>1, <3>2
  <2>4. UpToDate(w)
    BY <2>2, <2>3 DEF StreamInv
  <2> QED BY <1>2, <2>2, <2>3, <2>4, UpToDateStays
<1>13. \A w \in Viewers : w # v => Whole(w)'
  BY <1>1, StreamOf DEF StreamInv
<1> QED BY <1>3, <1>4, <1>11, <1>12, <1>13 DEF StreamInv

\* tvViewerHandler's writes move a message from the backlog or the channel to the client.
LEMMA ViewerWritesSteps ==
  ASSUME HubInv, HubInv', StreamInv, NEW v \in Viewers, SendBacklog(v) \/ SendMessage(v) \/ ChannelStreamEnds(v)
  PROVE  StreamInv'
<1>1. PICK w \in ViewerRec : w = viewer[v]
  BY DEF HubInv, ViewersOK
<1>2. /\ w.taken \in Seq(Messages) /\ w.backlog \in Seq(Messages) /\ w.queue \in Seq(Messages)
      /\ w.backlog \in Seq(HubEvents) /\ (w.pc = "live" => w.backlog = << >>)
  BY <1>1, StreamTyped DEF StreamInv, RoomDrained, ViewerRec
<1>3. UNCHANGED <<room, feed>> /\ Writing(v)
  BY DEF SendBacklog, SendMessage, ChannelStreamEnds, Writing
<1>4. ASSUME NEW p \in {"live", "closing"}, viewer' = [viewer EXCEPT ![v].pc = p], p = "live" => w.backlog = << >>
      PROVE  StreamInv'
  <2> DEFINE x == [w EXCEPT !.pc = p]
  <2>1. viewer' = [viewer EXCEPT ![v] = x]
    BY <1>1, <1>4, Zenon
  <2>2. /\ x \in ViewerRec /\ x.pc = p /\ x.room = w.room /\ x.chan = w.chan /\ x.joined = w.joined
        /\ x.taken = w.taken /\ x.backlog = w.backlog /\ x.queue = w.queue
    BY <1>1 DEF ViewerRec, ViewerPoints
  <2> HIDE DEF x
  <2>3. x.taken \o x.backlog \o x.queue = viewer[v].taken \o viewer[v].backlog \o viewer[v].queue
    BY <1>1, <2>2
  <2> QED BY <1>1, <1>3, <1>4, <2>1, <2>2, <2>3, ViewerWrites DEF Continues
<1>5. CASE SendBacklog(v)
  <2>1. CASE w.backlog = << >> /\ viewer' = [viewer EXCEPT ![v].pc = "live"]
    BY <1>4, <2>1
  <2>2. CASE viewer' = [viewer EXCEPT ![v].pc = "closing"]
    BY <1>4, <2>2
  <2>3. CASE /\ w.backlog # << >>
             /\ viewer' = [viewer EXCEPT ![v].backlog = Tail(@), ![v].taken = Append(@, Head(viewer[v].backlog))]
    <3>1. PICK b \in Seq(HubEvents) : b = Tail(w.backlog)
      <4>1. Tail(w.backlog) \in Seq(HubEvents)
        BY <1>2, <2>3
      <4> QED BY <4>1
    <3>2. Append(w.taken, Head(w.backlog)) \in Seq(Messages) /\ Append(w.taken, Head(w.backlog)) \o Tail(w.backlog) = w.taken \o w.backlog
      BY <1>2, <2>3, HeadMovesOut
    <3>3. PICK taken \in Seq(Messages) : taken = Append(w.taken, Head(w.backlog))
      BY <3>2
    <3> DEFINE x == [w EXCEPT !.backlog = b, !.taken = taken]
    <3>4. viewer' = [viewer EXCEPT ![v] = x]
      BY <1>1, <2>3, <3>1, <3>3, Zenon
    <3>5. /\ x \in ViewerRec /\ x.pc = w.pc /\ x.room = w.room /\ x.chan = w.chan /\ x.joined = w.joined
          /\ x.taken = taken /\ x.backlog = b /\ x.queue = w.queue
      BY <1>1 DEF ViewerRec
    <3> HIDE DEF x
    <3>6. x.taken \o x.backlog \o x.queue = viewer[v].taken \o viewer[v].backlog \o viewer[v].queue
      BY <1>1, <3>1, <3>2, <3>3, <3>5
    <3>7. x.pc # "live"
      BY <1>1, <1>5, <3>5 DEF SendBacklog
    <3> QED BY <1>1, <1>3, <3>4, <3>5, <3>6, <3>7, ViewerWrites DEF Continues
  <2> QED BY <1>1, <1>5, <2>1, <2>2, <2>3 DEF SendBacklog
<1>6. CASE SendMessage(v)
  <2>1. w.pc = "live" /\ w.queue # << >> /\ w.backlog = << >>
    BY <1>1, <1>2, <1>6 DEF SendMessage
  <2>2. PICK q \in Seq(Messages) : q = Tail(w.queue)
    <3>1. Tail(w.queue) \in Seq(Messages)
      BY <1>2, <2>1
    <3> QED BY <3>1
  <2>3. Append(w.taken, Head(w.queue)) \in Seq(Messages) /\ Append(w.taken, Head(w.queue)) \o Tail(w.queue) = w.taken \o w.queue
    BY <1>2, <2>1, HeadMovesOut
  <2>4. PICK taken \in Seq(Messages) : taken = Append(w.taken, Head(w.queue))
    BY <2>3
  <2>5. CASE viewer' = [viewer EXCEPT ![v].queue = Tail(@), ![v].pc = "closing"]
    <3> DEFINE x == [w EXCEPT !.queue = q, !.pc = "closing"]
    <3>1. viewer' = [viewer EXCEPT ![v] = x]
      BY <1>1, <2>2, <2>5, Zenon
    <3>2. /\ x \in ViewerRec /\ x.pc = "closing" /\ x.room = w.room /\ x.chan = w.chan /\ x.joined = w.joined
          /\ x.taken = w.taken /\ x.backlog = w.backlog /\ x.queue = q
      BY <1>1 DEF ViewerRec, ViewerPoints
    <3> HIDE DEF x
    <3> QED BY <1>1, <1>3, <3>1, <3>2, ViewerWrites DEF Continues
  <2>6. CASE viewer' = [viewer EXCEPT ![v].queue = Tail(@), ![v].taken = Append(@, Head(viewer[v].queue)),
                          ![v].pc = IF Head(viewer[v].queue) = OffAirMessage THEN "closing" ELSE "live"]
    <3>1. PICK p \in {"live", "closing"} : p = IF Head(viewer[v].queue) = OffAirMessage THEN "closing" ELSE "live"
      OBVIOUS
    <3> DEFINE x == [w EXCEPT !.queue = q, !.taken = taken, !.pc = p]
    <3>2. viewer' = [viewer EXCEPT ![v] = x]
      BY <1>1, <2>2, <2>4, <2>6, <3>1, Zenon
    <3>3. /\ x \in ViewerRec /\ x.pc = p /\ x.room = w.room /\ x.chan = w.chan /\ x.joined = w.joined
          /\ x.taken = taken /\ x.backlog = w.backlog /\ x.queue = q
      BY <1>1 DEF ViewerRec, ViewerPoints
    <3> HIDE DEF x
    <3>4. taken \o << >> = taken /\ w.taken \o << >> = w.taken
      BY <1>2, ConcatEmptySeq
    <3>5. x.taken \o x.backlog \o x.queue = viewer[v].taken \o viewer[v].backlog \o viewer[v].queue
      BY <1>1, <2>1, <2>2, <2>3, <2>4, <3>3, <3>4
    <3>6. x.backlog = << >>
      BY <2>1, <3>3
    <3> QED BY <1>1, <1>3, <3>2, <3>3, <3>5, <3>6, ViewerWrites DEF Continues
  <2> QED BY <1>6, <2>5, <2>6, Zenon DEF SendMessage
<1>7. CASE ChannelStreamEnds(v)
  BY <1>4, <1>7 DEF ChannelStreamEnds
<1> QED BY <1>5, <1>6, <1>7

\* A viewer whose own state does not change, in a room that airs nothing.
LEMMA BystanderStays ==
  ASSUME HubInv, StreamInv, NEW v \in Viewers, viewer'[v] = viewer[v],
         Attached(v)' => Attached(v),
         \A q \in RoomIds : q = viewer[v].room => Aired(q)' = Aired(q) /\ room'[q].session = room[q].session
  PROVE  Whole(v)' /\ (Attached(v)' /\ Writing(v)' => UpToDate(v)')
<1>1. Whole(v)' /\ Stream(v)' = Stream(v) /\ (Writing(v)' <=> Writing(v))
  BY StreamOf DEF StreamInv
<1>2. ASSUME Attached(v)', Writing(v)' PROVE UpToDate(v)'
  <2>1. viewer[v].room \in RoomIds /\ UpToDate(v)
    <3>1. viewer[v].room \in RoomIds \cup {NoRoom}
      BY DEF HubInv, ViewersOK, ViewerRec
    <3> QED BY <1>1, <1>2, <3>1 DEF StreamInv, Attached
  <2> QED BY <1>1, <2>1, UpToDateStays
<1> QED BY <1>1, <1>2

\* One that is no longer written to, or no longer registered, keeps what it has.
LEMMA StreamStops ==
  ASSUME HubInv, HubInv', StreamInv, NEW v \in Viewers, Stream(v)' = Stream(v), viewer'[v].joined = viewer[v].joined,
         viewer'[v].chan = viewer[v].chan \/ viewer[v].chan = "open"
  PROVE  Whole(v)'
<1>1. Len(Stream(v)) \in Nat /\ Whole(v)
  BY StreamTyped DEF StreamInv
<1>2. Len(Stream(v)') <= Len(Stream(v)) /\ \A i \in 1 .. Len(Stream(v)') : Stream(v)'[i] = Stream(v)[i]
  BY <1>1
<1> QED BY <1>1, <1>2, WholeShorter

\* removeSub takes the viewer out of its room.
LEMMA StreamClose == ASSUME HubInv, HubInv', StreamInv, NEW v \in Viewers, CloseViewer(v) PROVE StreamInv'
<1>1. room \in [RoomIds -> RoomRec] /\ viewer \in [Viewers -> ViewerRec]
  BY DEF HubInv, RoomOK, ViewersOK
<1>2. viewer[v].pc = "closing" /\ UNCHANGED <<rooms, published, feed, done, gone, collector>>
  BY DEF CloseViewer
<1>3. viewer[v].room \in RoomIds
  BY <1>1, <1>2 DEF HubInv, Begun, ViewerRec
<1>4. \A q \in RoomIds : /\ room'[q].session = room[q].session /\ room'[q].publisher = room[q].publisher
                         /\ room'[q].ring = room[q].ring /\ room'[q].subs \subseteq room[q].subs
                         /\ q = viewer[v].room => v \notin room'[q].subs
  BY <1>1, <1>3 DEF CloseViewer, RoomRec
<1>5. /\ \A w \in Viewers : w # v => viewer'[w] = viewer[w]
      /\ viewer'[v].pc = "done" /\ viewer'[v].taken = viewer[v].taken /\ viewer'[v].joined = viewer[v].joined
      /\ viewer'[v].room = viewer[v].room /\ (viewer'[v].chan = viewer[v].chan \/ viewer[v].chan = "open")
  BY <1>1 DEF CloseViewer, ViewerRec
<1>6. \A q \in RoomIds : Aired(q)' = Aired(q)
  BY <1>2, <1>4 DEF Aired
<1>7. Sessions' /\ Quiet' /\ Rings' /\ RoomDrained'
  BY <1>2, <1>4, <1>5, <1>6 DEF StreamInv, Sessions, Quiet, Rings, Window, RoomDrained, Holding
<1>8. Whole(v)' /\ ~Attached(v)'
  <2>1. Stream(v)' = Stream(v)
    BY <1>2, <1>5 DEF Stream, Writing
  <2>2. ~Attached(v)'
    BY <1>3, <1>4, <1>5 DEF Attached
  <2> QED BY <1>5, <2>1, <2>2, StreamStops
<1>9. ASSUME NEW w \in Viewers, w # v PROVE Whole(w)' /\ (Attached(w)' /\ Writing(w)' => UpToDate(w)')
  <2>1. viewer'[w] = viewer[w] /\ viewer[w].room \in RoomIds \cup {NoRoom}
    BY <1>1, <1>5, <1>9 DEF ViewerRec
  <2>2. Attached(w)' => Attached(w)
    BY <1>4, <2>1 DEF Attached
  <2> QED BY <1>4, <1>6, <2>1, <2>2, BystanderStays
<1> QED BY <1>7, <1>8, <1>9 DEF StreamInv

\* A viewer that joins finds the window in the ring, up to what was aired last.
LEMMA StreamSubscribe == ASSUME HubInv, HubInv', StreamInv, NEW v \in Viewers, Subscribe(v) PROVE StreamInv'
<1> DEFINE r == RoomFor(ChannelOf[v])
<1>1. room \in [RoomIds -> RoomRec] /\ viewer \in [Viewers -> ViewerRec]
  BY DEF HubInv, RoomOK, ViewersOK
<1>2. viewer[v].pc = "dial" /\ UNCHANGED <<feed, done, gone, gcWait, collector>>
  BY DEF Subscribe
<1>3. r \in RoomIds
  <2>1. v \in Handlers /\ v \notin Arrived /\ ChannelOf[v] \in HubChannels
    BY <1>2, HandlersAssumption DEF Handlers, Arrived
  <2> QED BY <2>1, RoomForOne
<1>4. \A q \in RoomIds : /\ room'[q].session = room[q].session /\ room'[q].publisher = room[q].publisher
                         /\ room'[q].ring = room[q].ring /\ room'[q].subs \subseteq room[q].subs \cup {v}
  BY <1>1, <1>3 DEF Subscribe, Attach, RoomRec
<1>5. \A w \in Viewers : w # v => viewer'[w] = viewer[w]
  BY <1>1 DEF Subscribe, Attach
<1>6. room[r].ring \in Seq(HubEvents) /\ room[r].session \in Feeds \cup {NoFeed} /\ Aired(r) \in 0 .. MaxEvents
  <2>1. room[r] \in RoomRec
    BY <1>1, <1>3
  <2>2. Aired(r) \in 0 .. MaxEvents
    BY <1>3, AiredTyped
  <2> QED BY <2>1, <2>2 DEF RoomRec
<1>7. /\ viewer'[v].pc = "backlog" /\ viewer'[v].room = r /\ viewer'[v].backlog = room[r].ring
      /\ viewer'[v].joined = JoinPoint(r) /\ viewer'[v].taken = << >> /\ viewer'[v].queue = << >>
  <2>1. PICK n \in ViewerRec : n = NewViewer /\ n.taken = << >> /\ n.queue = << >>
    <3>1. OffAirMessage \in Joined
      BY SizesAssumption DEF OffAirMessage, Joined
    <3>2. NewViewer \in ViewerRec /\ NewViewer.taken = << >> /\ NewViewer.queue = << >>
      BY <3>1 DEF NewViewer, ViewerRec, ViewerPoints
    <3> QED BY <3>2
  <2>2. PICK ring : ring = room[r].ring
    OBVIOUS
  <2>3. PICK j : j = JoinPoint(r)
    OBVIOUS
  <2>4. PICK q : q = r
    OBVIOUS
  <2>5. PICK x : x = [n EXCEPT !.pc = "backlog", !.room = q, !.backlog = ring, !.joined = j]
    OBVIOUS
  <2>6. viewer' = [viewer EXCEPT ![v] = x]
    BY <2>1, <2>2, <2>3, <2>4, <2>5, Zenon DEF Subscribe, Attach
  <2>7. x.pc = "backlog" /\ x.room = q /\ x.backlog = ring /\ x.joined = j /\ x.taken = n.taken /\ x.queue = n.queue
    BY <2>1, <2>5 DEF ViewerRec
  <2> QED BY <1>1, <2>1, <2>2, <2>3, <2>4, <2>6, <2>7
<1>8. \A q \in RoomIds : Aired(q)' = Aired(q)
  BY <1>2, <1>4 DEF Aired
<1>9. Sessions' /\ Quiet' /\ Rings' /\ RoomDrained'
  <2>1. Sessions' /\ Quiet'
    BY <1>2, <1>4 DEF StreamInv, Sessions, Quiet, Holding
  <2>2. Rings'
    BY <1>4, <1>8 DEF StreamInv, Rings, Window
  <2>3. RoomDrained'
    BY <1>5, <1>7 DEF StreamInv, RoomDrained
  <2> QED BY <2>1, <2>2, <2>3
<1>10. Aired(r) \in Nat
  BY <1>6, SizesAssumption
<1>11. Stream(v)' = room[r].ring
  <2>1. Stream(v)' = << >> \o room[r].ring \o << >>
    BY <1>7 DEF Stream, Writing
  <2>2. << >> \o room[r].ring = room[r].ring /\ room[r].ring \o << >> = room[r].ring
    BY <1>6, <1>10, ConcatEmptySeq
  <2> QED BY <2>1, <2>2
<1>12. viewer'[v].joined.n = Aired(r)
  BY <1>7 DEF JoinPoint, Aired, OffAirMessage
<1>13. FirstOwed(v)' = IF Aired(r) > RingSize THEN Aired(r) - RingSize + 1 ELSE 1
  BY <1>12 DEF FirstOwed
<1>14. Window(room[r].ring, room[r].session, Aired(r))
  BY <1>3 DEF StreamInv, Rings
<1>15. /\ Len(Stream(v)') = Aired(r) + 1 - FirstOwed(v)'
       /\ \A i \in 1 .. Len(Stream(v)') : Stream(v)'[i] = [feed |-> room[r].session, n |-> FirstOwed(v)' - 1 + i]
  <2>1. RingSize \in Nat
    BY SizesAssumption
  <2>2. Len(room[r].ring) = Aired(r) + 1 - FirstOwed(v)' /\ Len(room[r].ring) \in Nat
    BY <1>6, <1>10, <1>13, <1>14, <2>1 DEF Window
  <2>3. \A i \in 1 .. Len(room[r].ring) : Aired(r) - Len(room[r].ring) + i = FirstOwed(v)' - 1 + i
    BY <1>6, <1>10, <1>13, <2>1, <2>2
  <2> QED BY <1>11, <1>14, <2>2, <2>3 DEF Window
<1>16. Aired(viewer[v].room)' = Aired(r) /\ room'[r].session = room[r].session
  BY <1>3, <1>4, <1>7, <1>8 DEF Aired
<1>17. UpToDate(v)'
  BY <1>7, <1>6, <1>10, <1>12, <1>15, <1>16 DEF UpToDate
<1>18. Whole(v)'
  BY <1>6, <1>10, <1>15 DEF Whole
<1>19. ASSUME NEW w \in Viewers, w # v PROVE Whole(w)' /\ (Attached(w)' /\ Writing(w)' => UpToDate(w)')
  <2>1. viewer'[w] = viewer[w] /\ viewer[w].room \in RoomIds \cup {NoRoom}
    BY <1>1, <1>5, <1>19 DEF ViewerRec
  <2>2. Attached(w)' => Attached(w)
    BY <1>4, <1>19, <2>1 DEF Attached
  <2> QED BY <1>4, <1>8, <2>1, <2>2, BystanderStays
<1> QED BY <1>9, <1>17, <1>18, <1>19 DEF StreamInv

\* A channel that is idle has aired nothing to those who wait in its room.
LEMMA StreamPublish == ASSUME HubInv, HubInv', StreamInv, NEW f \in Feeds, Publish(f) PROVE StreamInv'
<1> DEFINE r == RoomFor(ChannelOf[f])
<1>1. room \in [RoomIds -> RoomRec] /\ feed \in [Feeds -> FeedRec]
  BY DEF HubInv, RoomOK, FeedOK
<1>2. feed[f].pc = "dial" /\ UNCHANGED <<done, viewer, gone, gcWait, collector>>
  BY DEF Publish
<1>3. feed[f].cast = "off" /\ feed[f].sent = 0 /\ f \notin Holding
  BY <1>2 DEF HubInv, Begun, StreamInv, Quiet, Holding
<1>4. r \in RoomIds
  <2>1. f \in Handlers /\ f \notin Arrived /\ ChannelOf[f] \in HubChannels
    BY <1>2, HandlersAssumption DEF Handlers, Arrived
  <2> QED BY <2>1, RoomForOne
<1>5. CASE feed' = [feed EXCEPT ![f].pc = "rejected"] /\ UNCHANGED <<rooms, published, room>>
  <2>1. \A g \in Feeds : /\ feed'[g].sent = feed[g].sent /\ feed'[g].room = feed[g].room /\ feed'[g].cast = feed[g].cast
                         /\ g # f => feed'[g] = feed[g]
    BY <1>1, <1>5 DEF FeedRec
  <2>2. \A g \in Feeds : g \in Holding => g \in Holding'
    BY <1>3, <2>1 DEF Holding
  <2> QED BY <1>2, <1>5, <2>1, <2>2, FeedsOnly
<1>6. CASE /\ ~Busy(r)
           /\ room' = [room EXCEPT ![r].publisher = TRUE, ![r].session = f, ![r].ring = << >>]
           /\ feed' = [feed EXCEPT ![f].pc = "starting", ![f].room = r]
  <2>1. \A g \in Feeds : /\ feed'[g].sent = feed[g].sent /\ feed'[g].cast = feed[g].cast
                         /\ g # f => feed'[g] = feed[g]
    BY <1>1, <1>6 DEF FeedRec
  <2>2. feed'[f].pc = "starting" /\ feed'[f].room = r
    BY <1>1, <1>6 DEF FeedRec
  <2>3. /\ room'[r].publisher /\ room'[r].session = f /\ room'[r].ring = << >>
        /\ \A q \in RoomIds : room'[q].subs = room[q].subs /\ (q # r => room'[q] = room[q])
    BY <1>1, <1>4, <1>6, RoomTaken, Zenon
  <2>4. room[r].session = NoFeed /\ \A q \in RoomIds : room[q].session \in Feeds \cup {NoFeed} /\ room[q].session # f
    <3>1. \A q \in RoomIds : room[q].session \in Feeds \cup {NoFeed}
      BY <1>1 DEF RoomRec
    <3> QED BY <1>3, <1>4, <1>6, <3>1, HandlersAssumption DEF Busy, StreamInv, Sessions
  <2>5. \A q \in RoomIds : Aired(q)' = Aired(q)
    BY <1>3, <2>1, <2>3, <2>4, HandlersAssumption DEF Aired
  <2>6. Aired(r) = 0
    BY <2>4 DEF Aired
  <2>7. \A q \in RoomIds : Window(room'[q].ring, room'[q].session, Aired(q))
    <3>1. Window(<< >>, f, 0)
      BY SizesAssumption DEF Window
    <3>2. \A q \in RoomIds : Window(room[q].ring, room[q].session, Aired(q))
      BY DEF StreamInv, Rings
    <3> QED BY <2>3, <2>6, <3>1, <3>2
  <2>8. Quiet'
    BY <2>1 DEF StreamInv, Quiet
  <2>9. Sessions'
    <3> SUFFICES ASSUME NEW q \in RoomIds
                 PROVE  /\ room'[q].publisher <=> room'[q].session # NoFeed
                        /\ room'[q].session # NoFeed => room'[q].session \in Holding' /\ feed'[room'[q].session].room = q
      BY DEF Sessions
    <3>1. CASE q = r
      BY <1>4, <2>2, <2>3, <3>1, HandlersAssumption DEF Holding
    <3>2. CASE q # r
      BY <2>1, <2>3, <2>4, <3>2 DEF StreamInv, Sessions, Holding
    <3> QED BY <3>1, <3>2
  <2>10. \A q \in RoomIds : room'[q].session = room[q].session \/ Aired(q) = 0
    BY <2>3, <2>6
  <2> QED BY <1>2, <2>3, <2>5, <2>7, <2>8, <2>9, <2>10, RoomsMove
<1> QED BY <1>5, <1>6 DEF Publish

\* A session that did not start has aired nothing.
LEMMA StreamStartFails == ASSUME HubInv, HubInv', StreamInv, NEW f \in Feeds, SessionStartFails(f) PROVE StreamInv'
<1>1. room \in [RoomIds -> RoomRec] /\ feed \in [Feeds -> FeedRec]
  BY DEF HubInv, RoomOK, FeedOK
<1>2. feed[f].pc = "starting" /\ UNCHANGED viewer
  BY DEF SessionStartFails
<1>3. feed[f].cast = "off" /\ feed[f].sent = 0 /\ f \in Holding
  BY <1>2 DEF HubInv, Begun, StreamInv, Quiet, Holding
<1>4. PICK r \in RoomIds : r = feed[f].room
  BY <1>3, HolderRoom
<1>5. room[r].session = f /\ \A q \in RoomIds : q # r => room[q].session # f
  BY <1>3, <1>4, HandlersAssumption DEF HubInv, Held, StreamInv, Sessions
<1>6. \A g \in Feeds : /\ feed'[g].sent = feed[g].sent /\ feed'[g].cast = feed[g].cast
                       /\ g # f => feed'[g] = feed[g]
  BY <1>1 DEF SessionStartFails, FeedRec
<1>7. PICK b \in BOOLEAN : b = FALSE
  OBVIOUS
<1>8. room' = [room EXCEPT ![r] = [room[r] EXCEPT !.publisher = b, !.session = NoFeed]]
  BY <1>4, <1>7, Zenon DEF SessionStartFails
<1>9. /\ ~room'[r].publisher /\ room'[r].session = NoFeed /\ room'[r].ring = room[r].ring
      /\ \A q \in RoomIds : room'[q].subs = room[q].subs /\ (q # r => room'[q] = room[q])
  BY <1>1, <1>7, <1>8 DEF RoomRec
<1>10. \A q \in RoomIds : room[q].session \in Feeds \cup {NoFeed}
  BY <1>1 DEF RoomRec
<1>11. Aired(r) = 0 /\ \A q \in RoomIds : Aired(q)' = Aired(q)
  BY <1>3, <1>5, <1>6, <1>9, <1>10, HandlersAssumption DEF Aired
<1>12. \A q \in RoomIds : Window(room'[q].ring, room'[q].session, Aired(q))
  <2>1. \A q \in RoomIds : Window(room[q].ring, room[q].session, Aired(q))
    BY DEF StreamInv, Rings
  <2>2. Window(room'[r].ring, NoFeed, 0)
    BY <1>9, <1>11, <2>1, SizesAssumption DEF Window
  <2> QED BY <1>9, <1>11, <2>1, <2>2
<1>13. Quiet'
  BY <1>6 DEF StreamInv, Quiet
<1>14. Sessions'
  BY <1>5, <1>6, <1>9, <1>10 DEF StreamInv, Sessions, Holding
<1>15. \A q \in RoomIds : room'[q].session = room[q].session \/ Aired(q) = 0
  BY <1>9, <1>11
<1> QED BY <1>2, <1>9, <1>11, <1>12, <1>13, <1>14, <1>15, RoomsMove

\* The ring slides with every event, and stays the window of the last ones.
LEMMA PushSlides ==
  ASSUME NEW ring \in Seq(HubEvents), NEW f, NEW n \in Nat, Window(ring, f, n), NEW ev \in HubEvents, ev = [feed |-> f, n |-> n + 1]
  PROVE  Window(Push(ring, ev), f, n + 1)
<1>1. RingSize \in Nat \ {0} /\ Len(ring) \in Nat
  BY SizesAssumption, LenProperties
<1>2. Len(ring) = IF n < RingSize THEN n ELSE RingSize
  BY DEF Window
<1>3. \A i \in 1 .. Len(ring) : ring[i] = [feed |-> f, n |-> n - Len(ring) + i]
  BY DEF Window
<1>4. PICK longer \in Seq(HubEvents) :
        /\ longer = Append(ring, ev) /\ longer # << >> /\ Len(longer) = Len(ring) + 1
        /\ longer[Len(ring) + 1] = ev /\ \A i \in 1 .. Len(ring) : longer[i] = ring[i]
  <2>1. /\ Append(ring, ev) \in Seq(HubEvents) /\ Append(ring, ev) # << >> /\ Len(Append(ring, ev)) = Len(ring) + 1
        /\ Append(ring, ev)[Len(ring) + 1] = ev /\ \A i \in 1 .. Len(ring) : Append(ring, ev)[i] = ring[i]
    BY AppendProperties
  <2> QED BY <2>1
<1>5. \A i \in 1 .. Len(ring) + 1 : longer[i] = [feed |-> f, n |-> n - Len(ring) + i]
  <2> SUFFICES ASSUME NEW i \in 1 .. Len(ring) + 1 PROVE longer[i] = [feed |-> f, n |-> n - Len(ring) + i]
    OBVIOUS
  <2>1. CASE i \in 1 .. Len(ring)
    BY <1>3, <1>4, <2>1
  <2>2. CASE i = Len(ring) + 1
    <3>1. n - Len(ring) + i = n + 1
      BY <1>1, <2>2
    <3> QED BY <1>4, <2>2, <3>1
  <2> QED BY <1>1, <2>1, <2>2
<1>6. CASE Len(ring) < RingSize
  <2>1. Push(ring, ev) = longer /\ n = Len(ring)
    BY <1>1, <1>2, <1>4, <1>6 DEF Push
  <2>2. Len(longer) = IF n + 1 < RingSize THEN n + 1 ELSE RingSize
    BY <1>1, <1>4, <1>6, <2>1
  <2>3. \A i \in 1 .. Len(longer) : longer[i] = [feed |-> f, n |-> (n + 1) - Len(longer) + i]
    <3>1. \A i \in 1 .. Len(longer) : (n + 1) - Len(longer) + i = n - Len(ring) + i
      BY <1>1, <1>4
    <3> QED BY <1>4, <1>5, <3>1
  <2> QED BY <2>1, <2>2, <2>3 DEF Window
<1>7. CASE ~(Len(ring) < RingSize)
  <2>1. Push(ring, ev) = Tail(longer)
    BY <1>4, <1>7 DEF Push
  <2>2. Len(Tail(longer)) = Len(ring) /\ \A i \in 1 .. Len(Tail(longer)) : Tail(longer)[i] = longer[i + 1]
    BY <1>1, <1>4, HeadTailProperties
  <2>3. Len(Tail(longer)) = IF n + 1 < RingSize THEN n + 1 ELSE RingSize
    BY <1>1, <1>2, <1>7, <2>2
  <2>4. \A i \in 1 .. Len(Tail(longer)) : Tail(longer)[i] = [feed |-> f, n |-> (n + 1) - Len(Tail(longer)) + i]
    <3> SUFFICES ASSUME NEW i \in 1 .. Len(Tail(longer)) PROVE Tail(longer)[i] = [feed |-> f, n |-> (n + 1) - Len(Tail(longer)) + i]
      OBVIOUS
    <3>1. i \in 1 .. Len(ring) /\ Len(Tail(longer)) = Len(ring)
      BY <2>2
    <3>2. i + 1 \in 1 .. Len(ring) + 1 /\ n - Len(ring) + (i + 1) = (n + 1) - Len(ring) + i
      BY <1>1, <3>1
    <3>3. longer[i + 1] = [feed |-> f, n |-> n - Len(ring) + (i + 1)]
      BY <1>5, <3>2
    <3> QED BY <2>2, <3>1, <3>2, <3>3
  <2> QED BY <2>1, <2>3, <2>4 DEF Window
<1> QED BY <1>6, <1>7

\* A viewer with room in its channel gets the next event, a slow one is let go.
LEMMA StreamBroadcast == ASSUME HubInv, HubInv', StreamInv, NEW f \in Feeds, BroadcastEvent(f) PROVE StreamInv'
<1>1. room \in [RoomIds -> RoomRec] /\ feed \in [Feeds -> FeedRec] /\ viewer \in [Viewers -> ViewerRec]
  BY DEF HubInv, RoomOK, FeedOK, ViewersOK
<1>2. feed[f].cast = "run" /\ feed[f].sent < MaxEvents /\ f \in Holding
  BY DEF BroadcastEvent, Holding
<1>3. PICK r \in RoomIds : r = feed[f].room
  BY <1>2, HolderRoom
<1>4. room[r].session = f /\ \A q \in RoomIds : q # r => room[q].session # f
  BY <1>2, <1>3, HandlersAssumption DEF HubInv, Held, StreamInv, Sessions
<1>5. PICK n \in Nat : n = feed[f].sent /\ n + 1 \in 1 .. MaxEvents
  <2>1. feed[f].sent \in 0 .. MaxEvents
    BY <1>1 DEF FeedRec
  <2>2. feed[f].sent \in Nat /\ feed[f].sent + 1 \in 1 .. MaxEvents
    BY <1>2, <2>1, SizesAssumption
  <2> QED BY <2>2
<1>6. PICK ev \in HubEvents : ev = [feed |-> f, n |-> n + 1]
  BY <1>5 DEF HubEvents
<1>7. Aired(r) = n
  BY <1>4, <1>5, HandlersAssumption DEF Aired
<1>8. /\ feed'[f].sent = n + 1
      /\ \A g \in Feeds : /\ feed'[g].pc = feed[g].pc /\ feed'[g].cast = feed[g].cast /\ feed'[g].room = feed[g].room
                          /\ g # f => feed'[g] = feed[g]
  BY <1>1, <1>5 DEF BroadcastEvent, FeedRec
<1>9. /\ room'[r].session = f /\ room'[r].publisher = room[r].publisher
      /\ room'[r].ring = Push(room[r].ring, ev) /\ room'[r].subs = FastSubs(r)
      /\ \A q \in RoomIds : q # r => room'[q] = room[q]
  <2>1. PICK ring : ring = Push(room[r].ring, ev)
    OBVIOUS
  <2>2. PICK subs : subs = FastSubs(r)
    OBVIOUS
  <2>3. room' = [room EXCEPT ![r] = [room[r] EXCEPT !.ring = ring, !.subs = subs]]
    BY <1>3, <1>5, <1>6, <2>1, <2>2, Zenon DEF BroadcastEvent
  <2>4. /\ room'[r].session = room[r].session /\ room'[r].publisher = room[r].publisher
        /\ room'[r].ring = ring /\ room'[r].subs = subs
        /\ \A q \in RoomIds : q # r => room'[q] = room[q]
    BY <1>1, <2>3 DEF RoomRec
  <2> QED BY <1>4, <2>1, <2>2, <2>4
<1>10. \A q \in RoomIds : room[q].session \in Feeds \cup {NoFeed} /\ room[q].ring \in Seq(HubEvents)
  BY <1>1 DEF RoomRec
<1>11. Aired(r)' = n + 1 /\ \A q \in RoomIds : q # r => Aired(q)' = Aired(q)
  <2>1. Aired(r)' = n + 1
    BY <1>8, <1>9, HandlersAssumption DEF Aired
  <2> QED BY <1>4, <1>8, <1>9, <1>10, <2>1 DEF Aired
<1>12. Rings'
  <2> SUFFICES ASSUME NEW q \in RoomIds PROVE Window(room'[q].ring, room'[q].session, Aired(q)')
    BY DEF Rings, Window
  <2>1. Window(room[q].ring, room[q].session, Aired(q))
    BY DEF StreamInv, Rings
  <2>2. CASE q = r
    <3>1. Window(room[r].ring, f, n)
      BY <1>4, <1>7, <2>1, <2>2
    <3>2. Window(Push(room[r].ring, ev), f, n + 1)
      BY <1>6, <1>10, <3>1, PushSlides
    <3> QED BY <1>9, <1>11, <2>2, <3>2
  <2>3. CASE q # r
    BY <1>9, <1>11, <2>1, <2>3
  <2> QED BY <2>2, <2>3
<1>13. Sessions'
  BY <1>2, <1>3, <1>4, <1>8, <1>9, <1>10 DEF StreamInv, Sessions, Holding
<1>14. Quiet'
  BY <1>2, <1>8 DEF StreamInv, Quiet
<1>15. viewer' = [v \in Viewers |->
             IF v \notin room[r].subs THEN viewer[v]
             ELSE IF Slow(v) THEN [viewer[v] EXCEPT !.chan = "slow"]
             ELSE [viewer[v] EXCEPT !.queue = Append(@, ev)]]
  BY <1>3, <1>5, <1>6, Zenon DEF BroadcastEvent
<1>16. ASSUME NEW v \in Viewers
       PROVE  /\ viewer'[v].pc = viewer[v].pc /\ viewer'[v].backlog = viewer[v].backlog
              /\ Whole(v)' /\ (Attached(v)' /\ Writing(v)' => UpToDate(v)')
  <2>1. PICK w \in ViewerRec : w = viewer[v]
    BY <1>1
  <2>2. CASE v \notin room[r].subs
    <3>1. viewer'[v] = viewer[v]
      BY <1>15, <2>2
    <3>2. ((Attached(v)' => Attached(v)) /\ viewer[v].room # r) \/ ~Attached(v)'
      <4>1. w.room \in RoomIds \cup {NoRoom}
        BY <2>1 DEF ViewerRec
      <4> QED BY <1>9, <2>1, <2>2, <3>1, <4>1 DEF Attached, FastSubs
    <3>3. CASE ~Attached(v)'
      BY <3>1, <3>3, StreamOf DEF StreamInv
    <3>4. CASE (Attached(v)' => Attached(v)) /\ viewer[v].room # r
      BY <1>9, <1>11, <3>1, <3>4, BystanderStays
    <3> QED BY <3>1, <3>2, <3>3, <3>4
  <2>3. CASE v \in room[r].subs /\ Slow(v)
    <3>1. viewer'[v] = [w EXCEPT !.chan = "slow"]
      BY <1>15, <2>1, <2>3, Zenon
    <3>2. /\ viewer'[v].pc = w.pc /\ viewer'[v].backlog = w.backlog /\ viewer'[v].taken = w.taken
          /\ viewer'[v].queue = w.queue /\ viewer'[v].joined = w.joined /\ viewer'[v].room = w.room
      BY <2>1, <3>1 DEF ViewerRec
    <3>3. viewer[v].room = r /\ Attached(v) /\ viewer[v].chan = "open" /\ ~Attached(v)'
      <4>1. viewer[v].room = r
        BY <2>3 DEF HubInv, SubsOwn
      <4> QED BY <1>9, <2>1, <2>3, <3>2, <4>1 DEF HubInv, OpenWhileAttached, Attached, FastSubs, NoRoom, RoomIds
    <3>4. Stream(v)' = Stream(v)
      BY <2>1, <3>2 DEF Stream, Writing
    <3> QED BY <2>1, <3>2, <3>3, <3>4, StreamStops
  <2>4. CASE v \in room[r].subs /\ ~Slow(v)
    <3>1. viewer'[v] = [w EXCEPT !.queue = Append(w.queue, ev)]
      BY <1>15, <2>1, <2>4, Zenon
    <3>2. PICK queue : queue = Append(w.queue, ev)
      OBVIOUS
    <3>3. /\ viewer'[v].pc = w.pc /\ viewer'[v].backlog = w.backlog /\ viewer'[v].taken = w.taken
          /\ viewer'[v].queue = queue /\ viewer'[v].joined = w.joined /\ viewer'[v].room = w.room
          /\ viewer'[v].chan = w.chan
      BY <2>1, <3>1, <3>2 DEF ViewerRec
    <3>4. viewer[v].room = r /\ Attached(v)
      <4>1. viewer[v].room = r
        BY <2>4 DEF HubInv, SubsOwn
      <4> QED BY <2>4, <4>1 DEF Attached, NoRoom, RoomIds
    <3>5. CASE ~Writing(v)
      <4>1. Stream(v)' = Stream(v) /\ ~Writing(v)'
        BY <2>1, <3>3, <3>5 DEF Stream, Writing
      <4> QED BY <2>1, <3>3, <4>1, StreamStops
    <3>6. CASE Writing(v)
      <4>1. UpToDate(v)
        BY <3>4, <3>6 DEF StreamInv
      <4>2. PICK s \in Seq(Messages), m \in Nat : s = Stream(v) /\ m = FirstOwed(v) /\ Len(s) \in Nat /\ m # 0
        BY StreamTyped
      <4>3. PICK t \in Seq(Messages) : /\ t = Append(s, ev) /\ Len(t) = Len(s) + 1 /\ t[Len(s) + 1] = ev
                                       /\ \A i \in 1 .. Len(s) : t[i] = s[i]
        <5>1. ev \in Messages
          BY <1>6 DEF Messages
        <5>2. /\ Append(s, ev) \in Seq(Messages) /\ Len(Append(s, ev)) = Len(s) + 1 /\ Append(s, ev)[Len(s) + 1] = ev
              /\ \A i \in 1 .. Len(s) : Append(s, ev)[i] = s[i]
          BY <5>1, AppendProperties
        <5> QED BY <5>2
      <4>4. Stream(v)' = t /\ FirstOwed(v)' = m
        <5>1. w.taken \in Seq(Messages) /\ w.backlog \in Seq(Messages) /\ w.queue \in Seq(Messages) /\ ev \in Messages
          BY <1>6, <2>1, StreamTyped DEF Messages
        <5>2. s = w.taken \o w.backlog \o w.queue /\ w.taken \o w.backlog \in Seq(Messages)
          BY <2>1, <3>6, <4>2, <5>1, ConcatProperties DEF Stream
        <5>3. (w.taken \o w.backlog) \o Append(w.queue, ev) = Append((w.taken \o w.backlog) \o w.queue, ev)
          <6>1. PICK a \in Seq(Messages), b \in Seq(Messages) : a = w.taken \o w.backlog /\ b = w.queue
            BY <5>1, <5>2
          <6>2. a \o Append(b, ev) = Append(a \o b, ev)
            BY <5>1, AppendMovesOut
          <6> QED BY <6>1, <6>2
        <5>4. Stream(v)' = w.taken \o w.backlog \o queue
          BY <2>1, <3>3, <3>6 DEF Stream, Writing
        <5>5. FirstOwed(v)' = FirstOwed(v)
          BY <2>1, <3>3 DEF FirstOwed
        <5> QED BY <3>2, <4>2, <4>3, <5>2, <5>3, <5>4, <5>5
      <4>5. /\ w.joined.n <= n /\ Len(s) = n + 1 - m
            /\ \A i \in 1 .. Len(s) : s[i] = [feed |-> f, n |-> m - 1 + i]
        BY <1>4, <1>7, <2>1, <3>4, <4>1, <4>2 DEF UpToDate
      <4>6. Len(t) = (n + 1) + 1 - m /\ \A i \in 1 .. Len(t) : t[i] = [feed |-> f, n |-> m - 1 + i]
        <5>1. m - 1 + (Len(s) + 1) = n + 1 /\ Len(t) = (n + 1) + 1 - m
          BY <4>2, <4>3, <4>5
        <5> SUFFICES ASSUME NEW i \in 1 .. Len(t) PROVE t[i] = [feed |-> f, n |-> m - 1 + i]
          BY <5>1
        <5>2. CASE i \in 1 .. Len(s)
          BY <4>3, <4>5, <5>2
        <5>3. CASE i = Len(s) + 1
          BY <1>6, <4>3, <5>1, <5>3
        <5> QED BY <4>2, <4>3, <5>2, <5>3
      <4>7. Aired(viewer[v].room)' = n + 1 /\ viewer'[v].room = r
        BY <1>11, <2>1, <3>3, <3>4 DEF Aired
      <4>8. w.joined.n <= n + 1
        <5>1. w.joined.n \in 0 .. MaxEvents
          BY DEF ViewerRec, Joined
        <5> QED BY <4>5, <5>1, SizesAssumption
      <4>9. UpToDate(v)'
        BY <1>9, <3>3, <4>4, <4>6, <4>7, <4>8 DEF UpToDate
      <4>10. Whole(v)'
        BY <4>4, <4>6 DEF Whole
      <4> QED BY <2>1, <3>3, <4>9, <4>10
    <3> QED BY <3>5, <3>6
  <2> QED BY <2>2, <2>3, <2>4
<1>17. RoomDrained'
  BY <1>16 DEF StreamInv, RoomDrained
<1> QED BY <1>12, <1>13, <1>14, <1>16, <1>17 DEF StreamInv

\* The session's viewers hear off air, if they have room, and are let go.
LEMMA StreamEnd == ASSUME HubInv, HubInv', StreamInv, NEW f \in Feeds, EndSession(f) PROVE StreamInv'
<1>1. room \in [RoomIds -> RoomRec] /\ feed \in [Feeds -> FeedRec] /\ viewer \in [Viewers -> ViewerRec]
  BY DEF HubInv, RoomOK, FeedOK, ViewersOK
<1>2. feed[f].cast = "run" /\ f \in Holding
  BY DEF EndSession, Holding
<1>3. PICK r \in RoomIds : r = feed[f].room
  BY <1>2, HolderRoom
<1>4. room[r].session = f /\ \A q \in RoomIds : q # r => room[q].session # f
  BY <1>2, <1>3, HandlersAssumption DEF HubInv, Held, StreamInv, Sessions
<1>5. feed'[f].sent = feed[f].sent /\ feed'[f].cast = "ended" /\ \A g \in Feeds : g # f => feed'[g] = feed[g]
  BY <1>1 DEF EndSession, FeedRec
<1>6. room'[r] = EmptyRoom /\ \A q \in RoomIds : q # r => room'[q] = room[q]
  BY <1>1, <1>3 DEF EndSession
<1>7. \A q \in RoomIds : room[q].session \in Feeds \cup {NoFeed}
  BY <1>1 DEF RoomRec
<1>8. EmptyRoom.session = NoFeed /\ ~EmptyRoom.publisher /\ EmptyRoom.ring = << >> /\ EmptyRoom.subs = {}
  BY DEF EmptyRoom
<1>9. Aired(r)' = 0 /\ \A q \in RoomIds : q # r => Aired(q)' = Aired(q)
  BY <1>4, <1>5, <1>6, <1>7, <1>8 DEF Aired
<1>10. Rings'
  <2> SUFFICES ASSUME NEW q \in RoomIds PROVE Window(room'[q].ring, room'[q].session, Aired(q)')
    BY DEF Rings, Window
  <2>1. CASE q = r
    BY <1>6, <1>8, <1>9, <2>1, SizesAssumption DEF Window
  <2>2. CASE q # r
    BY <1>6, <1>9, <2>2 DEF StreamInv, Rings
  <2> QED BY <2>1, <2>2
<1>11. Sessions'
  BY <1>4, <1>5, <1>6, <1>7, <1>8 DEF StreamInv, Sessions, Holding
<1>12. Quiet'
  BY <1>5 DEF StreamInv, Quiet
<1>13. viewer' = [v \in Viewers |->
             IF v \in room[r].subs
             THEN [viewer[v] EXCEPT !.queue = WithOffAir(v), !.chan = "session"]
             ELSE viewer[v]]
  BY <1>3, Zenon DEF EndSession
<1>14. ASSUME NEW v \in Viewers
       PROVE  /\ viewer'[v].pc = viewer[v].pc /\ viewer'[v].backlog = viewer[v].backlog
              /\ Whole(v)' /\ (Attached(v)' /\ Writing(v)' => UpToDate(v)')
  <2>1. PICK w \in ViewerRec : w = viewer[v]
    BY <1>1
  <2>2. CASE v \notin room[r].subs
    <3>1. viewer'[v] = viewer[v]
      BY <1>13, <2>2
    <3>2. w.room \in RoomIds \cup {NoRoom}
      BY DEF ViewerRec
    <3>3. Attached(v)' => Attached(v) /\ viewer[v].room # r
      BY <1>6, <1>8, <2>1, <3>1, <3>2 DEF Attached
    <3>4. CASE ~Attached(v)'
      BY <3>1, <3>4, StreamOf DEF StreamInv
    <3>5. CASE Attached(v) /\ viewer[v].room # r
      BY <1>6, <1>9, <3>1, <3>5, BystanderStays
    <3> QED BY <3>1, <3>3, <3>4, <3>5
  <2>3. CASE v \in room[r].subs
    <3>1. PICK queue : queue = WithOffAir(v)
      OBVIOUS
    <3>2. viewer'[v] = [w EXCEPT !.queue = queue, !.chan = "session"]
      BY <1>13, <2>1, <2>3, <3>1, Zenon
    <3>3. /\ viewer'[v].pc = w.pc /\ viewer'[v].backlog = w.backlog /\ viewer'[v].taken = w.taken
          /\ viewer'[v].queue = queue /\ viewer'[v].joined = w.joined /\ viewer'[v].room = w.room
          /\ viewer'[v].chan = "session"
      BY <2>1, <3>2 DEF ViewerRec
    <3>4. viewer[v].room = r /\ Attached(v) /\ viewer[v].chan = "open" /\ ~Attached(v)'
      <4>1. viewer[v].room = r /\ r # NoRoom
        BY <2>3 DEF HubInv, SubsOwn, NoRoom, RoomIds
      <4>2. Attached(v) /\ viewer[v].chan = "open"
        BY <2>3, <4>1 DEF HubInv, OpenWhileAttached, Attached
      <4> QED BY <1>6, <1>8, <2>1, <3>3, <4>1, <4>2 DEF Attached
    <3>5. FirstOwed(v)' = FirstOwed(v)
      BY <2>1, <3>3 DEF FirstOwed
    <3>6. CASE ~Writing(v) \/ queue = w.queue
      <4>1. Stream(v)' = Stream(v)
        BY <2>1, <3>3, <3>6 DEF Stream, Writing
      <4> QED BY <2>1, <3>3, <3>4, <4>1, StreamStops
    <3>7. CASE Writing(v) /\ queue = Append(w.queue, OffAirMessage)
      <4>1. UpToDate(v)
        BY <3>4, <3>7 DEF StreamInv
      <4>2. PICK s \in Seq(Messages), m \in Nat : s = Stream(v) /\ m = FirstOwed(v) /\ Len(s) \in Nat /\ m # 0
        BY StreamTyped
      <4>3. PICK t \in Seq(Messages) : /\ t = Append(s, OffAirMessage) /\ Len(t) = Len(s) + 1 /\ t[Len(s) + 1] = OffAirMessage
                                       /\ \A i \in 1 .. Len(s) : t[i] = s[i]
        <5>1. OffAirMessage \in Messages
          BY DEF Messages
        <5>2. /\ Append(s, OffAirMessage) \in Seq(Messages) /\ Len(Append(s, OffAirMessage)) = Len(s) + 1
              /\ Append(s, OffAirMessage)[Len(s) + 1] = OffAirMessage
              /\ \A i \in 1 .. Len(s) : Append(s, OffAirMessage)[i] = s[i]
          BY <5>1, AppendProperties
        <5> QED BY <5>2
      <4>4. Stream(v)' = t
        <5>1. w.taken \in Seq(Messages) /\ w.backlog \in Seq(Messages) /\ w.queue \in Seq(Messages) /\ OffAirMessage \in Messages
          BY <2>1, StreamTyped DEF Messages
        <5>2. s = w.taken \o w.backlog \o w.queue /\ w.taken \o w.backlog \in Seq(Messages)
          BY <2>1, <3>7, <4>2, <5>1, ConcatProperties DEF Stream
        <5>3. (w.taken \o w.backlog) \o Append(w.queue, OffAirMessage) = Append((w.taken \o w.backlog) \o w.queue, OffAirMessage)
          <6>1. PICK a \in Seq(Messages), b \in Seq(Messages) : a = w.taken \o w.backlog /\ b = w.queue
            BY <5>1, <5>2
          <6>2. a \o Append(b, OffAirMessage) = Append(a \o b, OffAirMessage)
            BY <5>1, AppendMovesOut
          <6> QED BY <6>1, <6>2
        <5>4. Stream(v)' = w.taken \o w.backlog \o queue
          BY <2>1, <3>3, <3>7 DEF Stream, Writing
        <5> QED BY <3>7, <4>2, <4>3, <5>2, <5>3, <5>4
      <4>5. \A i \in 1 .. Len(s) : s[i] = [feed |-> f, n |-> m - 1 + i]
        BY <1>4, <3>4, <4>1, <4>2 DEF UpToDate
      <4>6. \A i \in 1 .. Len(t) : t[i] = [feed |-> f, n |-> m - 1 + i] \/ (i = Len(t) /\ t[i] = OffAirMessage)
        <5> SUFFICES ASSUME NEW i \in 1 .. Len(t) PROVE t[i] = [feed |-> f, n |-> m - 1 + i] \/ (i = Len(t) /\ t[i] = OffAirMessage)
          OBVIOUS
        <5>1. CASE i \in 1 .. Len(s)
          BY <4>3, <4>5, <5>1
        <5>2. CASE i = Len(s) + 1
          BY <4>3, <5>2
        <5> QED BY <4>2, <4>3, <5>1, <5>2
      <4>7. Whole(v)'
        BY <3>3, <3>5, <4>2, <4>4, <4>6 DEF Whole
      <4> QED BY <2>1, <3>3, <3>4, <4>7
    <3> QED BY <2>1, <3>1, <3>6, <3>7 DEF WithOffAir
  <2> QED BY <2>2, <2>3
<1>15. RoomDrained'
  BY <1>14 DEF StreamInv, RoomDrained
<1> QED BY <1>10, <1>11, <1>12, <1>14, <1>15 DEF StreamInv

LEMMA StreamStep == HubInv /\ HubInv' /\ StreamInv /\ [NextHub]_hubVars => StreamInv'
<1> SUFFICES ASSUME HubInv, HubInv', StreamInv, [NextHub]_hubVars PROVE StreamInv'
  OBVIOUS
<1>1. ASSUME NEW f \in Feeds, FeedStep(f) PROVE StreamInv'
  <2>1. CASE Publish(f)
    BY <2>1, StreamPublish
  <2>2. CASE SessionStartFails(f)
    BY <2>2, StreamStartFails
  <2>3. CASE BroadcastEvent(f)
    BY <2>3, StreamBroadcast
  <2>4. CASE EndSession(f)
    BY <2>4, StreamEnd
  <2> QED BY <1>1, <2>1, <2>2, <2>3, <2>4, FeedsOnlySteps DEF FeedStep
<1>2. ASSUME NEW v \in Viewers, ViewerStep(v) PROVE StreamInv'
  <2>1. CASE Subscribe(v)
    BY <2>1, StreamSubscribe
  <2>2. CASE CloseViewer(v)
    BY <2>2, StreamClose
  <2> QED BY <1>2, <2>1, <2>2, ViewerWritesSteps, FeedsOnlySteps DEF ViewerStep
<1> QED BY <1>1, <1>2, FeedsOnlySteps DEF NextHub

\* The closed form says all that StreamWhole asks.
LEMMA StreamInvWhole == HubInv /\ StreamInv => StreamWhole
<1> SUFFICES ASSUME HubInv, StreamInv PROVE StreamWhole
  OBVIOUS
<1>1. ASSUME NEW v \in Viewers
      PROVE  LET s == Stream(v)
             IN /\ \A k \in 1 .. Len(s) - 1 : Follows(s[k], s[k + 1])
                /\ s # << >> /\ s[1] # OffAirMessage => s[1].n = FirstOwed(v)
                /\ \A k \in 1 .. Len(s) : s[k] = OffAirMessage => k = Len(s) /\ viewer[v].chan = "session"
  <2>1. PICK s \in Seq(Messages), m \in Nat : s = Stream(v) /\ m = FirstOwed(v) /\ Len(s) \in Nat /\ m # 0
    BY StreamTyped
  <2>2. PICK f \in Feeds \cup {NoFeed} : \A i \in 1 .. Len(s) :
           s[i] = [feed |-> f, n |-> m - 1 + i] \/ (i = Len(s) /\ s[i] = OffAirMessage /\ viewer[v].chan = "session")
    BY <2>1 DEF StreamInv, Whole
  <2>3. \A k \in 1 .. Len(s) - 1 : Follows(s[k], s[k + 1])
    <3> SUFFICES ASSUME NEW k \in 1 .. Len(s) - 1 PROVE Follows(s[k], s[k + 1])
      OBVIOUS
    <3>1. k \in 1 .. Len(s) /\ k + 1 \in 1 .. Len(s) /\ k # Len(s) /\ m - 1 + (k + 1) = (m - 1 + k) + 1
      BY <2>1
    <3>2. s[k] = [feed |-> f, n |-> m - 1 + k]
      BY <2>2, <3>1
    <3>3. s[k + 1] = [feed |-> f, n |-> m - 1 + (k + 1)] \/ s[k + 1] = OffAirMessage
      BY <2>2, <3>1
    <3> QED BY <3>1, <3>2, <3>3 DEF Follows
  <2>4. s # << >> /\ s[1] # OffAirMessage => s[1].n = m
    <3> SUFFICES ASSUME s # << >>, s[1] # OffAirMessage PROVE s[1].n = m
      OBVIOUS
    <3>1. 1 \in 1 .. Len(s)
      BY <2>1, EmptySeq
    <3>2. s[1] = [feed |-> f, n |-> m - 1 + 1]
      BY <2>2, <3>1
    <3> QED BY <2>1, <3>2
  <2>5. \A k \in 1 .. Len(s) : s[k] = OffAirMessage => k = Len(s) /\ viewer[v].chan = "session"
    <3> SUFFICES ASSUME NEW k \in 1 .. Len(s), s[k] = OffAirMessage PROVE k = Len(s) /\ viewer[v].chan = "session"
      OBVIOUS
    <3>1. PICK n \in Nat : n = m - 1 + k /\ n # 0
      BY <2>1
    <3>2. [feed |-> f, n |-> n] # OffAirMessage
      BY <3>1 DEF OffAirMessage
    <3> QED BY <2>2, <3>1, <3>2
  <2> QED BY <2>1, <2>3, <2>4, <2>5
<1>2. ASSUME NEW v \in Viewers, Attached(v), Writing(v), room[viewer[v].room].session # NoFeed,
             feed[room[viewer[v].room].session].sent > 0
      PROVE  /\ Stream(v) # << >>
             /\ Stream(v)[Len(Stream(v))]
                  = [feed |-> room[viewer[v].room].session, n |-> feed[room[viewer[v].room].session].sent]
  <2>1. PICK s \in Seq(Messages), m \in Nat : s = Stream(v) /\ m = FirstOwed(v) /\ Len(s) \in Nat /\ m # 0
    BY StreamTyped
  <2>2. PICK r \in RoomIds : r = viewer[v].room
    BY <1>2 DEF HubInv, ViewersOK, ViewerRec, Attached
  <2>3. PICK n \in Nat : n = feed[room[r].session].sent /\ n = Aired(r)
    <3>1. Aired(r) \in Nat
      BY AiredTyped, SizesAssumption
    <3> QED BY <1>2, <2>2, <3>1 DEF Aired
  <2>4. /\ viewer[v].joined.n <= n /\ Len(s) = n + 1 - m
        /\ \A i \in 1 .. Len(s) : s[i] = [feed |-> room[r].session, n |-> m - 1 + i]
    BY <1>2, <2>1, <2>2, <2>3 DEF StreamInv, UpToDate
  <2>5. m <= n
    <3>1. viewer[v].joined.n \in 0 .. MaxEvents
      BY DEF HubInv, ViewersOK, ViewerRec, Joined
    <3>2. PICK j \in Nat : j = viewer[v].joined.n /\ j <= n
      BY <2>4, <3>1, SizesAssumption
    <3>3. m = IF j > RingSize THEN j - RingSize + 1 ELSE 1
      BY <2>1, <3>2 DEF FirstOwed
    <3>4. RingSize \in Nat \ {0} /\ n > 0
      BY <1>2, <2>2, <2>3, SizesAssumption
    <3>5. CASE j > RingSize
      BY <3>2, <3>3, <3>4, <3>5
    <3>6. CASE ~(j > RingSize)
      BY <3>3, <3>4, <3>6
    <3> QED BY <3>5, <3>6
  <2>6. Len(s) \in 1 .. Len(s) /\ m - 1 + Len(s) = n
    BY <2>1, <2>4, <2>5
  <2>7. s # << >>
    BY <2>6
  <2>8. s[Len(s)] = [feed |-> room[r].session, n |-> n]
    BY <2>4, <2>6
  <2> QED BY <2>1, <2>2, <2>3, <2>7, <2>8
<1> QED BY <1>1, <1>2 DEF StreamWhole, ViewerMissesNothing, OffAirIsLast

\* Whoever joins whenever, each viewer gets the events of one session once and in
\* order from as far back as the ring reached, is owed nothing while it is
\* registered, and hears off air last (Subscribe's "no event is missed or
\* duplicated across the join", publish and endSession), for every ring size,
\* buffer size and number of feeds, viewers and events.
THEOREM StreamsAreWhole == HubSpec => []StreamWhole
<1>1. HubSpec => [](HubInv /\ StreamInv)
  BY HubInit, HubStep, StreamInit, StreamStep, PTL DEF HubSpec
<1> QED BY <1>1, StreamInvWhole, PTL


-----------------------------------------------------------------------------
(* The registry.                                                             *)

Switches == [enabled : BOOLEAN, archive : BOOLEAN]
Lists    == UNION {[D -> Switches] : D \in SUBSET Ids}
Tab      == [list : Lists, errors : SUBSET Ids, editing : {Nothing} \cup [id : Ids, switches : Switches]]
SwitchesOf(row) == [enabled |-> row.enabled, archive |-> row.archive]

Shaped(c) == c = [f \in {"kind", "id", "arg", "value", "stage", "reply"} |-> c[f]]

\* A request as Request makes it, with what its kind and its stage say of it.
CallOK(c) ==
  \/ c = Free
  \/ /\ Shaped(c)
     /\ c.kind \in Kinds
     /\ c.kind \in {"toggle", "edit", "delete"} => c.id \in Ids
     /\ c.kind = "toggle" => c.arg \in Fields /\ c.value \in BOOLEAN
     /\ c.kind = "edit" => c.arg \in Sources
     /\ c.kind = "create" => c.value \in ChannelRow
     /\ c.kind \in {"toggle", "edit"} /\ c.stage \in {"read", "answered"} => c.reply \in ChannelRow
     /\ c.kind = "list" /\ c.stage = "answered" => c.reply \in Lists

RowsOK == /\ channels \in [Ids -> ChannelRow \cup {Nothing, Gone}]
          /\ wanted \in [Ids -> Switches]
TabsOK == tabs \in [Tabs -> Tab]
CallsOK == /\ calls = [t \in Tabs |-> [s \in Slots |-> calls[t][s]]]
           /\ \A t \in Tabs, s \in Slots : CallOK(calls[t][s])
CountOK == rowsMade \in 0 .. MaxRequests

\* A patch that has read its row holds one of the same name, or of one that is gone.
Holds ==
  \A t \in Tabs, s \in Slots : Patching(t, s) =>
    /\ channels[calls[t][s].id] # Nothing
    /\ Live(calls[t][s].id) => calls[t][s].reply.slug = channels[calls[t][s].id].slug

\* One patch at a time.
Alone ==
  \A t, u \in Tabs, s, r \in Slots : Patching(t, s) /\ Patching(u, r) => t = u /\ s = r

\* What it is about to write are the switches that will be wanted.
Owed ==
  \A t \in Tabs, s \in Slots : Patching(t, s) /\ Live(calls[t][s].id) =>
    SwitchesOf(calls[t][s].reply) = Want(calls[t][s])[calls[t][s].id]

InTurn == serial => Alone /\ Owed
TypeInv == RowsOK /\ TabsOK /\ CallsOK /\ CountOK
AdminInv == TypeInv /\ SlugsUnique /\ Holds /\ InTurn /\ SwitchesAsWanted

-----------------------------------------------------------------------------
(* What overlaying a switch does.                                          *)

LEMMA RowSet ==
  ASSUME NEW field \in Fields, NEW v \in BOOLEAN, NEW row \in ChannelRow
  PROVE  /\ [row EXCEPT ![field] = v] \in ChannelRow
         /\ [row EXCEPT ![field] = v].slug = row.slug
         /\ SwitchesOf([row EXCEPT ![field] = v]) = [SwitchesOf(row) EXCEPT ![field] = v]
<1>1. CASE field = "enabled"
  BY <1>1 DEF ChannelRow, SwitchesOf
<1>2. CASE field = "archive"
  BY <1>2 DEF ChannelRow, SwitchesOf
<1> QED BY <1>1, <1>2 DEF Fields

LEMMA SwitchSet ==
  ASSUME NEW field \in Fields, NEW v \in BOOLEAN, NEW sw \in Switches
  PROVE  [sw EXCEPT ![field] = v] \in Switches
<1>1. CASE field = "enabled"
  BY <1>1 DEF Switches
<1>2. CASE field = "archive"
  BY <1>2 DEF Switches
<1> QED BY <1>1, <1>2 DEF Fields

\* A list keeps its ids when one of its switches is set.
LEMMA ListSet ==
  ASSUME NEW list \in Lists, NEW id \in DOMAIN list, NEW field \in Fields, NEW v \in BOOLEAN
  PROVE  [list EXCEPT ![id][field] = v] \in Lists
<1>1. PICK D \in SUBSET Ids : list \in [D -> Switches]
  BY DEF Lists
<1>2. [list[id] EXCEPT ![field] = v] \in Switches
  BY <1>1, SwitchSet
<1>3. [list EXCEPT ![id] = [list[id] EXCEPT ![field] = v]] \in [D -> Switches]
  BY <1>1, <1>2
<1> QED BY <1>1, <1>3 DEF Lists

\* What CallOK says of a request by its kind.
LEMMA KindSays ==
  ASSUME NEW c, CallOK(c), c.kind # "free"
  PROVE  /\ Shaped(c)
         /\ c.kind \in Kinds
         /\ c.kind \in {"toggle", "edit", "delete"} => c.id \in Ids
         /\ c.kind = "toggle" => c.arg \in Fields /\ c.value \in BOOLEAN
         /\ c.kind = "edit" => c.arg \in Sources
         /\ c.kind = "create" => c.value \in ChannelRow
         /\ c.kind \in {"toggle", "edit"} /\ c.stage \in {"read", "answered"} => c.reply \in ChannelRow
         /\ c.kind = "list" /\ c.stage = "answered" => c.reply \in Lists
<1>1. c # Free
  BY DEF Free
<1> QED BY <1>1, Zenon DEF CallOK

\* What a patch writes is a row with the name of the one it read, and its
\* switches are the ones the patch owes.
LEMMA OverlayKeeps ==
  ASSUME NEW c, CallOK(c), c.kind \in {"toggle", "edit"}, NEW row \in ChannelRow
  PROVE  /\ Overlay(c, row) \in ChannelRow
         /\ Overlay(c, row).slug = row.slug
         /\ SwitchesOf(Overlay(c, row)) = IF c.kind = "toggle" THEN [SwitchesOf(row) EXCEPT ![c.arg] = c.value]
                                          ELSE SwitchesOf(row)
<1>1. CASE c.kind = "toggle"
  <2>1. c.arg \in Fields /\ c.value \in BOOLEAN
    BY <1>1, KindSays, Zenon
  <2>2. Overlay(c, row) = [row EXCEPT ![c.arg] = c.value]
    BY <1>1 DEF Overlay
  <2>3. /\ [row EXCEPT ![c.arg] = c.value] \in ChannelRow
        /\ [row EXCEPT ![c.arg] = c.value].slug = row.slug
        /\ SwitchesOf([row EXCEPT ![c.arg] = c.value]) = [SwitchesOf(row) EXCEPT ![c.arg] = c.value]
    BY <2>1, RowSet
  <2> QED BY <1>1, <2>2, <2>3, Zenon
<1>2. CASE c.kind = "edit"
  <2>1. c.arg \in Sources
    BY <1>2, KindSays, Zenon
  <2>2. Overlay(c, row) = [row EXCEPT !.source = c.arg]
    BY <1>2 DEF Overlay
  <2>3. [row EXCEPT !.source = c.arg] \in ChannelRow
    BY <2>1 DEF ChannelRow
  <2>4. /\ [row EXCEPT !.source = c.arg].slug = row.slug
        /\ SwitchesOf([row EXCEPT !.source = c.arg]) = SwitchesOf(row)
    BY DEF ChannelRow, SwitchesOf
  <2>5. c.kind # "toggle"
    BY <1>2
  <2> QED BY <2>5, <2>2, <2>3, <2>4, Zenon
<1> QED BY <1>1, <1>2

LEMMA ShownIsList == RowsOK => Shown \in Lists
<1> SUFFICES ASSUME RowsOK PROVE Shown \in Lists
  OBVIOUS
<1> DEFINE D == {i \in Ids : Live(i)}
<1>1. \A id \in D : [enabled |-> channels[id].enabled, archive |-> channels[id].archive] \in Switches
  BY DEF RowsOK, Live, ChannelRow, Switches
<1>2. Shown \in [D -> Switches]
  BY <1>1 DEF Shown
<1> QED BY <1>2 DEF Lists

-----------------------------------------------------------------------------
(* What a step does to the requests.                                       *)

Reading(c) == c.kind \in {"toggle", "edit"} /\ c.stage = "read"
Staged(c, stage, reply) == [c EXCEPT !.stage = stage, !.reply = reply]

Becomes(t, s, c) == calls' = [calls EXCEPT ![t][s] = c]

LEMMA CallSet ==
  ASSUME CallsOK, NEW t \in Tabs, NEW s \in Slots, NEW c, CallOK(c), Becomes(t, s, c)
  PROVE  /\ CallsOK'
         /\ calls'[t][s] = c
         /\ \A u \in Tabs, r \in Slots : u # t \/ r # s => calls'[u][r] = calls[u][r]
<1>1. calls'[t][s] = c
  BY DEF CallsOK, Becomes
<1>2. \A u \in Tabs, r \in Slots : u # t \/ r # s => calls'[u][r] = calls[u][r]
  BY DEF CallsOK, Becomes
<1>3. calls' = [u \in Tabs |-> [r \in Slots |-> calls'[u][r]]]
  BY DEF CallsOK, Becomes
<1>4. \A u \in Tabs, r \in Slots : CallOK(calls'[u][r])
  <2> TAKE u \in Tabs, r \in Slots
  <2>1. CASE u = t /\ r = s
    BY <1>1, <2>1, Zenon
  <2>2. CASE u # t \/ r # s
    BY <1>2, <2>2, Zenon DEF CallsOK
  <2> QED BY <2>1, <2>2
<1> QED BY <1>1, <1>2, <1>3, <1>4, Zenon DEF CallsOK

\* An answer or a refusal sets the stage and the reply, and nothing else.
LEMMA StagedKeeps ==
  ASSUME NEW c, Shaped(c), NEW stage, NEW reply, NEW d, d = Staged(c, stage, reply)
  PROVE  /\ Shaped(d) /\ d.kind = c.kind /\ d.id = c.id /\ d.arg = c.arg /\ d.value = c.value
         /\ d.stage = stage /\ d.reply = reply
BY DEF Shaped, Staged

LEMMA CallStaged ==
  ASSUME CallsOK, NEW t \in Tabs, NEW s \in Slots, NEW stage, NEW reply, calls[t][s].kind # "free",
         calls' = [calls EXCEPT ![t][s].stage = stage, ![t][s].reply = reply]
  PROVE  Becomes(t, s, Staged(calls[t][s], stage, reply))
<1>1. CallOK(calls[t][s])
  BY Zenon DEF CallsOK
<1>2. Shaped(calls[t][s])
  BY <1>1, KindSays, Zenon
<1> QED BY <1>2 DEF CallsOK, Staged, Shaped, Becomes

\* A request that is refused, or answered when it holds no row, is one still.
LEMMA StagedOK ==
  ASSUME NEW c, CallOK(c), c.kind # "free", NEW stage, NEW reply,
         c.kind \in {"toggle", "edit"} => stage \notin {"read", "answered"} \/ reply \in ChannelRow,
         c.kind = "list" /\ stage = "answered" => reply \in Lists,
         NEW d, d = Staged(c, stage, reply)
  PROVE  /\ CallOK(d) /\ d.kind = c.kind /\ d.id = c.id /\ d.arg = c.arg /\ d.value = c.value
         /\ d.stage = stage /\ d.reply = reply
<1>1. Shaped(d) /\ d.kind = c.kind /\ d.id = c.id /\ d.arg = c.arg /\ d.value = c.value /\ d.stage = stage /\ d.reply = reply
  <2>1. Shaped(c)
    BY KindSays, Zenon
  <2> QED BY <2>1, StagedKeeps
<1>2. CallOK(d)
  BY <1>1, KindSays DEF CallOK
<1> QED BY <1>1, <1>2

-----------------------------------------------------------------------------
(* Steps that leave the registry alone.                                    *)

\* They may start, refuse, lose or drop a request, but not read a row.
LEMMA AdminQuiet ==
  ASSUME AdminInv, NEW t \in Tabs, NEW s \in Slots, NEW c, CallOK(c), ~Reading(c),
         Becomes(t, s, c), UNCHANGED <<channels, wanted, serial>>, TabsOK', CountOK'
  PROVE  AdminInv'
<1>1. CallsOK' /\ \A u \in Tabs, r \in Slots : Patching(u, r)' => Patching(u, r) /\ calls'[u][r] = calls[u][r]
  <2>1. /\ CallsOK' /\ calls'[t][s] = c
        /\ \A u \in Tabs, r \in Slots : u # t \/ r # s => calls'[u][r] = calls[u][r]
    <3>1. CallsOK
      BY DEF AdminInv, TypeInv
    <3> QED BY <3>1, CallSet, Zenon
  <2>2. \A u \in Tabs, r \in Slots : Patching(u, r)' => u # t \/ r # s
    BY <2>1, Zenon DEF Patching, CallAt, Reading
  <2> QED BY <2>1, <2>2, Zenon DEF Patching, CallAt
<1>2. RowsOK' /\ SlugsUnique' /\ SwitchesAsWanted'
  BY DEF AdminInv, TypeInv, RowsOK, SlugsUnique, SwitchesAsWanted, Live
<1>3. Holds'
  BY <1>1 DEF AdminInv, Holds, Live
<1>4. (Alone' /\ Owed') \/ ~serial'
  <2>1. CASE serial
    <3>1. Alone'
      BY <1>1, <2>1 DEF AdminInv, InTurn, Alone
    <3>2. Owed'
      BY <1>1, <2>1 DEF AdminInv, InTurn, Owed, Live, Want
    <3> QED BY <3>1, <3>2
  <2> QED BY <2>1
<1> QED BY <1>1, <1>2, <1>3, <1>4 DEF AdminInv, TypeInv, InTurn

LEMMA QuietAnswer ==
  ASSUME AdminInv, NEW t \in Tabs, NEW s \in Slots, calls[t][s].kind # "free",
         NEW stage \in {"answered", "refused"}, NEW reply,
         calls[t][s].kind \in {"toggle", "edit"} => stage = "refused" \/ reply \in ChannelRow,
         calls[t][s].kind = "list" /\ stage = "answered" => reply \in Lists,
         calls' = [calls EXCEPT ![t][s].stage = stage, ![t][s].reply = reply],
         UNCHANGED <<channels, wanted, tabs, serial, rowsMade>>
  PROVE  AdminInv'
<1> DEFINE c == Staged(calls[t][s], stage, reply)
<1>1. CallsOK /\ TabsOK' /\ CountOK'
  BY DEF AdminInv, TypeInv, TabsOK, CountOK
<1>2. CallOK(calls[t][s])
  BY <1>1, Zenon DEF CallsOK
<1>3. CallOK(c) /\ c.stage = stage
  BY <1>2, StagedOK
<1>4. Becomes(t, s, c)
  BY <1>1, CallStaged
<1>5. ~Reading(c)
  BY <1>3 DEF Reading
<1> HIDE DEF c
<1> QED BY <1>1, <1>3, <1>4, <1>5, AdminQuiet

LEMMA RequestOK ==
  ASSUME NEW kind \in Kinds, NEW id, NEW arg, NEW value,
         kind \in {"toggle", "edit", "delete"} => id \in Ids,
         kind = "toggle" => arg \in Fields /\ value \in BOOLEAN,
         kind = "edit" => arg \in Sources, kind = "create" => value \in ChannelRow
  PROVE  CallOK(Request(kind, id, arg, value)) /\ ~Reading(Request(kind, id, arg, value))
<1>1. PICK c : c = Request(kind, id, arg, value)
  OBVIOUS
<1>2. c.kind = kind /\ c.id = id /\ c.arg = arg /\ c.value = value /\ c.stage = "sent"
  BY <1>1 DEF Request
<1>3. Shaped(c)
  BY <1>1 DEF Request, Shaped
<1>4. CallOK(c)
  BY <1>2, <1>3 DEF CallOK
<1>5. ~Reading(c)
  BY <1>2 DEF Reading
<1> QED BY <1>1, <1>4, <1>5, Zenon

\* A tab sends a request.
LEMMA SentKeeps ==
  ASSUME AdminInv, NEW t \in Tabs, NEW s \in Slots, NEW c, CallOK(c), ~Reading(c), Sent(t, s, c), TabsOK'
  PROVE  AdminInv'
<1>1. CountOK'
  BY AdminAssumption DEF Sent, AdminInv, TypeInv, CountOK
<1>2. Becomes(t, s, c) /\ UNCHANGED <<channels, wanted, serial>>
  BY DEF Sent, Becomes
<1> QED BY <1>1, <1>2, AdminQuiet

LEMMA TabIs == AdminInv => \A t \in Tabs : tabs[t] \in Tab
BY DEF AdminInv, TypeInv, TabsOK

LEMMA TabSet ==
  ASSUME TabsOK, NEW t \in Tabs, NEW tab \in Tab, tabs' = [tabs EXCEPT ![t] = tab]
  PROVE  TabsOK'
BY DEF TabsOK

LEMMA ToggleKeeps ==
  ASSUME AdminInv, NEW t \in Tabs, NEW s \in Slots, NEW id \in Ids, NEW field \in Fields, Toggle(t, s, id, field)
  PROVE  AdminInv'
<1> DEFINE list == tabs[t].list
           next == ~list[id][field]
           c == Request("toggle", id, field, next)
           newList == [list EXCEPT ![id][field] = next]
           newErrors == tabs[t].errors \ {id}
<1>1. tabs[t] \in Tab /\ TabsOK
  BY TabIs DEF AdminInv, TypeInv
<1>2. list \in Lists /\ id \in DOMAIN list /\ newErrors \in SUBSET Ids
  BY <1>1 DEF Tab, Toggle
<1>3. next \in BOOLEAN
  OBVIOUS
<1>4. newList \in Lists
  BY <1>2, <1>3, ListSet
<1>5. CallOK(c) /\ ~Reading(c)
  BY <1>3, RequestOK DEF Kinds
<1>6. tabs' = [tabs EXCEPT ![t] = [tabs[t] EXCEPT !.list = newList, !.errors = newErrors]]
  BY <1>1 DEF Toggle, TabsOK, Tab
<1>7. Sent(t, s, c)
  BY DEF Toggle
<1>8. [tabs[t] EXCEPT !.list = newList, !.errors = newErrors] \in Tab
  <2> HIDE DEF newList, newErrors, list, next
  <2> QED BY <1>1, <1>2, <1>4 DEF Tab
<1>9. TabsOK'
  BY <1>1, <1>6, <1>8, TabSet, Zenon
<1> HIDE DEF c
<1> QED BY <1>5, <1>7, <1>9, SentKeeps, Zenon

LEMMA TabStepKeeps ==
  ASSUME AdminInv, NEW t \in Tabs, NEW s \in Slots, TabStep(t, s)
  PROVE  AdminInv'
<1>1. tabs[t] \in Tab /\ TabsOK
  BY TabIs DEF AdminInv, TypeInv
<1>2. ASSUME UNCHANGED tabs PROVE TabsOK'
  BY <1>1, <1>2 DEF TabsOK
<1>3. ASSUME NEW id \in Ids, Delete(t, s, id) PROVE AdminInv'
  <2>1. PICK c : c = Request("delete", id, Nothing, Nothing)
    OBVIOUS
  <2>2. CallOK(c) /\ ~Reading(c)
    BY <2>1, RequestOK DEF Kinds
  <2>3. Sent(t, s, c) /\ UNCHANGED tabs
    BY <1>3, <2>1 DEF Delete
  <2> QED BY <1>2, <2>2, <2>3, SentKeeps, Zenon
<1>4. ASSUME NEW source \in Sources, Submit(t, s, source) PROVE AdminInv'
  <2>1. PICK c : c = Request("edit", tabs[t].editing.id, source, tabs[t].editing.switches)
    OBVIOUS
  <2>2. tabs[t].editing.id \in Ids
    BY <1>1, <1>4 DEF Submit, Tab
  <2>3. CallOK(c) /\ ~Reading(c)
    BY <2>1, <2>2, RequestOK DEF Kinds
  <2>4. Sent(t, s, c) /\ UNCHANGED tabs
    BY <1>4, <2>1 DEF Submit
  <2> QED BY <1>2, <2>3, <2>4, SentKeeps, Zenon
<1>5. ASSUME NEW slug \in Slugs, NEW source \in Sources, NEW e \in BOOLEAN, NEW a \in BOOLEAN,
             Create(t, s, slug, source, e, a)
      PROVE  AdminInv'
  <2>1. PICK row : row = [slug |-> slug, source |-> source, enabled |-> e, archive |-> a]
    OBVIOUS
  <2>2. row \in ChannelRow
    BY <2>1 DEF ChannelRow
  <2>3. PICK c : c = Request("create", 0, slug, row)
    OBVIOUS
  <2>4. CallOK(c) /\ ~Reading(c)
    BY <2>2, <2>3, RequestOK DEF Kinds
  <2>5. Sent(t, s, c) /\ UNCHANGED tabs
    BY <1>5, <2>1, <2>3 DEF Create
  <2> QED BY <1>2, <2>4, <2>5, SentKeeps, Zenon
<1> QED BY <1>3, <1>4, <1>5, ToggleKeeps DEF TabStep

LEMMA StartEditKeeps ==
  ASSUME AdminInv, NEW t \in Tabs, NEW id \in Ids, StartEdit(t, id)
  PROVE  AdminInv'
<1>1. tabs[t] \in Tab /\ TabsOK
  BY TabIs DEF AdminInv, TypeInv
<1>2. tabs[t].list[id] \in Switches
  BY <1>1 DEF Tab, Lists, StartEdit
<1>3. [id |-> id, switches |-> tabs[t].list[id]] \in [id : Ids, switches : Switches]
  BY <1>2
<1>4. [tabs[t] EXCEPT !.editing = [id |-> id, switches |-> tabs[t].list[id]]] \in Tab
  BY <1>1, <1>3 DEF Tab
<1>5. TabsOK'
  BY <1>1, <1>4, TabSet DEF StartEdit
<1>6. UNCHANGED <<channels, wanted, calls, serial, rowsMade>>
  BY DEF StartEdit
<1>7. RowsOK' /\ CallsOK' /\ CountOK' /\ SlugsUnique' /\ SwitchesAsWanted'
  BY <1>6 DEF AdminInv, TypeInv, RowsOK, CallsOK, CountOK, SlugsUnique, SwitchesAsWanted, Live
<1>8. Holds'
  BY <1>6 DEF AdminInv, Holds, Patching, CallAt, Live
<1>9. InTurn'
  <2>1. CASE serial
    <3>1. Alone'
      BY <1>6, <2>1 DEF AdminInv, InTurn, Alone, Patching, CallAt
    <3>2. Owed'
      BY <1>6, <2>1 DEF AdminInv, InTurn, Owed, Live, Want, Patching, CallAt
    <3> QED BY <3>1, <3>2 DEF InTurn
  <2> QED BY <2>1, <1>6 DEF InTurn
<1> QED BY <1>5, <1>7, <1>8, <1>9 DEF AdminInv, TypeInv

-----------------------------------------------------------------------------
(* Steps of the server.                                                    *)

\* The parts of the invariant, as a step finds them.
LEMMA Parts ==
  ASSUME AdminInv
  PROVE  /\ RowsOK /\ TabsOK /\ CallsOK /\ CountOK
         /\ SlugsUnique /\ Holds /\ InTurn /\ SwitchesAsWanted
         /\ \A t \in Tabs, s \in Slots : CallOK(calls[t][s])
BY DEF AdminInv, TypeInv, CallsOK

LEMMA LiveRow ==
  ASSUME RowsOK, NEW id \in Ids
  PROVE  Live(id) <=> channels[id] \in ChannelRow
<1>1. Gone \notin ChannelRow
  BY AdminAssumption DEF Gone, ChannelRow
<1> QED BY <1>1, GoneAssumption DEF RowsOK, Live

LEMMA ReadKeeps ==
  ASSUME AdminInv, NEW t \in Tabs, NEW s \in Slots, ReadRow(t, s), Live(calls[t][s].id)
  PROVE  AdminInv'
<1> USE Parts
<1>1. PICK call : call = calls[t][s]
  OBVIOUS
<1>2. CallOK(call) /\ call.kind \in {"toggle", "edit"} /\ call.kind # "free"
  BY <1>1 DEF ReadRow, CallAt
<1>3. call.id \in Ids
  BY <1>2, KindSays, Zenon
<1>4. PICK row \in ChannelRow : row = channels[call.id]
  BY <1>1, <1>3, LiveRow, Zenon
<1>5. PICK reply : reply = Overlay(call, row)
  OBVIOUS
<1>6. /\ reply \in ChannelRow /\ reply.slug = row.slug
      /\ SwitchesOf(reply) = IF call.kind = "toggle" THEN [SwitchesOf(row) EXCEPT ![call.arg] = call.value]
                             ELSE SwitchesOf(row)
  BY <1>2, <1>5, OverlayKeeps, Zenon
<1>7. PICK d : d = Staged(call, "read", reply)
  OBVIOUS
<1>8. CallOK(d) /\ d.kind = call.kind /\ d.id = call.id /\ d.arg = call.arg /\ d.value = call.value
      /\ d.stage = "read" /\ d.reply = reply
  BY <1>2, <1>6, <1>7, StagedOK
<1>9. calls' = [calls EXCEPT ![t][s].stage = "read", ![t][s].reply = reply]
  BY <1>1, <1>4, <1>5 DEF ReadRow
<1>10. Becomes(t, s, d)
  BY <1>1, <1>2, <1>7, <1>9, CallStaged
<1>11. /\ CallsOK' /\ calls'[t][s] = d
       /\ \A u \in Tabs, r \in Slots : u # t \/ r # s => calls'[u][r] = calls[u][r]
  BY <1>8, <1>10, CallSet, Zenon
<1>12. UNCHANGED <<channels, wanted, tabs, serial, rowsMade>>
  BY DEF ReadRow
<1>13. RowsOK' /\ TabsOK' /\ CountOK' /\ SlugsUnique' /\ SwitchesAsWanted'
  BY <1>12 DEF RowsOK, TabsOK, CountOK, SlugsUnique, SwitchesAsWanted, Live
<1>14. \A u \in Tabs, r \in Slots : u # t \/ r # s => Patching(u, r)' = Patching(u, r)
  BY <1>11, Zenon DEF Patching, CallAt
<1>15. Holds'
  <2> SUFFICES ASSUME NEW u \in Tabs, NEW r \in Slots, Patching(u, r)'
               PROVE  /\ channels[calls'[u][r].id] # Nothing
                      /\ Live(calls'[u][r].id) => calls'[u][r].reply.slug = channels[calls'[u][r].id].slug
    BY <1>12, Zenon DEF Holds, Live
  <2>1. CASE u = t /\ r = s
    BY <2>1, <1>4, <1>6, <1>8, <1>11, GoneAssumption
  <2>2. CASE u # t \/ r # s
    BY <2>2, <1>11, <1>14 DEF Holds
  <2> QED BY <2>1, <2>2
<1>16. ASSUME serial PROVE Alone' /\ Owed'
  <2>1. \A u \in Tabs, r \in Slots : ~Patching(u, r)
    BY <1>16 DEF ReadRow
  <2>2. \A u \in Tabs, r \in Slots : Patching(u, r)' => u = t /\ r = s
    BY <2>1, <1>14
  <2>3. Alone'
    BY <2>2, Zenon DEF Alone
  <2>4. SwitchesOf(row) = wanted[call.id]
    BY <1>16, <1>1, <1>3, <1>4 DEF SwitchesAsWanted, SwitchesOf, ReadRow
  <2>5. SwitchesOf(reply) = Want(d)[d.id]
    <3>1. CASE call.kind = "toggle"
      BY <3>1, <1>3, <1>6, <1>8, <2>4 DEF Want, RowsOK
    <3>2. CASE call.kind # "toggle"
      BY <3>2, <1>6, <1>8, <2>4 DEF Want
    <3> QED BY <3>1, <3>2
  <2>6. Want(d)' = Want(d)
    BY <1>12 DEF Want
  <2>7. Owed'
    <3> SUFFICES ASSUME NEW u \in Tabs, NEW r \in Slots, Patching(u, r)'
                 PROVE  (SwitchesOf(calls[u][r].reply) = Want(calls[u][r])[calls[u][r].id])'
      BY Zenon DEF Owed
    <3>1. calls'[u][r] = d
      BY <2>2, <1>11
    <3>2. Want(calls[u][r])' = Want(d)'
      BY <3>1 DEF Want
    <3> QED BY <3>1, <3>2, <2>5, <2>6, <1>8, Zenon
  <2> QED BY <2>3, <2>7
<1>17. InTurn'
  BY <1>12, <1>16 DEF InTurn
<1> QED BY <1>11, <1>13, <1>15, <1>17, Zenon DEF AdminInv, TypeInv

\* A request that is answered no longer stands between a read and a write.
LEMMA AnswerSet ==
  ASSUME CallsOK, NEW t \in Tabs, NEW s \in Slots, calls[t][s].kind # "free", NEW reply,
         calls[t][s].kind \in {"toggle", "edit"} => reply \in ChannelRow,
         calls[t][s].kind = "list" => reply \in Lists,
         Answer(t, s, reply)
  PROVE  /\ CallsOK'
         /\ \A u \in Tabs, r \in Slots :
              Patching(u, r)' => Patching(u, r) /\ (u # t \/ r # s) /\ calls'[u][r] = calls[u][r]
<1>1. PICK call : call = calls[t][s]
  OBVIOUS
<1>2. PICK d : d = Staged(call, "answered", reply)
  OBVIOUS
<1>3. CallOK(call)
  BY <1>1 DEF CallsOK
<1>4. CallOK(d) /\ d.stage = "answered"
  BY <1>1, <1>2, <1>3, StagedOK
<1>5. Becomes(t, s, d)
  BY <1>1, <1>2, CallStaged DEF Answer
<1>6. /\ CallsOK' /\ calls'[t][s] = d
      /\ \A u \in Tabs, r \in Slots : u # t \/ r # s => calls'[u][r] = calls[u][r]
  BY <1>4, <1>5, CallSet, Zenon
<1>7. ~Patching(t, s)'
  BY <1>4, <1>6 DEF Patching, CallAt
<1>8. \A u \in Tabs, r \in Slots : Patching(u, r)' => u # t \/ r # s
  BY <1>7, Zenon
<1> QED BY <1>6, <1>8, Zenon DEF Patching, CallAt

LEMMA WriteKeeps ==
  ASSUME AdminInv, NEW t \in Tabs, NEW s \in Slots, WriteRow(t, s), Live(calls[t][s].id)
  PROVE  AdminInv'
<1> USE Parts
<1>1. PICK call : call = calls[t][s]
  OBVIOUS
<1>2. CallOK(call) /\ call.kind \in {"toggle", "edit"} /\ call.kind # "free" /\ call.stage = "read"
  BY <1>1 DEF WriteRow, Patching, CallAt
<1>3. PICK id \in Ids : id = call.id
  BY <1>2, KindSays, Zenon
<1>4. PICK row \in ChannelRow : row = call.reply
  BY <1>2, KindSays, Zenon
<1>5. Live(id) /\ channels[id] \in ChannelRow
  BY <1>1, <1>3, LiveRow, Zenon
<1>6. row.slug = channels[id].slug
  BY <1>1, <1>3, <1>4, <1>5 DEF Holds, WriteRow
<1>7. channels' = [channels EXCEPT ![id] = row] /\ wanted' = Want(call)
  BY <1>1, <1>3, <1>4 DEF WriteRow
<1>8. Answer(t, s, row) /\ UNCHANGED <<tabs, serial, rowsMade>>
  BY <1>1, <1>4 DEF WriteRow
<1>9. /\ CallsOK'
      /\ \A u \in Tabs, r \in Slots :
           Patching(u, r)' => Patching(u, r) /\ (u # t \/ r # s) /\ calls'[u][r] = calls[u][r]
  <2>1. call.kind # "list"
    BY <1>2
  <2> QED BY <2>1, <1>1, <1>2, <1>8, AnswerSet, Zenon
<1>10. TabsOK' /\ CountOK'
  BY <1>8 DEF TabsOK, CountOK
<1>11. wanted' \in [Ids -> Switches]
  <2>1. CASE call.kind = "toggle"
    <3>1. call.arg \in Fields /\ call.value \in BOOLEAN
      BY <2>1, <1>2, KindSays, Zenon
    <3>2. wanted[id] \in Switches
      BY DEF RowsOK
    <3>3. [wanted[id] EXCEPT ![call.arg] = call.value] \in Switches
      BY <3>1, <3>2, SwitchSet
    <3> QED BY <2>1, <3>3, <1>3, <1>7 DEF Want, RowsOK
  <2>2. CASE call.kind # "toggle"
    BY <2>2, <1>7 DEF Want, RowsOK
  <2> QED BY <2>1, <2>2
<1>12. RowsOK'
  BY <1>7, <1>11 DEF RowsOK
<1>13. \A i \in Ids : /\ i # id => channels'[i] = channels[i] /\ wanted'[i] = wanted[i]
                      /\ i = id => channels'[i] = row
  BY <1>3, <1>7 DEF RowsOK, Want
<1>14. \A i \in Ids : (Live(i)' <=> Live(i)) /\ (Live(i) => channels'[i].slug = channels[i].slug)
  <2> TAKE i \in Ids
  <2>1. CASE i = id
    BY <2>1, <1>5, <1>6, <1>12, <1>13, LiveRow, GoneAssumption, AdminAssumption DEF Live, Gone, ChannelRow
  <2>2. CASE i # id
    BY <2>2, <1>13 DEF Live
  <2> QED BY <2>1, <2>2
<1>15. SlugsUnique'
  BY <1>14 DEF SlugsUnique
<1>16. Holds'
  <2>1. \A u \in Tabs, r \in Slots : Patching(u, r)' => calls'[u][r].id \in Ids
    <3> TAKE u \in Tabs, r \in Slots
    <3> HAVE Patching(u, r)'
    <3>1. CallOK(calls[u][r]) /\ calls[u][r].kind \in {"toggle", "edit"} /\ calls[u][r].kind # "free"
      BY <1>9 DEF Patching, CallAt
    <3>2. calls[u][r].id \in Ids
      BY <3>1, KindSays, Zenon
    <3> QED BY <3>2, <1>9, Zenon
  <2>2. \A i \in Ids : channels[i] # Nothing => channels'[i] # Nothing
    BY <1>13, GoneAssumption
  <2> QED BY <1>9, <1>14, <2>1, <2>2 DEF Holds
<1>17. ASSUME serial PROVE Alone' /\ Owed' /\ SwitchesAsWanted'
  <2>1. \A u \in Tabs, r \in Slots : ~Patching(u, r)'
    BY <1>9, <1>17 DEF InTurn, Alone, WriteRow
  <2>2. SwitchesOf(row) = wanted'[id]
    BY <1>1, <1>3, <1>4, <1>5, <1>7, <1>17 DEF InTurn, Owed, WriteRow
  <2>3. ASSUME NEW i \in Ids, Live(i)' PROVE SwitchesOf(channels'[i]) = wanted'[i]
    BY <1>17, <2>2, <2>3, <1>13, <1>14 DEF SwitchesAsWanted, SwitchesOf
  <2> QED BY <2>1, <2>3 DEF Alone, Owed, SwitchesAsWanted, SwitchesOf
<1>18. InTurn' /\ SwitchesAsWanted'
  BY <1>8, <1>17 DEF InTurn, SwitchesAsWanted
<1> QED BY <1>9, <1>10, <1>12, <1>15, <1>16, <1>18, Zenon DEF AdminInv, TypeInv

LEMMA InsertKeeps ==
  ASSUME AdminInv, NEW t \in Tabs, NEW s \in Slots, Insert(t, s), ~Taken(calls[t][s].value.slug)
  PROVE  AdminInv'
<1> USE Parts
<1>1. PICK call : call = calls[t][s]
  OBVIOUS
<1>2. CallOK(call) /\ call.kind = "create" /\ call.kind \notin {"free", "list", "toggle", "edit"}
  BY <1>1 DEF Insert, CallAt
<1>3. PICK row \in ChannelRow : row = call.value
  BY <1>2, KindSays, Zenon
<1>4. PICK id \in Ids : /\ channels[id] = Nothing
                       /\ channels' = [channels EXCEPT ![id] = row]
                       /\ wanted' = [wanted EXCEPT ![id] = SwitchesOf(row)]
                       /\ Answer(t, s, row)
  BY <1>1, <1>3 DEF Insert, SwitchesOf
<1>5. UNCHANGED <<tabs, serial, rowsMade>>
  BY DEF Insert
<1>6. /\ CallsOK'
      /\ \A u \in Tabs, r \in Slots :
           Patching(u, r)' => Patching(u, r) /\ (u # t \/ r # s) /\ calls'[u][r] = calls[u][r]
  <2>1. call.kind \notin {"toggle", "edit"} /\ call.kind # "list" /\ call.kind # "free"
    BY <1>2
  <2> QED BY <2>1, <1>1, <1>4, AnswerSet, Zenon
<1>7. TabsOK' /\ CountOK'
  BY <1>5 DEF TabsOK, CountOK
<1>8. RowsOK'
  <2>1. SwitchesOf(row) \in Switches
    BY DEF ChannelRow, Switches, SwitchesOf
  <2>2. wanted' \in [Ids -> Switches]
    BY <1>4, <2>1 DEF RowsOK
  <2> QED BY <1>4, <2>2 DEF RowsOK
<1>9. \A i \in Ids : i # id => channels'[i] = channels[i] /\ wanted'[i] = wanted[i] /\ (Live(i)' <=> Live(i))
  BY <1>4 DEF RowsOK, Live
<1>10. channels'[id] = row /\ wanted'[id] = SwitchesOf(row)
  BY <1>4 DEF RowsOK
<1>11. SlugsUnique'
  BY <1>1, <1>3, <1>9, <1>10 DEF SlugsUnique, Taken, Live
<1>12. \A u \in Tabs, r \in Slots : Patching(u, r)' => calls'[u][r].id \in Ids /\ calls'[u][r].id # id
  <2> TAKE u \in Tabs, r \in Slots
  <2> HAVE Patching(u, r)'
  <2>1. CallOK(calls[u][r]) /\ calls[u][r].kind \in {"toggle", "edit"} /\ calls[u][r].kind # "free"
    BY <1>6 DEF Patching, CallAt
  <2>2. calls[u][r].id \in Ids
    BY <2>1, KindSays, Zenon
  <2>3. channels[calls[u][r].id] # Nothing
    BY <1>6 DEF Holds
  <2> QED BY <2>2, <2>3, <1>4, <1>6
<1>13. Holds'
  BY <1>6, <1>9, <1>12 DEF Holds, Live
<1>14. ASSUME serial PROVE Alone' /\ Owed' /\ SwitchesAsWanted'
  <2>1. Alone'
    BY <1>6, <1>14 DEF InTurn, Alone
  <2>2. \A u \in Tabs, r \in Slots : Patching(u, r)' => Want(calls[u][r])'[calls[u][r].id] = Want(calls[u][r])[calls[u][r].id]
    BY <1>6, <1>9, <1>12, <1>8 DEF Want, RowsOK
  <2>3. Owed'
    BY <1>6, <1>9, <1>12, <2>2, <1>14 DEF InTurn, Owed, Live
  <2>4. SwitchesAsWanted'
    BY <1>14, <1>9, <1>10 DEF SwitchesAsWanted, SwitchesOf
  <2> QED BY <2>1, <2>3, <2>4
<1>15. InTurn' /\ SwitchesAsWanted'
  BY <1>5, <1>14 DEF InTurn, SwitchesAsWanted
<1> QED BY <1>6, <1>7, <1>8, <1>11, <1>13, <1>15, Zenon DEF AdminInv, TypeInv

LEMMA RemoveKeeps ==
  ASSUME AdminInv, NEW t \in Tabs, NEW s \in Slots, RemoveRow(t, s), Live(calls[t][s].id)
  PROVE  AdminInv'
<1> USE Parts
<1>1. PICK call : call = calls[t][s]
  OBVIOUS
<1>2. CallOK(call) /\ call.kind = "delete" /\ call.kind \notin {"free", "list", "toggle", "edit"}
  BY <1>1 DEF RemoveRow, CallAt
<1>3. PICK id \in Ids : id = call.id
  BY <1>2, KindSays, Zenon
<1>4. /\ channels' = [channels EXCEPT ![id] = Gone] /\ Answer(t, s, Nothing)
      /\ UNCHANGED <<wanted, tabs, serial, rowsMade>>
  BY <1>1, <1>3 DEF RemoveRow
<1>5. /\ CallsOK'
      /\ \A u \in Tabs, r \in Slots :
           Patching(u, r)' => Patching(u, r) /\ (u # t \/ r # s) /\ calls'[u][r] = calls[u][r]
  <2>1. call.kind \notin {"toggle", "edit"} /\ call.kind # "list" /\ call.kind # "free"
    BY <1>2
  <2> QED BY <2>1, <1>1, <1>4, AnswerSet, Zenon
<1>6. TabsOK' /\ CountOK' /\ RowsOK'
  BY <1>4 DEF TabsOK, CountOK, RowsOK
<1>7. \A i \in Ids : /\ channels[i] # Nothing => channels'[i] # Nothing
                     /\ Live(i)' => Live(i) /\ channels'[i] = channels[i]
  BY <1>4, GoneAssumption DEF RowsOK, Live
<1>8. SlugsUnique'
  BY <1>7 DEF SlugsUnique
<1>9. \A u \in Tabs, r \in Slots : Patching(u, r)' => calls'[u][r].id \in Ids
  <2> TAKE u \in Tabs, r \in Slots
  <2> HAVE Patching(u, r)'
  <2>1. CallOK(calls[u][r]) /\ calls[u][r].kind \in {"toggle", "edit"} /\ calls[u][r].kind # "free"
    BY <1>5 DEF Patching, CallAt
  <2>2. calls[u][r].id \in Ids
    BY <2>1, KindSays, Zenon
  <2> QED BY <2>2, <1>5, Zenon
<1>10. Holds'
  BY <1>5, <1>7, <1>9 DEF Holds
<1>11. ASSUME serial PROVE Alone' /\ Owed' /\ SwitchesAsWanted'
  <2>1. Alone'
    BY <1>5, <1>11 DEF InTurn, Alone
  <2>2. Owed'
    BY <1>4, <1>5, <1>7, <1>9, <1>11 DEF InTurn, Owed, Want
  <2>3. SwitchesAsWanted'
    BY <1>4, <1>7, <1>11 DEF SwitchesAsWanted
  <2> QED BY <2>1, <2>2, <2>3
<1>12. InTurn' /\ SwitchesAsWanted'
  BY <1>4, <1>11 DEF InTurn, SwitchesAsWanted
<1> QED BY <1>5, <1>6, <1>8, <1>10, <1>12, Zenon DEF AdminInv, TypeInv

\* A refusal, whatever the request was.
LEMMA RejectKeeps ==
  ASSUME AdminInv, NEW t \in Tabs, NEW s \in Slots, calls[t][s].kind # "free", Reject(t, s),
         UNCHANGED <<channels, wanted, tabs, serial, rowsMade>>
  PROVE  AdminInv'
<1>1. PICK stage \in {"answered", "refused"} : stage = "refused"
  OBVIOUS
<1>2. stage # "answered" /\ calls' = [calls EXCEPT ![t][s].stage = stage, ![t][s].reply = Nothing]
  BY <1>1 DEF Reject
<1> QED BY <1>1, <1>2, QuietAnswer

LEMMA ServerKeeps ==
  ASSUME AdminInv, NEW t \in Tabs, NEW s \in Slots, ServerStep(t, s)
  PROVE  AdminInv'
<1>1. CASE ReadRow(t, s)
  <2>1. CASE Live(calls[t][s].id)
    BY <1>1, <2>1, ReadKeeps
  <2>2. CASE ~Live(calls[t][s].id)
    BY <1>1, <2>2, RejectKeeps DEF ReadRow, CallAt
  <2> QED BY <2>1, <2>2
<1>2. CASE WriteRow(t, s)
  <2>1. CASE Live(calls[t][s].id)
    BY <1>2, <2>1, WriteKeeps
  <2>2. CASE ~Live(calls[t][s].id)
    BY <1>2, <2>2, RejectKeeps DEF WriteRow, Patching, CallAt
  <2> QED BY <2>1, <2>2
<1>3. CASE Insert(t, s)
  <2>1. CASE ~Taken(calls[t][s].value.slug)
    BY <1>3, <2>1, InsertKeeps
  <2>2. CASE Taken(calls[t][s].value.slug)
    BY <1>3, <2>2, RejectKeeps DEF Insert, CallAt
  <2> QED BY <2>1, <2>2
<1>4. CASE RemoveRow(t, s)
  <2>1. CASE Live(calls[t][s].id)
    BY <1>4, <2>1, RemoveKeeps
  <2>2. CASE ~Live(calls[t][s].id)
    BY <1>4, <2>2, RejectKeeps DEF RemoveRow, CallAt
  <2> QED BY <2>1, <2>2
<1>5. CASE List(t, s)
  <2>1. Shown \in Lists
    BY ShownIsList, Parts
  <2>2. PICK stage \in {"answered", "refused"} : stage = "answered"
    OBVIOUS
  <2>3. calls[t][s].kind = "list" /\ calls[t][s].kind # "free" /\ calls[t][s].kind \notin {"toggle", "edit"}
    BY <1>5 DEF List, CallAt
  <2>4. PICK shown : shown = Shown
    OBVIOUS
  <2>5. calls' = [calls EXCEPT ![t][s].stage = stage, ![t][s].reply = shown]
    BY <1>5, <2>2, <2>4 DEF List, Answer
  <2>6. UNCHANGED <<channels, wanted, tabs, serial, rowsMade>>
    BY <1>5 DEF List
  <2> QED BY <2>1, <2>3, <2>4, <2>5, <2>6, QuietAnswer
<1>6. CASE Lost(t, s)
  <2>1. calls[t][s].kind # "free"
    <3>1. CallOK(calls[t][s]) /\ calls[t][s] # Free
      BY <1>6, Parts DEF Lost
    <3> QED BY <3>1 DEF CallOK, Kinds
  <2> QED BY <1>6, <2>1, RejectKeeps DEF Lost
<1> QED BY <1>1, <1>2, <1>3, <1>4, <1>5, <1>6 DEF ServerStep

-----------------------------------------------------------------------------
(* The answers, as the tabs take them.                                     *)

LEMMA SlotEmptied ==
  ASSUME AdminInv, NEW t \in Tabs, NEW s \in Slots, NEW c, c = Free \/ c = Request("list", 0, Nothing, Nothing),
         Becomes(t, s, c), UNCHANGED <<channels, wanted, serial, rowsMade>>, TabsOK'
  PROVE  AdminInv'
<1>1. CallOK(c) /\ ~Reading(c)
  <2>1. CASE c = Free
    BY <2>1 DEF CallOK, Reading, Free
  <2>2. CASE c = Request("list", 0, Nothing, Nothing)
    BY <2>2, RequestOK DEF Kinds
  <2> QED BY <2>1, <2>2
<1>2. CountOK'
  BY Parts DEF CountOK
<1> QED BY <1>1, <1>2, AdminQuiet, Zenon

LEMMA ToggledKeeps ==
  ASSUME AdminInv, NEW t \in Tabs, NEW s \in Slots, Toggled(t, s)
  PROVE  AdminInv'
<1> USE Parts
<1>1. PICK call : call = calls[t][s]
  OBVIOUS
<1>2. CallOK(call) /\ call.kind = "toggle" /\ call.kind # "free" /\ call.stage \in {"answered", "refused"}
  BY <1>1 DEF Toggled, Answered, CallAt
<1>3. call.arg \in Fields /\ call.value \in BOOLEAN /\ call.id \in Ids
  BY <1>2, KindSays, Zenon
<1>4. tabs[t] \in Tab
  BY TabIs
<1>5. ASSUME NEW v \in BOOLEAN PROVE Set(t, call.id, call.arg, v) \in Lists
  <2>1. CASE call.id \in DOMAIN tabs[t].list
    <3>1. tabs[t].list \in Lists
      BY <1>4 DEF Tab
    <3>2. Set(t, call.id, call.arg, v) = [tabs[t].list EXCEPT ![call.id][call.arg] = v]
      BY <2>1 DEF Set
    <3>3. [tabs[t].list EXCEPT ![call.id][call.arg] = v] \in Lists
      BY <1>3, <2>1, <3>1, ListSet
    <3> QED BY <3>2, <3>3
  <2>2. CASE call.id \notin DOMAIN tabs[t].list
    BY <2>2, <1>4 DEF Set, Tab
  <2> QED BY <2>1, <2>2
<1>6. TabsOK'
  <2>1. CASE Failed(call)
    <3>1. PICK v \in BOOLEAN : v = ~call.value
      OBVIOUS
    <3>2. PICK list \in Lists : list = Set(t, call.id, call.arg, v)
      BY <1>5
    <3>3. PICK tab \in Tab : tab = [tabs[t] EXCEPT !.list = list, !.errors = tabs[t].errors \cup {call.id}]
      BY <1>3, <1>4 DEF Tab
    <3>4. tabs' = [tabs EXCEPT ![t].list = list, ![t].errors = tabs[t].errors \cup {call.id}]
      <4>1. tabs' = [tabs EXCEPT ![t].list = Set(t, call.id, call.arg, ~call.value), ![t].errors = tabs[t].errors \cup {call.id}]
        BY <1>1, <2>1, <1>4 DEF Toggled, Tab, TabsOK
      <4> QED BY <4>1, <3>1, <3>2, Zenon
    <3>5. tabs' = [tabs EXCEPT ![t] = tab]
      BY <3>3, <3>4, <1>4 DEF TabsOK, Tab
    <3> QED BY <3>5, TabSet, Zenon
  <2>2. CASE ~Failed(call)
    <3>1. call.reply \in ChannelRow
      BY <1>2, <2>2, KindSays DEF Failed
    <3>2. call.reply[call.arg] \in BOOLEAN
      BY <1>3, <3>1 DEF ChannelRow, Fields
    <3>3. PICK list \in Lists : list = Set(t, call.id, call.arg, call.reply[call.arg])
      BY <3>2, <1>5
    <3>4. tabs' = [tabs EXCEPT ![t] = [tabs[t] EXCEPT !.list = list]]
      BY <1>1, <2>2, <3>3 DEF Toggled, TabsOK
    <3>5. [tabs[t] EXCEPT !.list = list] \in Tab
      BY <1>4 DEF Tab
    <3> QED BY <3>4, <3>5, TabSet, Zenon
  <2> QED BY <2>1, <2>2
<1>7. Becomes(t, s, Free) /\ UNCHANGED <<channels, wanted, serial, rowsMade>>
  BY DEF Toggled, Becomes
<1> QED BY <1>6, <1>7, SlotEmptied, Zenon

LEMMA SavedKeeps ==
  ASSUME AdminInv, NEW t \in Tabs, NEW s \in Slots, Saved(t, s)
  PROVE  AdminInv'
<1> USE Parts
<1>1. UNCHANGED <<channels, wanted, serial, rowsMade>>
  BY DEF Saved
<1>2. CASE Failed(calls[t][s])
  <2>1. Becomes(t, s, Free) /\ TabsOK'
    BY <1>2 DEF Saved, Becomes, TabsOK
  <2> QED BY <1>1, <2>1, SlotEmptied, Zenon
<1>3. CASE ~Failed(calls[t][s])
  <2>1. PICK c : c = Request("list", 0, Nothing, Nothing)
    OBVIOUS
  <2>2. Becomes(t, s, c)
    BY <1>3, <2>1 DEF Saved, Becomes
  <2>3. tabs[t] \in Tab
    BY TabIs
  <2>4. PICK e : e = IF calls[t][s].kind = "delete" THEN tabs[t].editing ELSE Nothing
    OBVIOUS
  <2>5. e \in {Nothing} \cup [id : Ids, switches : Switches]
    BY <2>3, <2>4 DEF Tab
  <2>6. tabs' = [tabs EXCEPT ![t] = [tabs[t] EXCEPT !.editing = e]]
    BY <1>3, <2>3, <2>4 DEF Saved, TabsOK, Tab
  <2>7. [tabs[t] EXCEPT !.editing = e] \in Tab
    BY <2>3, <2>5 DEF Tab
  <2>8. TabsOK'
    BY <2>6, <2>7, TabSet, Zenon
  <2> QED BY <1>1, <2>1, <2>2, <2>8, SlotEmptied, Zenon
<1> QED BY <1>2, <1>3

LEMMA ReloadedKeeps ==
  ASSUME AdminInv, NEW t \in Tabs, NEW s \in Slots, Reloaded(t, s)
  PROVE  AdminInv'
<1> USE Parts
<1>1. Becomes(t, s, Free) /\ UNCHANGED <<channels, wanted, serial, rowsMade>>
  BY DEF Reloaded, Becomes
<1>2. TabsOK'
  <2>1. CASE Failed(calls[t][s])
    BY <2>1 DEF Reloaded, TabsOK
  <2>2. CASE ~Failed(calls[t][s])
    <3>1. PICK call : call = calls[t][s]
      OBVIOUS
    <3>2. CallOK(call) /\ call.kind = "list" /\ call.kind # "free" /\ call.stage = "answered"
      BY <2>2, <3>1 DEF Reloaded, Answered, CallAt, Failed
    <3>3. call.reply \in Lists
      BY <3>2, KindSays, Zenon
    <3>4. tabs[t] \in Tab
      BY TabIs
    <3>5. tabs' = [tabs EXCEPT ![t] = [tabs[t] EXCEPT !.list = call.reply, !.errors = {}]]
      <4>1. tabs' = [tabs EXCEPT ![t].list = call.reply, ![t].errors = {}]
        BY <2>2, <3>1 DEF Reloaded
      <4> QED BY <4>1, <3>4 DEF TabsOK, Tab
    <3>6. [tabs[t] EXCEPT !.list = call.reply, !.errors = {}] \in Tab
      BY <3>3, <3>4 DEF Tab
    <3> QED BY <3>5, <3>6, TabSet, Zenon
  <2> QED BY <2>1, <2>2
<1> QED BY <1>1, <1>2, SlotEmptied, Zenon

-----------------------------------------------------------------------------
(* The theorems.                                                           *)

LEMMA AdminInit == InitAdmin => AdminInv
<1> SUFFICES ASSUME InitAdmin PROVE AdminInv
  OBVIOUS
<1>1. PICK row \in ChannelRow : channels = [id \in Ids |-> IF id = 1 THEN row ELSE Nothing]
  BY DEF InitAdmin
<1>2. wanted = [id \in Ids |-> IF id = 1 THEN SwitchesOf(channels[1]) ELSE [enabled |-> FALSE, archive |-> TRUE]]
  BY DEF InitAdmin, SwitchesOf
<1>3. 1 \in Ids /\ channels[1] = row
  BY <1>1, AdminAssumption DEF Ids
<1>4. SwitchesOf(row) \in Switches /\ [enabled |-> FALSE, archive |-> TRUE] \in Switches
  BY DEF SwitchesOf, Switches, ChannelRow
<1>5. RowsOK
  BY <1>1, <1>2, <1>3, <1>4 DEF RowsOK
<1>6. TabsOK
  <2>1. Shown \in Lists
    BY <1>5, ShownIsList
  <2>2. [list |-> Shown, errors |-> {}, editing |-> Nothing] \in Tab
    BY <2>1 DEF Tab
  <2> QED BY <2>2 DEF InitAdmin, TabsOK
<1>7. \A t \in Tabs, s \in Slots : calls[t][s] = Free
  BY DEF InitAdmin
<1>8. CallsOK
  <2>1. \A t \in Tabs, s \in Slots : CallOK(calls[t][s])
    BY <1>7 DEF CallOK
  <2>2. calls = [t \in Tabs |-> [s \in Slots |-> calls[t][s]]]
    BY DEF InitAdmin
  <2> QED BY <2>1, <2>2 DEF CallsOK
<1>9. CountOK
  BY AdminAssumption DEF CountOK, InitAdmin
<1>10. \A t \in Tabs, s \in Slots : ~Patching(t, s)
  BY <1>7 DEF Patching, CallAt, Free
<1>11. Holds /\ InTurn
  BY <1>10 DEF Holds, InTurn, Alone, Owed
<1>12. \A id \in Ids : Live(id) => id = 1
  BY <1>1 DEF Live
<1>13. SlugsUnique
  BY <1>12 DEF SlugsUnique
<1>14. SwitchesAsWanted
  BY <1>2, <1>3, <1>12 DEF SwitchesAsWanted, SwitchesOf
<1> QED BY <1>5, <1>6, <1>8, <1>9, <1>11, <1>13, <1>14 DEF AdminInv, TypeInv

LEMMA AdminStep == AdminInv /\ [NextAdmin]_adminVars => AdminInv'
<1> SUFFICES ASSUME AdminInv, [NextAdmin]_adminVars PROVE AdminInv'
  OBVIOUS
<1>1. ASSUME NEW t \in Tabs, NEW s \in Slots, AnswerStep(t, s) PROVE AdminInv'
  BY <1>1, ToggledKeeps, SavedKeeps, ReloadedKeeps DEF AnswerStep
<1>2. CASE UNCHANGED adminVars
  <2>1. UNCHANGED <<channels, wanted, tabs, calls, serial, rowsMade>>
    BY <1>2 DEF adminVars
  <2>2. RowsOK' /\ TabsOK' /\ CallsOK' /\ CountOK' /\ SlugsUnique' /\ SwitchesAsWanted'
    BY <2>1 DEF AdminInv, TypeInv, RowsOK, TabsOK, CallsOK, CountOK, SlugsUnique, SwitchesAsWanted, Live
  <2>3. Holds'
    BY <2>1 DEF AdminInv, Holds, Patching, CallAt, Live
  <2>4. ASSUME serial PROVE Alone' /\ Owed'
    <3>1. Alone'
      BY <2>1, <2>4 DEF AdminInv, InTurn, Alone, Patching, CallAt
    <3>2. Owed'
      BY <2>1, <2>4 DEF AdminInv, InTurn, Owed, Live, Want, Patching, CallAt
    <3> QED BY <3>1, <3>2
  <2>5. InTurn'
    BY <2>1, <2>4 DEF InTurn
  <2> QED BY <2>2, <2>3, <2>5 DEF AdminInv, TypeInv
<1> QED BY <1>1, <1>2, TabStepKeeps, ServerKeeps, StartEditKeeps, Zenon DEF NextAdmin

\* The invariant holds of every registry.
THEOREM AdminInvariant == AdminSpec => []AdminInv
<1> QED BY AdminInit, AdminStep, PTL DEF AdminSpec

LEMMA AdminInvSound == AdminInv => AdminSound
<1> SUFFICES ASSUME AdminInv PROVE AdminSound
  OBVIOUS
<1> USE Parts
<1>1. \A id \in Ids : channels[id] \in ChannelRow \cup {Nothing, Gone}
  BY DEF RowsOK
<1>2. \A t \in Tabs : DOMAIN tabs[t].list \subseteq Ids /\ tabs[t].errors \subseteq Ids
  BY TabIs DEF Tab, Lists
<1>3. \A t \in Tabs, s \in Slots : calls[t][s].kind \in Kinds \cup {"free"}
  BY DEF CallOK, Free
<1>4. AdminTypeOK
  BY <1>1, <1>2, <1>3 DEF AdminTypeOK, CountOK
<1> QED BY <1>4 DEF AdminSound

\* Types, one channel per slug, and the switches last asked for, whoever
\* edits the table at once.
THEOREM AdminIsSound == AdminSpec => []AdminSound
<1> QED BY AdminInvariant, AdminInvSound, PTL

LEMMA RowKept ==
  ASSUME AdminInv, [NextAdmin]_adminVars, NEW id \in Ids
  PROVE  /\ channels[id] = Gone => channels'[id] = Gone
         /\ Live(id) /\ channels'[id] # Gone => channels'[id].slug = channels[id].slug
<1> USE Parts
<1>1. CASE UNCHANGED channels
  BY <1>1
<1>2. ASSUME NEW t \in Tabs, NEW s \in Slots, WriteRow(t, s), Live(calls[t][s].id)
      PROVE  /\ channels[id] = Gone => channels'[id] = Gone
             /\ Live(id) => channels'[id].slug = channels[id].slug
  <2>1. PICK call : call = calls[t][s]
    OBVIOUS
  <2>2. channels' = [channels EXCEPT ![call.id] = call.reply] /\ Patching(t, s)
    BY <1>2, <2>1 DEF WriteRow
  <2>3. call.reply.slug = channels[call.id].slug
    BY <1>2, <2>1, <2>2 DEF Holds
  <2>4. Live(call.id)
    BY <1>2, <2>1
  <2>5. CASE call.id = id
    BY <2>2, <2>3, <2>4, <2>5 DEF Live, RowsOK
  <2>6. CASE call.id # id
    BY <2>2, <2>6 DEF RowsOK
  <2> QED BY <2>5, <2>6
<1>3. ASSUME NEW t \in Tabs, NEW s \in Slots, Insert(t, s), ~Taken(calls[t][s].value.slug)
      PROVE  /\ channels[id] = Gone => channels'[id] = Gone
             /\ Live(id) => channels'[id].slug = channels[id].slug
  <2>1. PICK new \in Ids : channels[new] = Nothing /\ channels' = [channels EXCEPT ![new] = calls[t][s].value]
    BY <1>3 DEF Insert
  <2>2. channels[id] = Gone \/ Live(id) => id # new
    BY <2>1, GoneAssumption DEF Live
  <2> QED BY <2>1, <2>2 DEF RowsOK
<1>4. ASSUME NEW t \in Tabs, NEW s \in Slots, RemoveRow(t, s), Live(calls[t][s].id)
      PROVE  channels'[id] = Gone \/ channels'[id] = channels[id]
  <2>1. channels' = [channels EXCEPT ![calls[t][s].id] = Gone]
    BY <1>4 DEF RemoveRow
  <2> QED BY <2>1 DEF RowsOK
<1>5. ASSUME NEW t \in Tabs, NEW s \in Slots, ServerStep(t, s)
      PROVE  /\ channels[id] = Gone => channels'[id] = Gone
             /\ Live(id) /\ channels'[id] # Gone => channels'[id].slug = channels[id].slug
  <2>1. CASE ReadRow(t, s) \/ List(t, s) \/ Lost(t, s)
    BY <2>1, <1>1 DEF ReadRow, List, Lost
  <2>2. CASE WriteRow(t, s)
    BY <2>2, <1>1, <1>2 DEF WriteRow
  <2>3. CASE Insert(t, s)
    BY <2>3, <1>1, <1>3 DEF Insert
  <2>4. CASE RemoveRow(t, s)
    BY <2>4, <1>1, <1>4 DEF RemoveRow
  <2> QED BY <1>5, <2>1, <2>2, <2>3, <2>4 DEF ServerStep
<1>6. ASSUME NEW t \in Tabs, NEW s \in Slots, TabStep(t, s) PROVE UNCHANGED channels
  BY <1>6 DEF TabStep, Toggle, Delete, Submit, Create, Sent
<1>7. ASSUME NEW t \in Tabs, NEW s \in Slots, AnswerStep(t, s) PROVE UNCHANGED channels
  BY <1>7 DEF AnswerStep, Toggled, Saved, Reloaded
<1>8. ASSUME NEW t \in Tabs, NEW i \in Ids, StartEdit(t, i) PROVE UNCHANGED channels
  BY <1>8 DEF StartEdit
<1>9. CASE UNCHANGED adminVars
  BY <1>9, <1>1 DEF adminVars
<1> QED BY <1>1, <1>5, <1>6, <1>7, <1>8, <1>9, Zenon DEF NextAdmin

\* A channel keeps its slug, and one that was deleted stays deleted, whatever
\* a patch read before.
THEOREM AdminKeepsIdentity == AdminSpec => IdentityKept
<1>1. AdminInv /\ [NextAdmin]_adminVars => [\A id \in Ids :
       /\ channels[id] = Gone => channels'[id] = Gone
       /\ Live(id) /\ channels'[id] # Gone => channels'[id].slug = channels[id].slug]_adminVars
  BY RowKept
<1> QED BY <1>1, AdminInvariant, PTL DEF AdminSpec, IdentityKept

-----------------------------------------------------------------------------
(* The capture worker: its invariant.                                      *)

Segments == 1 .. MaxSegments
PruneRec == [listed : SUBSET Row, row : 0 .. MaxId]
ManagerRec == [pc : {"idle", "stopping", "starting", "down"}, restart : SUBSET Channels,
               awaits : Sups \cup {NoSup}, stop : SUBSET Channels, start : SUBSET (Channels \X Configs)]

\* A row is found by its id, its id is not given again, and its segment was written.
RecordingsOK ==
  /\ rows \subseteq Row /\ nextId \in 1 .. MaxId + 1
  /\ \A r, q \in rows : r.id = q.id => r = q
  /\ \A r \in rows : r.id < nextId /\ r.key[2] <= written[r.key[1]]

\* The retention takes a recording once its segment has left the disk, or late.
ExpiredOK ==
  /\ late \subseteq expired
  /\ \A k \in expired : k[2] <= written[k[1]] /\ (k \notin late => k[2] \notin disk[k[1]])

\* What is pruned is past the retention, and a row goes after its object.
PruneOK ==
  /\ prune \in PruneRec /\ prune.row < nextId
  /\ \A r \in prune.listed :
       r.id < nextId /\ r.key \in expired /\ \A q \in rows : q.id = r.id => q.key = r.key
  /\ \A q \in rows : q.id = prune.row => q.key \in expired /\ (q.key \notin late => q.key \notin objects)

\* The manager's supervisor of a channel is the one that is not cancelled.
RunningOK ==
  /\ \A c \in Channels : running[c] # NoSup =>
       Alive(running[c]) /\ sup[running[c]].chan = c /\ ~sup[running[c]].cancelled
  /\ \A s \in Sups : Alive(s) =>
       /\ sup[s].chan \in Channels /\ sup[s].cfg \in Configs
       /\ ~sup[s].cancelled => running[sup[s].chan] = s

Vacant(c) == \A s \in Sups : Alive(s) => sup[s].chan # c

\* Who drains is not wanted any more, or is awaited by the manager.
DrainingOK ==
  \A s \in Sups : Alive(s) /\ sup[s].cancelled =>
    \/ manager.pc = "down"
    \/ manager.pc = "stopping" /\ s = manager.awaits
    \/ settings[sup[s].chan] = Off \/ sup[s].chan \in hasty

\* A channel the manager may start: it has no supervisor, or is hasty.
Startable(c) == running[c] = NoSup /\ (c \in hasty \/ Vacant(c))

\* What the manager is about to start, it starts on a channel that is free.
ManagerOK ==
  /\ manager \in ManagerRec
  /\ \A x, y \in manager.start : x[1] = y[1] => x = y
  /\ manager.pc = "stopping" =>
       /\ \A x \in manager.start : x[1] \in manager.restart \/ Startable(x[1])
       /\ \A c \in manager.stop : settings[c] = Off \/ c \in hasty
       /\ \A c \in manager.restart, s \in Sups :
            Alive(s) /\ sup[s].chan = c /\ c \notin hasty => s = running[c] \/ s = manager.awaits
  /\ manager.pc = "starting" => \A x \in manager.start : Startable(x[1])
  /\ manager.pc \in {"idle", "down"} => manager.start = {}
  /\ manager.pc # "stopping" => manager.awaits = NoSup

\* The segments a supervisor works on were written; unless the channel is
\* hasty, the open one is the channel's last and not among them.
SupOK(u) ==
  /\ u.todo \subseteq 1 .. written[u.chan]
  /\ u.open # 0 => u.pc = "capture"
  /\ u.open # 0 /\ u.chan \notin hasty =>
       u.open = written[u.chan] /\ u.open \in disk[u.chan] /\ u.open \notin u.todo

HasId    == {"upload", "register", "ready", "remove"}
Uploaded == {"register", "ready", "remove"}

\* Unless it is late, a job has the row it asked for, the object once it is
\* uploaded, and a ready row before it removes its segment.
JobOK(u) ==
  LET k == <<u.chan, u.job.seg>> IN
  /\ u.job.step # "none" /\ u.job.seg \in 1 .. written[u.chan]
  /\ u.chan \notin hasty => u.job.seg # u.open
  /\ k \in expired => k \in late
  /\ u.job.step \in HasId => u.job.id < nextId /\ \A r \in rows : r.id = u.job.id => r.key = k
  /\ k \notin late =>
       /\ u.job.step \in HasId => \E r \in rows : r.id = u.job.id /\ r.key = k
       /\ u.job.step \in Uploaded => k \in objects
       /\ u.job.step = "remove" => Ready(k)

Works(u) == u.pc \notin {"unused", "done"}

WorkOK ==
  \A s \in Sups :
    /\ Works(sup[s]) => SupOK(sup[s])
    /\ sup[s].job # NoJob => Works(sup[s]) /\ JobOK(sup[s])

Types ==
  /\ objects \subseteq Keys /\ expired \subseteq Keys
  /\ settings \in [Channels -> Configs \cup {Off}] /\ hasty \subseteq Channels
  /\ running \in [Channels -> Sups \cup {NoSup}]
  /\ sup \in [Sups -> SupRecord]
  /\ disk \in [Channels -> SUBSET Segments]
  /\ written \in [Channels -> 0 .. MaxSegments]
  /\ \A c \in Channels : disk[c] \subseteq 1 .. written[c]

ArchiveOK == RecordingsOK /\ ExpiredOK /\ PruneOK /\ SegmentKept /\ ReadyHasObject /\ NoStrandedObject
WatchOK == RunningOK /\ OneSupervisor /\ DrainingOK /\ ManagerOK

CaptureInv == Types /\ ArchiveOK /\ WatchOK /\ WorkOK

-----------------------------------------------------------------------------
(* Records.                                                                *)

LEMMA Bounds ==
  /\ MaxId \in Nat /\ MaxSegments \in Nat /\ MaxAttempts \in Nat \ {0}
  /\ Off \notin Configs /\ NoSup \notin Sups /\ Archiving \subseteq Configs
  /\ Keys = Channels \X Segments
BY CaptureAssumption DEF Segments

LEMMA IdleJob == NoJob \in JobRecord /\ NoJob.step = "none"
BY Bounds DEF NoJob, JobRecord, Steps

LEMMA IdleSup ==
  /\ Unused \in SupRecord /\ Unused.pc = "unused" /\ Unused.job = NoJob /\ Unused.todo = {} /\ Unused.open = 0
  /\ ~Unused.cancelled
BY Bounds, IdleJob DEF Unused, SupRecord

Ended == [Unused EXCEPT !.pc = "done"]

LEMMA EndedSup == Ended \in SupRecord /\ Ended.pc = "done" /\ Ended.job = NoJob
BY IdleSup DEF Ended, SupRecord

\* Two supervisors' records alike to the manager.
SameRun(u, v) == u.chan = v.chan /\ u.cfg = v.cfg /\ u.cancelled = v.cancelled /\ Works(u) /\ Works(v)

LEMMA LoopStarts ==
  ASSUME Types, NEW c \in Channels, NEW v \in Configs
  PROVE  LET u == RunLoop(c, v)
         IN  /\ u \in SupRecord /\ u.chan = c /\ u.cfg = v /\ u.pc \in {"salvage", "start"} /\ ~u.cancelled
             /\ u.job = NoJob /\ u.open = 0 /\ u.todo \subseteq disk[c]
<1>1. disk[c] \in SUBSET Segments
  BY DEF Types
<1>2. CASE v \in Archiving
  BY <1>1, <1>2, IdleSup DEF RunLoop, SupRecord, Segments
<1>3. CASE v \notin Archiving
  BY <1>1, <1>3, IdleSup DEF RunLoop, SupRecord, Segments
<1> QED BY <1>2, <1>3

LEMMA RunEnds ==
  ASSUME NEW s \in Sups, sup[s] \in SupRecord, NEW healthy \in BOOLEAN, NEW u, u = Retried(s, healthy)
  PROVE  \/ sup[s].cancelled /\ u = Ended
         \/ /\ u \in SupRecord /\ u.pc = "backoff" /\ u.chan = sup[s].chan /\ u.cfg = sup[s].cfg
            /\ u.cancelled = sup[s].cancelled
            /\ u.todo = sup[s].todo /\ u.job = sup[s].job /\ u.open = sup[s].open
<1>. DEFINE a == IF healthy THEN 1 ELSE IF sup[s].attempt < MaxAttempts THEN sup[s].attempt + 1 ELSE MaxAttempts
            al == (sup[s].alerted /\ ~healthy) \/ a = MaxAttempts
<1>1. sup[s].attempt \in 0 .. MaxAttempts
  BY DEF SupRecord
<1>2. a \in 0 .. MaxAttempts
  <2>1. 1 \in 0 .. MaxAttempts /\ MaxAttempts \in 0 .. MaxAttempts
    BY Bounds
  <2>2. sup[s].attempt < MaxAttempts => sup[s].attempt + 1 \in 0 .. MaxAttempts
    BY <1>1, Bounds
  <2> QED BY <2>1, <2>2
<1>3. al \in BOOLEAN
  OBVIOUS
<1>4. CASE sup[s].cancelled
  BY <1>4 DEF Retried, Ended
<1>5. CASE ~sup[s].cancelled
  <2>1. u = [sup[s] EXCEPT !.pc = "backoff", !.attempt = a, !.alerted = al]
    BY <1>5 DEF Retried
  <2>. HIDE DEF a, al
  <2> QED BY <1>2, <1>3, <2>1 DEF SupRecord
<1> QED BY <1>4, <1>5

\* A job that moves on: the rest of its supervisor's record stays.
Moved(u, step, id) == [u EXCEPT !.job.step = step, !.job.id = id]

LEMMA JobMoves ==
  ASSUME NEW u \in SupRecord, NEW step \in Steps, NEW id \in 0 .. MaxId, NEW v, v = Moved(u, step, id)
  PROVE  /\ v \in SupRecord /\ v.job.seg = u.job.seg /\ v.job.step = step /\ v.job.id = id
         /\ v.chan = u.chan /\ v.cfg = u.cfg /\ v.cancelled = u.cancelled /\ v.pc = u.pc
         /\ v.todo = u.todo /\ v.open = u.open
BY DEF SupRecord, JobRecord, Moved

LEMMA JobEnds ==
  ASSUME NEW u \in SupRecord, NEW v, v = [u EXCEPT !.job = NoJob]
  PROVE  /\ v \in SupRecord /\ v.job = NoJob
         /\ v.chan = u.chan /\ v.cfg = u.cfg /\ v.cancelled = u.cancelled /\ v.pc = u.pc
         /\ v.todo = u.todo /\ v.open = u.open
BY IdleJob DEF SupRecord

-----------------------------------------------------------------------------
(* The manager's view of a step.                                           *)

\* A supervisor goes on, and the manager sees no difference.
LEMMA WatchStays ==
  ASSUME WatchOK, Types, NEW s \in Sups, NEW u, sup' = [sup EXCEPT ![s] = u], SameRun(sup[s], u),
         UNCHANGED <<settings, hasty, running, manager>>
  PROVE  WatchOK'
<1>1. \A t \in Sups : /\ Alive(t)' <=> Alive(t)
                      /\ Alive(t) => /\ sup'[t].chan = sup[t].chan /\ sup'[t].cfg = sup[t].cfg
                                     /\ sup'[t].cancelled = sup[t].cancelled
  BY DEF Types, SameRun, Works, Alive
<1>2. \A c : Vacant(c)' <=> Vacant(c)
  BY <1>1 DEF Vacant
<1>3. RunningOK'
  BY <1>1 DEF WatchOK, RunningOK, Types
<1>4. OneSupervisor'
  BY <1>1 DEF WatchOK, OneSupervisor, SupervisedOnce
<1>5. DrainingOK'
  BY <1>1 DEF WatchOK, DrainingOK
<1>6. ManagerOK'
  <2>1. \A c : Startable(c)' <=> Startable(c)
    BY <1>2 DEF Startable
  <2> QED BY <1>1, <2>1 DEF WatchOK, ManagerOK, ManagerRec
<1> QED BY <1>3, <1>4, <1>5, <1>6 DEF WatchOK

\* A cancelled supervisor ends.
LEMMA WatchEnds ==
  ASSUME WatchOK, Types, NEW s \in Sups, sup' = [sup EXCEPT ![s] = Ended], Alive(s), sup[s].cancelled,
         UNCHANGED <<settings, hasty, running, manager>>
  PROVE  WatchOK'
<1>1. ~Alive(s)' /\ \A t \in Sups : t # s => sup'[t] = sup[t]
  BY EndedSup DEF Types, Alive
<1>2. \A t \in Sups : Alive(t)' => t # s /\ Alive(t) /\ sup'[t] = sup[t]
  BY <1>1 DEF Alive
<1>3. \A c : Vacant(c) => Vacant(c)'
  BY <1>2 DEF Vacant
<1>4. \A c \in Channels : running[c] # s
  BY Bounds DEF WatchOK, RunningOK
<1>5. RunningOK'
  <2>1. \A c \in Channels : running[c] # NoSup => running[c] \in Sups /\ running[c] # s
    BY <1>4 DEF Types
  <2>2. \A t \in Sups : t # s => (Alive(t)' <=> Alive(t))
    BY <1>1 DEF Alive
  <2> QED BY <1>1, <1>2, <2>1, <2>2 DEF WatchOK, RunningOK
<1>6. OneSupervisor'
  BY <1>2 DEF WatchOK, OneSupervisor, SupervisedOnce
<1>7. DrainingOK'
  BY <1>2 DEF WatchOK, DrainingOK
<1>8. ManagerOK'
  <2>1. \A c : Startable(c) => Startable(c)'
    BY <1>3 DEF Startable
  <2> QED BY <1>2, <2>1 DEF WatchOK, ManagerOK, ManagerRec
<1> QED BY <1>5, <1>6, <1>7, <1>8 DEF WatchOK

-----------------------------------------------------------------------------
(* A step of one supervisor that leaves the archive alone.                 *)

LEMMA WatchParts ==
  ASSUME CaptureInv, NEW s \in Sups
  PROVE  /\ sup[s] \in SupRecord /\ sup \in [Sups -> SupRecord]
         /\ Alive(s) => /\ Works(sup[s]) /\ SupOK(sup[s])
                        /\ sup[s].chan \in Channels /\ sup[s].cfg \in Configs
                        /\ disk[sup[s].chan] \subseteq 1 .. written[sup[s].chan]
                        /\ written[sup[s].chan] \in 0 .. MaxSegments
         /\ sup[s].job # NoJob => Alive(s) /\ JobOK(sup[s])
BY DEF CaptureInv, Types, WatchOK, RunningOK, WorkOK, Alive, Works

LEMMA LocalKeeps ==
  ASSUME CaptureInv, NEW s \in Sups, Alive(s), NEW u, Local(s, u),
         \/ u \in SupRecord /\ SameRun(sup[s], u) /\ SupOK(u) /\ (u.job # NoJob => JobOK(u))
         \/ u = Ended /\ sup[s].cancelled
  PROVE  CaptureInv'
<1>1. sup' = [sup EXCEPT ![s] = u] /\ UNCHANGED <<recordingVars, settings, hasty, running, manager, disk, written>>
  BY DEF Local, SetSup
<1>2. u \in SupRecord
  BY EndedSup
<1>3. Types'
  BY <1>1, <1>2 DEF CaptureInv, Types, recordingVars
<1>4. ArchiveOK'
  BY <1>1 DEF CaptureInv, ArchiveOK, RecordingsOK, ExpiredOK, PruneOK, SegmentKept, ReadyHasObject, NoStrandedObject,
    Findable, Ready, RowOf, recordingVars
<1>5. WatchOK'
  BY <1>1, WatchStays, WatchEnds DEF CaptureInv
<1>6. sup \in [Sups -> SupRecord] /\ WorkOK
  BY DEF CaptureInv, Types
<1>7. \A v : SupOK(v)' <=> SupOK(v)
  BY <1>1 DEF SupOK
<1>8. \A v : JobOK(v)' <=> JobOK(v)
  BY <1>1 DEF JobOK, Ready, RowOf, recordingVars
<1>9. /\ Works(u) => SupOK(u)
      /\ u.job # NoJob => Works(u) /\ JobOK(u)
  BY EndedSup DEF SameRun, Works
<1>10. WorkOK'
  <2> SUFFICES ASSUME NEW t \in Sups
               PROVE /\ Works(sup[t])' => SupOK(sup[t])'
                     /\ (sup[t].job # NoJob)' => Works(sup[t])' /\ JobOK(sup[t])'
    BY DEF WorkOK, Works
  <2>1. CASE t = s
    <3>1. sup'[t] = u
      BY <1>1, <1>6, <2>1
    <3> QED BY <1>1, <1>9, <3>1 DEF SupOK, JobOK, Works, Ready, RowOf, recordingVars
  <2>2. CASE t # s
    <3>1. sup'[t] = sup[t]
      BY <1>1, <1>6, <2>2
    <3>2. /\ Works(sup[t]) => SupOK(sup[t])
          /\ sup[t].job # NoJob => Works(sup[t]) /\ JobOK(sup[t])
      BY <1>6 DEF WorkOK
    <3> QED BY <1>1, <3>1, <3>2 DEF SupOK, JobOK, Works, Ready, RowOf, recordingVars
  <2> QED BY <2>1, <2>2
<1> QED BY <1>3, <1>4, <1>5, <1>10 DEF CaptureInv

\* It goes on with the segments it had, or with fewer.
LEMMA GoesOn ==
  ASSUME CaptureInv, NEW s \in Sups, Alive(s), NEW u \in SupRecord, Local(s, u), Works(u),
         u.chan = sup[s].chan, u.cfg = sup[s].cfg, u.cancelled = sup[s].cancelled,
         u.job = sup[s].job \/ u.job = NoJob,
         u.todo \subseteq sup[s].todo,
         (u.open = sup[s].open /\ u.pc = sup[s].pc) \/ u.open = 0
  PROVE  CaptureInv'
<1>1. SameRun(sup[s], u)
  BY WatchParts DEF SameRun
<1>2. SupOK(u)
  BY WatchParts DEF SupOK
<1>3. ASSUME u.job # NoJob PROVE JobOK(u)
  <2>1. u.job = sup[s].job /\ JobOK(sup[s])
    BY <1>3, WatchParts
  <2>2. u.job.seg # 0
    BY <2>1, WatchParts DEF JobOK
  <2> QED BY <2>1, <2>2 DEF JobOK
<1> QED BY <1>1, <1>2, <1>3, LocalKeeps

\* It takes up what is in its directory while nothing is being written.
LEMMA TakesDirectory ==
  ASSUME CaptureInv, NEW s \in Sups, Alive(s), NEW u \in SupRecord, Local(s, u), Works(u),
         u.chan = sup[s].chan, u.cfg = sup[s].cfg, u.cancelled = sup[s].cancelled,
         u.job = sup[s].job, u.todo \subseteq disk[sup[s].chan], u.open = 0
  PROVE  CaptureInv'
<1>1. SameRun(sup[s], u)
  BY WatchParts DEF SameRun
<1>2. SupOK(u)
  BY WatchParts DEF SupOK
<1>3. ASSUME u.job # NoJob PROVE JobOK(u)
  <2>1. JobOK(sup[s])
    BY <1>3, WatchParts
  <2>2. u.job.seg # 0
    BY <2>1, WatchParts, <1>3 DEF JobOK
  <2> QED BY <2>1, <2>2 DEF JobOK
<1> QED BY <1>1, <1>2, <1>3, LocalKeeps

LEMMA EndsKeep ==
  ASSUME CaptureInv, NEW s \in Sups, Alive(s), NEW healthy \in BOOLEAN, Local(s, Retried(s, healthy)),
         sup[s].pc # "capture"
  PROVE  CaptureInv'
<1>1. PICK u : u = Retried(s, healthy)
  OBVIOUS
<1>2. Local(s, u)
  BY <1>1 DEF Local, SetSup
<1>3. CASE sup[s].cancelled /\ u = Ended
  BY <1>2, <1>3, LocalKeeps
<1>4. CASE /\ u \in SupRecord /\ u.pc = "backoff" /\ u.chan = sup[s].chan /\ u.cfg = sup[s].cfg
           /\ u.cancelled = sup[s].cancelled
           /\ u.todo = sup[s].todo /\ u.job = sup[s].job /\ u.open = sup[s].open
  <2>1. u.open = 0
    BY <1>4, WatchParts DEF SupOK
  <2> QED BY <1>2, <1>4, <2>1, GoesOn DEF Works
<1> QED BY <1>1, <1>3, <1>4, RunEnds, WatchParts

LEMMA LoopSteps ==
  ASSUME CaptureInv, NEW s \in Sups,
         \/ SalvageDone(s) \/ SalvageStops(s) \/ StartProcess(s) \/ StartFails(s) \/ Restart(s) \/ GoSilent(s)
         \/ \E v \in {"up", "down", "stuck"} : FeedChanges(s, v)
         \/ ProcessDies(s) \/ ProcessStopped(s) \/ Drained(s) \/ (\E h \in BOOLEAN : RunOnceReturns(s, h))
         \/ JobFails(s)
  PROVE  CaptureInv'
<1>0. sup[s] \in SupRecord /\ (Alive(s) => SupOK(sup[s]))
  BY WatchParts
<1>1. CASE SalvageDone(s)
  <2>1. /\ Alive(s) /\ sup[s].pc = "salvage" /\ Local(s, [sup[s] EXCEPT !.pc = "start"])
    BY <1>1 DEF SalvageDone, Alive
  <2> QED BY <1>0, <2>1, GoesOn DEF SupRecord, Works, SupOK
<1>2. CASE SalvageStops(s)
  <2>1. /\ Alive(s) /\ Local(s, [sup[s] EXCEPT !.todo = {}])
    BY <1>2 DEF SalvageStops, Alive
  <2> QED BY <1>0, <2>1, GoesOn DEF SupRecord, Works, Alive
<1>3. CASE StartProcess(s)
  <2>1. /\ Alive(s) /\ sup[s].pc = "start" /\ Local(s, [sup[s] EXCEPT !.pc = "capture"])
    BY <1>3 DEF StartProcess, Alive
  <2> QED BY <1>0, <2>1, GoesOn DEF SupRecord, Works, SupOK
<1>4. CASE StartFails(s)
  BY <1>4, EndsKeep DEF StartFails, Alive
<1>5. CASE Restart(s)
  <2>1. Alive(s) /\ sup[s].pc = "backoff"
    BY <1>5 DEF Restart, Alive
  <2>2. CASE sup[s].cancelled
    <3>1. Local(s, Ended)
      BY <1>5, <2>2 DEF Restart, Ended
    <3> QED BY <2>1, <2>2, <3>1, LocalKeeps
  <2>3. CASE ~sup[s].cancelled
    <3>1. PICK r : r = RunLoop(sup[s].chan, sup[s].cfg)
      OBVIOUS
    <3>2. Local(s, [sup[s] EXCEPT !.pc = r.pc, !.todo = r.todo])
      BY <1>5, <2>3, <3>1 DEF Restart, Local, SetSup
    <3>3. r \in SupRecord /\ r.pc \in {"salvage", "start"} /\ r.todo \subseteq disk[sup[s].chan]
      BY <2>1, <3>1, LoopStarts, WatchParts DEF CaptureInv
    <3>4. sup[s].open = 0
      BY <1>0, <2>1 DEF SupOK
    <3> QED BY <1>0, <2>1, <3>2, <3>3, <3>4, TakesDirectory DEF SupRecord, Works
  <2> QED BY <2>2, <2>3
<1>6. CASE GoSilent(s)
  <2>1. /\ Alive(s) /\ Local(s, [sup[s] EXCEPT !.silent = TRUE])
    BY <1>6 DEF GoSilent, Alive
  <2> QED BY <1>0, <2>1, GoesOn DEF SupRecord, Works, Alive
<1>7. ASSUME NEW v \in {"up", "down", "stuck"}, FeedChanges(s, v) PROVE CaptureInv'
  <2>1. /\ Alive(s) /\ Local(s, [sup[s] EXCEPT !.feed = v])
    BY <1>7 DEF FeedChanges, Alive
  <2> QED BY <1>0, <2>1, GoesOn DEF SupRecord, Works, Alive
<1>8. CASE ProcessDies(s) \/ ProcessStopped(s)
  <2>1. /\ Alive(s) /\ Local(s, [sup[s] EXCEPT !.pc = "draining", !.open = 0, !.silent = FALSE])
    BY <1>8 DEF ProcessDies, ProcessStopped, Exited, Alive
  <2>2. PICK u : u = [sup[s] EXCEPT !.pc = "draining", !.open = 0, !.silent = FALSE]
    OBVIOUS
  <2>3. /\ u \in SupRecord /\ u.chan = sup[s].chan /\ u.cfg = sup[s].cfg /\ u.cancelled = sup[s].cancelled
        /\ u.pc = "draining" /\ u.job = sup[s].job /\ u.open = 0 /\ u.todo = sup[s].todo
    <3>1. 0 \in 0 .. MaxSegments
      BY Bounds
    <3>2. "draining" \in {"unused", "salvage", "start", "capture", "draining", "final", "backoff", "done"}
      OBVIOUS
    <3> QED BY <1>0, <2>2, <3>1, <3>2 DEF SupRecord
  <2>4. Local(s, u)
    BY <2>1, <2>2
  <2> QED BY <2>1, <2>3, <2>4, GoesOn DEF Works
<1>9. CASE Drained(s)
  <2>1. PICK T : T = IF Archives(s) THEN disk[sup[s].chan] ELSE {}
    OBVIOUS
  <2>2. /\ Alive(s) /\ sup[s].pc = "draining" /\ Local(s, [sup[s] EXCEPT !.pc = "final", !.feed = "down", !.todo = T])
    BY <1>9, <2>1 DEF Drained, Alive, Local, SetSup
  <2>3. T \subseteq disk[sup[s].chan] /\ T \subseteq Segments
    BY <2>1, <2>2, WatchParts, Bounds DEF Segments, CaptureInv, Types
  <2>4. sup[s].open = 0
    BY <1>0, <2>2 DEF SupOK
  <2> QED BY <1>0, <2>2, <2>3, <2>4, TakesDirectory DEF SupRecord, Works, Segments
<1>10. ASSUME NEW h \in BOOLEAN, RunOnceReturns(s, h) PROVE CaptureInv'
  BY <1>10, EndsKeep DEF RunOnceReturns, Alive
<1>11. CASE JobFails(s)
  <2>1. Alive(s) /\ Local(s, [sup[s] EXCEPT !.job = NoJob])
    BY <1>11 DEF JobFails, EndJob, Local
  <2> QED BY <1>0, <2>1, JobEnds, GoesOn DEF Works, Alive
<1> QED BY <1>1, <1>2, <1>3, <1>4, <1>5, <1>6, <1>7, <1>8, <1>9, <1>10, <1>11

LEMMA LeastSegment ==
  ASSUME NEW T \in SUBSET Segments, T # {}
  PROVE  Oldest(T) \in T
<1>1. T \in SUBSET Nat
  BY Bounds DEF Segments
<1>2. PICK x \in T : \A y \in T : ~(<<y, x>> \in OpToRel(<, Nat))
  BY <1>1, NatLessThanWellFounded, WFMin
<1>3. ASSUME NEW y \in T PROVE x <= y
  <2>1. x \in Nat /\ y \in Nat
    BY <1>1
  <2>2. ~(y < x)
    BY <1>2, <2>1 DEF OpToRel
  <2> QED BY <2>1, <2>2
<1> QED BY <1>3 DEF Oldest

\* Every file but the newest is closed.
LEMMA ArchivesClosed ==
  ASSUME CaptureInv, NEW s \in Sups, ArchiveClosed(s)
  PROVE  CaptureInv'
<1>. DEFINE c == sup[s].chan
            closed == disk[c] \ {Newest(c)}
            u == [sup[s] EXCEPT !.todo = closed]
<1>1. /\ Alive(s) /\ sup[s].pc = "capture" /\ sup[s].todo = {} /\ sup[s].job = NoJob /\ Local(s, u)
  BY DEF ArchiveClosed, Alive, Resting
<1>2. /\ sup[s] \in SupRecord /\ SupOK(sup[s]) /\ disk[c] \subseteq 1 .. written[c] /\ written[c] \in 0 .. MaxSegments
  BY <1>1, WatchParts
<1>3. disk[c] \subseteq Segments
  BY <1>2, Bounds DEF Segments
<1>4. /\ u \in SupRecord /\ u.todo = closed /\ u.chan = c /\ u.cfg = sup[s].cfg
      /\ u.cancelled = sup[s].cancelled /\ u.pc = "capture" /\ u.job = NoJob /\ u.open = sup[s].open
  <2>1. closed \in SUBSET (1 .. MaxSegments)
    BY <1>3 DEF Segments
  <2> HIDE DEF closed
  <2> QED BY <1>1, <1>2, <2>1 DEF SupRecord
<1>5. ASSUME sup[s].open # 0, c \notin hasty PROVE sup[s].open = Newest(c)
  <2>1. written[c] \in disk[c] /\ sup[s].open = written[c]
    BY <1>2, <1>5 DEF SupOK
  <2>2. \A n \in disk[c] : n \in Nat /\ n <= written[c]
    BY <1>2
  <2>3. \E n \in disk[c] : \A m \in disk[c] : m <= n
    BY <2>1, <2>2
  <2>4. Newest(c) \in disk[c] /\ \A m \in disk[c] : m <= Newest(c)
    BY <2>3 DEF Newest
  <2> QED BY <2>1, <2>2, <2>4, <1>2
<1>. HIDE DEF u
<1>6. SupOK(u)
  BY <1>2, <1>4, <1>5 DEF SupOK
<1>7. SameRun(sup[s], u)
  BY <1>1, <1>4 DEF SameRun, Works
<1> QED BY <1>1, <1>4, <1>6, <1>7, LocalKeeps

LEMMA ArchiveKeeps ==
  ASSUME CaptureInv, NEW s \in Sups, Archive(s)
  PROVE  CaptureInv'
<1>. DEFINE n == Oldest(sup[s].todo)
            j == IF n \in disk[sup[s].chan] THEN [seg |-> n, step |-> "lookup", id |-> 0] ELSE NoJob
            u == [sup[s] EXCEPT !.todo = sup[s].todo \ {n}, !.job = j]
<1>1. /\ Alive(s) /\ sup[s].todo # {} /\ Local(s, u)
  BY DEF Archive, Alive
<1>2. /\ sup[s] \in SupRecord /\ SupOK(sup[s])
  BY <1>1, WatchParts
<1>3. n \in sup[s].todo /\ n \in Segments
  BY <1>1, <1>2, LeastSegment DEF SupRecord, Segments
<1>. HIDE DEF n
<1>4. j \in JobRecord
  BY <1>3, IdleJob, Bounds DEF JobRecord, Steps, Segments
<1>5. j # NoJob => j.step = "lookup" /\ j.seg = n /\ n \in disk[sup[s].chan]
  OBVIOUS
<1>. HIDE DEF j
<1>6. /\ u \in SupRecord /\ u.todo = sup[s].todo \ {n} /\ u.chan = sup[s].chan /\ u.cfg = sup[s].cfg
      /\ u.cancelled = sup[s].cancelled /\ u.pc = sup[s].pc /\ u.job = j /\ u.open = sup[s].open
  BY <1>2, <1>4 DEF SupRecord
<1>. HIDE DEF u
<1>7. SupOK(u)
  BY <1>2, <1>6 DEF SupOK
<1>8. SameRun(sup[s], u)
  BY <1>1, <1>6 DEF SameRun, Works, Alive
<1>9. ASSUME u.job # NoJob PROVE JobOK(u)
  <2>1. u.job.step = "lookup" /\ u.job.seg = n /\ n \in disk[u.chan]
    BY <1>5, <1>6, <1>9
  <2>2. n \in 1 .. written[u.chan] /\ (u.chan \notin hasty => n # u.open)
    BY <1>2, <1>3, <1>6, <1>1, WatchParts DEF SupOK
  <2>3. <<u.chan, n>> \in expired => <<u.chan, n>> \in late
    BY <2>1 DEF CaptureInv, ArchiveOK, ExpiredOK
  <2> QED BY <2>1, <2>2, <2>3 DEF JobOK, HasId, Uploaded
<1> QED BY <1>1, <1>6, <1>7, <1>8, <1>9, LocalKeeps

-----------------------------------------------------------------------------
(* A step of a job, and what it does to the archive.                       *)

\* What has not expired stays, and stays ready.
Gains ==
  /\ nextId <= nextId'
  /\ \A q \in rows' : q.id < nextId => \E r \in rows : r.id = q.id /\ r.key = q.key
  /\ \A r \in rows : r.key \notin expired =>
       \E q \in rows' : q.id = r.id /\ q.key = r.key /\ (r.status = "ready" => q.status = "ready")
  /\ \A k \in objects : k \notin expired => k \in objects'

LEMMA JobStays ==
  ASSUME Gains, RecordingsOK, RecordingsOK', UNCHANGED <<written, hasty>>, late \subseteq late',
         NEW u \in SupRecord, JobOK(u), <<u.chan, u.job.seg>> \in expired' => <<u.chan, u.job.seg>> \in late'
  PROVE  JobOK(u)'
<1>. DEFINE k == <<u.chan, u.job.seg>>
<1>0. k \notin late' => k \notin late /\ k \notin expired
  BY DEF JobOK
<1>1. \A r \in rows : r.key = k /\ k \notin late' =>
        \E q \in rows' : q.id = r.id /\ q.key = k /\ (r.status = "ready" => q.status = "ready")
  BY <1>0 DEF Gains
<1>2. k \notin late' /\ Ready(k) => Ready(k)'
  BY <1>1 DEF Ready, RowOf
<1>3. k \notin late' /\ k \in objects => k \in objects'
  BY <1>0 DEF Gains
<1>4. ASSUME u.job.step \in HasId PROVE u.job.id < nextId' /\ \A r \in rows' : r.id = u.job.id => r.key = k
  <2>1. u.job.id < nextId /\ (\A r \in rows : r.id = u.job.id => r.key = k)
    BY <1>4 DEF JobOK
  <2>2. u.job.id \in Int /\ nextId \in Int /\ nextId' \in Int
    BY Bounds DEF SupRecord, JobRecord, RecordingsOK
  <2> QED BY <2>1, <2>2 DEF Gains
<1>5. k \notin late' /\ u.job.step \in HasId => \E q \in rows' : q.id = u.job.id /\ q.key = k
  BY <1>0, <1>1 DEF JobOK
<1> QED BY <1>0, <1>2, <1>3, <1>4, <1>5 DEF JobOK

\* The supervisors that have no part in a step of the archive.
LEMMA OthersWork ==
  ASSUME CaptureInv, Gains, RecordingsOK', UNCHANGED <<disk, written, hasty, expired, late>>,
         NEW t \in Sups, sup'[t] = sup[t]
  PROVE  /\ Works(sup[t])' => SupOK(sup[t])'
         /\ (sup[t].job # NoJob)' => Works(sup[t])' /\ JobOK(sup[t])'
<1>1. /\ Works(sup[t]) => SupOK(sup[t])
      /\ sup[t].job # NoJob => Works(sup[t]) /\ JobOK(sup[t])
  BY DEF CaptureInv, WorkOK
<1>2. PICK u \in SupRecord : u = sup[t]
  BY WatchParts
<1>3. JobOK(u) => JobOK(u)'
  <2>1. RecordingsOK
    BY DEF CaptureInv, ArchiveOK
  <2>2. JobOK(u) => (<<u.chan, u.job.seg>> \in expired' => <<u.chan, u.job.seg>> \in late')
    BY DEF JobOK
  <2>. HIDE <1>2
  <2> QED BY <2>1, <2>2, JobStays
<1>4. SupOK(u) => SupOK(u)'
  BY DEF SupOK
<1>5. JobOK(u)' => JobOK(sup[t])'
  BY <1>2 DEF JobOK, Ready, RowOf
<1>6. SupOK(u)' => SupOK(sup[t])'
  BY <1>2 DEF SupOK
<1> QED BY <1>1, <1>2, <1>3, <1>4, <1>5, <1>6 DEF Works

\* A supervisor's job moves on, while the archive gains.
LEMMA JobKeeps ==
  ASSUME CaptureInv, NEW s \in Sups, Alive(s), NEW u \in SupRecord, SetSup(s, u),
         UNCHANGED <<settings, hasty, running, manager, disk, written>>,
         u.chan = sup[s].chan, u.cfg = sup[s].cfg, u.cancelled = sup[s].cancelled, u.pc = sup[s].pc,
         u.todo = sup[s].todo, u.open = sup[s].open,
         u.job # NoJob => JobOK(u)',
         Gains, UNCHANGED <<expired, late>>, ArchiveOK', objects' \subseteq Keys
  PROVE  CaptureInv'
<1>1. sup' = [sup EXCEPT ![s] = u] /\ SameRun(sup[s], u)
  BY WatchParts DEF SetSup, SameRun, Works
<1>2. Types'
  BY <1>1 DEF CaptureInv, Types
<1>3. WatchOK'
  BY <1>1, WatchStays DEF CaptureInv
<1>4. sup \in [Sups -> SupRecord]
  BY DEF CaptureInv, Types
<1>5. WorkOK'
  <2> SUFFICES ASSUME NEW t \in Sups
               PROVE /\ Works(sup[t])' => SupOK(sup[t])'
                     /\ (sup[t].job # NoJob)' => Works(sup[t])' /\ JobOK(sup[t])'
    BY DEF WorkOK, Works
  <2>1. CASE t = s
    <3>1. sup'[t] = u
      BY <1>1, <1>4, <2>1
    <3>2. SupOK(sup[s])
      BY WatchParts
    <3>3. SupOK(sup[t])'
      BY <3>1, <3>2 DEF SupOK
    <3>4. u.job # NoJob => JobOK(sup[t])'
      BY <3>1 DEF JobOK, Ready, RowOf
    <3> QED BY <1>1, <3>1, <3>3, <3>4 DEF SameRun, Works
  <2>2. CASE t # s
    <3>1. sup'[t] = sup[t]
      BY <1>1, <1>4, <2>2
    <3> QED BY <3>1, OthersWork DEF ArchiveOK
  <2> QED BY <2>1, <2>2
<1> QED BY <1>2, <1>3, <1>5 DEF CaptureInv

\* The key of a job, which is not past the retention unless it is late.
LEMMA JobKey ==
  ASSUME CaptureInv, NEW s \in Sups, Alive(s), sup[s].job.step # "none"
  PROVE  /\ sup[s] \in SupRecord /\ sup[s].job # NoJob /\ JobOK(sup[s])
         /\ sup[s].chan \in Channels /\ sup[s].job.seg \in 1 .. written[sup[s].chan]
         /\ Segment(s) = <<sup[s].chan, sup[s].job.seg>> /\ Segment(s) \in Keys
         /\ Segment(s)[1] = sup[s].chan /\ Segment(s)[2] = sup[s].job.seg
         /\ Segment(s) \in expired => Segment(s) \in late
         /\ Segment(s)[2] \in 1 .. written[Segment(s)[1]]
<1>1. sup[s].job # NoJob /\ JobOK(sup[s])
  BY IdleJob, WatchParts
<1>2. sup[s] \in SupRecord /\ sup[s].chan \in Channels /\ sup[s].job.seg \in 1 .. written[sup[s].chan]
  BY <1>1, WatchParts DEF JobOK
<1>3. sup[s].job.seg \in Segments
  BY <1>1, <1>2, WatchParts, Bounds DEF Segments
<1>4. Segment(s) = <<sup[s].chan, sup[s].job.seg>> /\ Segment(s) \in Keys
  BY <1>2, <1>3, Bounds DEF Segment, Key
<1>5. Segment(s) \in expired => Segment(s) \in late
  BY <1>1, <1>4 DEF JobOK
<1> QED BY <1>1, <1>2, <1>4, <1>5

LEMMA LookupKeeps == ASSUME CaptureInv, NEW s \in Sups, Lookup(s) PROVE CaptureInv'
<1>1. Alive(s) /\ sup[s].job.step = "lookup" /\ sup[s].job.step # "none"
  BY DEF Lookup, AtStep
<1>2. PICK step \in {"create", "upload"}, id \in 0 .. MaxId :
        /\ Job(s, step, id)
        /\ step = "upload" => \E r \in rows : r.id = id /\ r.key = Segment(s)
  <2>1. CASE RowOf(Segment(s)) = {}
    <3>1. 0 \in 0 .. MaxId
      BY Bounds
    <3> QED BY <2>1, <3>1 DEF Lookup
  <2>2. CASE RowOf(Segment(s)) # {}
    <3>1. PICK r \in RowOf(Segment(s)) : Job(s, "upload", r.id)
      BY <2>2 DEF Lookup
    <3>2. r \in rows /\ r.key = Segment(s) /\ r.id \in 0 .. MaxId
      BY Bounds DEF RowOf, CaptureInv, ArchiveOK, RecordingsOK, Row
    <3> QED BY <3>1, <3>2
  <2> QED BY <2>1, <2>2
<1>. PICK u : u = Moved(sup[s], step, id)
  OBVIOUS
<1>3. Local(s, u)
  BY <1>2 DEF Job, Local, Lookup, WorkerIdle, Moved
<1>4. /\ u \in SupRecord /\ u.job.seg = sup[s].job.seg /\ u.job.step = step /\ u.job.id = id
      /\ u.chan = sup[s].chan /\ u.cfg = sup[s].cfg /\ u.cancelled = sup[s].cancelled /\ u.pc = sup[s].pc
      /\ u.todo = sup[s].todo /\ u.open = sup[s].open
  <2>1. step \in Steps /\ sup[s] \in SupRecord
    BY <1>1, JobKey DEF Steps
  <2> QED BY <2>1, JobMoves
<1>5. SameRun(sup[s], u) /\ SupOK(u)
  BY <1>1, <1>4, WatchParts DEF SameRun, SupOK, Works
<1>6. JobOK(u)
  <2>1. step = "upload" => id < nextId /\ \A r \in rows : r.id = id => r.key = Segment(s)
    BY <1>2 DEF CaptureInv, ArchiveOK, RecordingsOK
  <2> QED BY <1>1, <1>2, <1>4, <2>1, JobKey DEF JobOK, HasId, Uploaded
<1> QED BY <1>1, <1>3, <1>4, <1>5, <1>6, LocalKeeps

LEMMA RegisterKeeps == ASSUME CaptureInv, NEW s \in Sups, Register(s) PROVE CaptureInv'
<1>. DEFINE k == sup[s].job.id
<1>1. Alive(s) /\ sup[s].job.step = "register" /\ sup[s].job.step # "none"
  BY DEF Register, AtStep
<1>2. \/ EndJob(s)
      \/ /\ Job(s, "remove", k) /\ \E r \in rows : r.id = k /\ r.status = "ready"
      \/ Job(s, "ready", k)
  BY DEF Register
<1>3. UNCHANGED <<recordingVars, settings, hasty, running, manager, disk, written>>
  BY DEF Register, WorkerIdle
<1>4. CASE EndJob(s)
  <2>1. Local(s, [sup[s] EXCEPT !.job = NoJob])
    BY <1>3, <1>4 DEF EndJob, Local
  <2> QED BY <1>1, <2>1, JobEnds, JobKey, GoesOn DEF Works, Alive
<1>5. ASSUME NEW step \in {"remove", "ready"}, Job(s, step, k),
             step = "remove" => \E r \in rows : r.id = k /\ r.status = "ready"
      PROVE  CaptureInv'
  <2>. PICK u : u = Moved(sup[s], step, k)
    OBVIOUS
  <2>1. Local(s, u)
    BY <1>3, <1>5 DEF Job, Local, Moved
  <2>2. k \in 0 .. MaxId
    BY <1>1, JobKey DEF SupRecord, JobRecord
  <2>3. /\ u \in SupRecord /\ u.job.seg = sup[s].job.seg /\ u.job.step = step /\ u.job.id = k
        /\ u.chan = sup[s].chan /\ u.cfg = sup[s].cfg /\ u.cancelled = sup[s].cancelled /\ u.pc = sup[s].pc
        /\ u.todo = sup[s].todo /\ u.open = sup[s].open
    <3>1. step \in Steps /\ sup[s] \in SupRecord
      BY <1>1, JobKey DEF Steps
    <3>. HIDE DEF k
    <3> QED BY <2>2, <3>1, JobMoves
  <2>4. SameRun(sup[s], u) /\ SupOK(u)
    BY <1>1, <2>3, WatchParts DEF SameRun, SupOK, Works
  <2>5. JobOK(sup[s]) /\ Segment(s) = <<sup[s].chan, sup[s].job.seg>>
    BY <1>1, JobKey
  <2>6. ASSUME step = "remove" PROVE Ready(Segment(s))
    <3>1. \A r \in rows : r.id = k => r.key = Segment(s)
      BY <1>1, <2>5 DEF JobOK, HasId
    <3>2. PICK r \in rows : r.id = k /\ r.status = "ready"
      BY <1>5, <2>6
    <3> QED BY <3>1, <3>2 DEF Ready, RowOf
  <2>7. JobOK(u)
    BY <1>1, <2>3, <2>5, <2>6 DEF JobOK, HasId, Uploaded
  <2> QED BY <1>1, <2>1, <2>3, <2>4, <2>7, LocalKeeps
<1> QED BY <1>2, <1>4, <1>5

LEMMA CreateKeeps == ASSUME CaptureInv, NEW s \in Sups, CreateRow(s) PROVE CaptureInv'
<1>. DEFINE k == Segment(s)
            new == [id |-> nextId, key |-> k, status |-> "pending"]
<1>1. Alive(s) /\ sup[s].job.step = "create" /\ sup[s].job.step # "none"
  BY DEF CreateRow, AtStep
<1>2. UNCHANGED <<settings, hasty, running, manager, disk, written>>
  BY DEF CreateRow, WorkerIdle
<1>3. CASE EndJob(s) /\ UNCHANGED recordingVars
  <2>1. Local(s, [sup[s] EXCEPT !.job = NoJob])
    BY <1>2, <1>3 DEF EndJob, Local
  <2> QED BY <1>1, <2>1, JobEnds, JobKey, GoesOn DEF Works, Alive
<1>4. CASE CreateVideo(k) /\ Job(s, "upload", nextId)
  <2>. PICK u : u = Moved(sup[s], "upload", nextId)
    OBVIOUS
  <2>0. ArchiveOK /\ Types
    BY DEF CaptureInv
  <2>1. /\ RowOf(k) = {} /\ nextId <= MaxId /\ rows' = rows \cup {new} /\ nextId' = nextId + 1
        /\ UNCHANGED <<objects, expired, late, prune>>
    BY <1>4 DEF CreateVideo
  <2>2. SetSup(s, u)
    BY <1>4 DEF Job, Moved
  <2>3. nextId \in 1 .. MaxId /\ nextId \in 0 .. MaxId /\ nextId + 1 \in 1 .. MaxId + 1 /\ nextId \in Nat
    BY <2>0, <2>1, Bounds DEF ArchiveOK, RecordingsOK
  <2>4. /\ u \in SupRecord /\ u.job.seg = sup[s].job.seg /\ u.job.step = "upload" /\ u.job.id = nextId
        /\ u.chan = sup[s].chan /\ u.cfg = sup[s].cfg /\ u.cancelled = sup[s].cancelled /\ u.pc = sup[s].pc
        /\ u.todo = sup[s].todo /\ u.open = sup[s].open
    <3>1. "upload" \in Steps /\ sup[s] \in SupRecord
      BY <1>1, JobKey DEF Steps
    <3> QED BY <2>3, <3>1, JobMoves
  <2>5. /\ k \in Keys /\ k = <<sup[s].chan, sup[s].job.seg>> /\ (k \in expired => k \in late)
        /\ k[1] = sup[s].chan /\ k[2] = sup[s].job.seg /\ JobOK(sup[s])
        /\ k[2] \in 1 .. written[k[1]]
    BY <1>1, JobKey
  <2>6. new \in Row /\ new.id = nextId /\ new.key = k /\ new.status = "pending"
    BY <2>3, <2>5 DEF Row
  <2>. HIDE DEF new, k
  <2>7. RecordingsOK'
    <3>1. rows' \subseteq Row /\ nextId' \in 1 .. MaxId' + 1
      BY <2>0, <2>1, <2>3, <2>6 DEF ArchiveOK, RecordingsOK
    <3>2. \A r \in rows : r.id < nextId /\ r.id \in Nat
      BY <2>0 DEF ArchiveOK, RecordingsOK, Row
    <3>3. \A r, q \in rows' : r.id = q.id => r = q
      BY <2>0, <2>1, <2>3, <2>6, <3>2 DEF ArchiveOK, RecordingsOK
    <3>4. \A r \in rows' : r.id < nextId' /\ r.key[2] <= written'[r.key[1]]
      <4>1. k[2] <= written[k[1]]
        BY <2>5, <2>0, Bounds, WatchParts, <1>1 DEF CaptureInv
      <4> QED BY <1>2, <2>0, <2>1, <2>3, <2>6, <3>2, <4>1 DEF ArchiveOK, RecordingsOK
    <3> QED BY <3>1, <3>3, <3>4 DEF RecordingsOK, Row
  <2>8. ExpiredOK'
    BY <1>2, <2>0, <2>1 DEF ArchiveOK, ExpiredOK
  <2>9. PruneOK'
    <3>1. prune \in PruneRec /\ prune.row \in Nat /\ prune.row < nextId
      BY <2>0 DEF ArchiveOK, PruneOK, PruneRec
    <3>2. \A r \in prune.listed : r.id < nextId /\ r.id \in Nat
      BY <2>0 DEF ArchiveOK, PruneOK, PruneRec, Row
    <3>3. prune' \in PruneRec' /\ prune'.row < nextId'
      BY <2>1, <2>3, <3>1 DEF PruneRec, Row
    <3>4. \A r \in prune'.listed : r.id < nextId' /\ r.key \in expired' /\ \A q \in rows' : q.id = r.id => q.key = r.key
      BY <2>0, <2>1, <2>3, <2>6, <3>2 DEF ArchiveOK, PruneOK
    <3>5. \A q \in rows' : q.id = prune'.row => q.key \in expired' /\ (q.key \notin late' => q.key \notin objects')
      BY <2>0, <2>1, <2>3, <2>6, <3>1 DEF ArchiveOK, PruneOK
    <3> QED BY <3>3, <3>4, <3>5 DEF PruneOK
  <2>10. SegmentKept'
    BY <1>2, <2>0, <2>1 DEF ArchiveOK, SegmentKept, Ready, RowOf
  <2>11. ReadyHasObject'
    BY <2>0, <2>1, <2>6 DEF ArchiveOK, ReadyHasObject
  <2>12. NoStrandedObject'
    BY <1>2, <2>0, <2>1 DEF ArchiveOK, NoStrandedObject, Findable, RowOf
  <2>13. Gains
    BY <2>1, <2>3, <2>6 DEF Gains
  <2>14. u.job # NoJob => JobOK(u)'
    <3>1. /\ u.job.step # "none" /\ u.job.seg \in 1 .. written'[u.chan] /\ (u.chan \notin hasty' => u.job.seg # u.open)
          /\ <<u.chan, u.job.seg>> \in expired' => <<u.chan, u.job.seg>> \in late'
      BY <1>2, <2>1, <2>4, <2>5 DEF JobOK
    <3>2. new \in rows' /\ new.id = u.job.id /\ new.key = <<u.chan, u.job.seg>>
      BY <2>1, <2>4, <2>5, <2>6
    <3>3. u.job.id < nextId' /\ \A r \in rows' : r.id = u.job.id => r.key = <<u.chan, u.job.seg>>
      <4>1. \A r \in rows : r.id < nextId /\ r.id \in Nat
        BY <2>0 DEF ArchiveOK, RecordingsOK, Row
      <4> QED BY <2>1, <2>3, <2>4, <2>6, <3>2, <4>1
    <3> QED BY <2>4, <3>1, <3>2, <3>3 DEF JobOK, HasId, Uploaded
  <2>15. objects' \subseteq Keys /\ UNCHANGED <<expired, late>>
    BY <2>0, <2>1 DEF Types
  <2>16. ArchiveOK'
    BY <2>7, <2>8, <2>9, <2>10, <2>11, <2>12 DEF ArchiveOK
  <2> QED BY <1>1, <1>2, <2>2, <2>4, <2>13, <2>14, <2>15, <2>16, JobKeeps
<1> QED BY <1>3, <1>4 DEF CreateRow

LEMMA UploadKeeps == ASSUME CaptureInv, NEW s \in Sups, Upload(s) PROVE CaptureInv'
<1>. DEFINE k == Segment(s)
<1>. PICK u : u = Moved(sup[s], "register", sup[s].job.id)
  OBVIOUS
<1>0. ArchiveOK /\ Types
  BY DEF CaptureInv
<1>1. Alive(s) /\ sup[s].job.step = "upload" /\ sup[s].job.step # "none"
  BY DEF Upload, AtStep
<1>2. /\ UNCHANGED <<settings, hasty, running, manager, disk, written>>
      /\ objects' = objects \cup {k} /\ UNCHANGED <<rows, nextId, expired, late, prune>>
  BY DEF Upload, UploadOnce, WorkerIdle
<1>3. SetSup(s, u)
  BY DEF Upload, Job, Moved
<1>4. /\ u \in SupRecord /\ u.job.seg = sup[s].job.seg /\ u.job.step = "register" /\ u.job.id = sup[s].job.id
      /\ u.chan = sup[s].chan /\ u.cfg = sup[s].cfg /\ u.cancelled = sup[s].cancelled /\ u.pc = sup[s].pc
      /\ u.todo = sup[s].todo /\ u.open = sup[s].open
  <2>1. "register" \in Steps /\ sup[s] \in SupRecord /\ sup[s].job.id \in 0 .. MaxId
    BY <1>1, JobKey DEF Steps, SupRecord, JobRecord
  <2> QED BY <2>1, JobMoves
<1>5. /\ k \in Keys /\ k = <<sup[s].chan, sup[s].job.seg>> /\ JobOK(sup[s])
      /\ k \notin late => k \notin expired /\ RowOf(k) # {}
  <2>1. /\ k \in Keys /\ k = <<sup[s].chan, sup[s].job.seg>> /\ JobOK(sup[s])
    BY <1>1, JobKey
  <2> QED BY <1>1, <2>1 DEF JobOK, HasId, RowOf
<1>. HIDE DEF k
<1>6. RecordingsOK' /\ ExpiredOK'
  BY <1>0, <1>2 DEF ArchiveOK, RecordingsOK, ExpiredOK
<1>7. PruneOK'
  BY <1>0, <1>2, <1>5 DEF ArchiveOK, PruneOK
<1>8. SegmentKept' /\ ReadyHasObject' /\ NoStrandedObject'
  BY <1>0, <1>2, <1>5 DEF ArchiveOK, SegmentKept, ReadyHasObject, NoStrandedObject, Findable, Ready, RowOf
<1>9. Gains
  <2>1. nextId \in Int
    BY <1>0, Bounds DEF ArchiveOK, RecordingsOK
  <2> QED BY <1>2, <2>1 DEF Gains
<1>10. u.job # NoJob => JobOK(u)'
  BY <1>1, <1>2, <1>4, <1>5 DEF JobOK, HasId, Uploaded
<1>11. objects' \subseteq Keys /\ UNCHANGED <<expired, late>>
  BY <1>0, <1>2, <1>5 DEF Types
<1> QED BY <1>1, <1>2, <1>3, <1>4, <1>6, <1>7, <1>8, <1>9, <1>10, <1>11, JobKeeps DEF ArchiveOK

LEMMA MarkReadyKeeps == ASSUME CaptureInv, NEW s \in Sups, MarkReady(s) PROVE CaptureInv'
<1>. DEFINE k == Segment(s)
            id == sup[s].job.id
            Marked(r) == IF r.id = id THEN [r EXCEPT !.status = "ready"] ELSE r
<1>1. Alive(s) /\ sup[s].job.step = "ready" /\ sup[s].job.step # "none"
  BY DEF MarkReady, AtStep
<1>2. UNCHANGED <<settings, hasty, running, manager, disk, written>>
  BY DEF MarkReady, WorkerIdle
<1>3. CASE EndJob(s) /\ UNCHANGED recordingVars
  <2>1. Local(s, [sup[s] EXCEPT !.job = NoJob])
    BY <1>2, <1>3 DEF EndJob, Local
  <2> QED BY <1>1, <2>1, JobEnds, JobKey, GoesOn DEF Works, Alive
<1>4. CASE SetVideoStatus(id) /\ Job(s, "remove", id)
  <2>. PICK u : u = Moved(sup[s], "remove", id)
    OBVIOUS
  <2>0. ArchiveOK /\ Types
    BY DEF CaptureInv
  <2>1. rows' = {Marked(r) : r \in rows} /\ UNCHANGED <<objects, nextId, expired, late, prune>>
    BY <1>4 DEF SetVideoStatus
  <2>2. SetSup(s, u)
    BY <1>4 DEF Job, Moved
  <2>3. sup[s] \in SupRecord /\ id \in 0 .. MaxId
    BY <1>1, JobKey DEF SupRecord, JobRecord
  <2>4. /\ u \in SupRecord /\ u.job.seg = sup[s].job.seg /\ u.job.step = "remove" /\ u.job.id = id
        /\ u.chan = sup[s].chan /\ u.cfg = sup[s].cfg /\ u.cancelled = sup[s].cancelled /\ u.pc = sup[s].pc
        /\ u.todo = sup[s].todo /\ u.open = sup[s].open
    <3>1. "remove" \in Steps
      BY DEF Steps
    <3>. HIDE DEF id
    <3> QED BY <2>3, <3>1, JobMoves
  <2>5. /\ k \in Keys /\ k = <<sup[s].chan, sup[s].job.seg>> /\ JobOK(sup[s]) /\ (k \in expired => k \in late)
    BY <1>1, JobKey
  <2>6. /\ k \notin late => k \in objects /\ \E r \in rows : r.id = id /\ r.key = k
        /\ \A r \in rows : r.id = id => r.key = k
        /\ id < nextId
    BY <1>1, <2>5 DEF JobOK, HasId, Uploaded
  <2>7. \A r \in rows : /\ Marked(r) \in Row /\ Marked(r).id = r.id /\ Marked(r).key = r.key
                        /\ r.status = "ready" => Marked(r).status = "ready"
                        /\ r.id = id => Marked(r).status = "ready"
                        /\ r.id # id => Marked(r) = r
    BY <2>0 DEF ArchiveOK, RecordingsOK, Row
  <2>8. \A q \in rows' : \E r \in rows : q = Marked(r)
    BY <2>1
  <2>9. \A r \in rows : Marked(r) \in rows'
    BY <2>1
  <2>. HIDE DEF Marked, k, id
  <2>10. RecordingsOK'
    <3>1. rows' \subseteq Row' /\ nextId' \in 1 .. MaxId + 1
      BY <2>0, <2>1, <2>7, <2>8 DEF ArchiveOK, RecordingsOK, Row
    <3>2. \A r, q \in rows' : r.id = q.id => r = q
      BY <2>0, <2>7, <2>8 DEF ArchiveOK, RecordingsOK
    <3>3. \A r \in rows' : r.id < nextId' /\ r.key[2] <= written'[r.key[1]]
      BY <1>2, <2>0, <2>1, <2>7, <2>8 DEF ArchiveOK, RecordingsOK
    <3> QED BY <3>1, <3>2, <3>3 DEF RecordingsOK, Row
  <2>11. ExpiredOK'
    BY <1>2, <2>0, <2>1 DEF ArchiveOK, ExpiredOK
  <2>12. PruneOK'
    <3>1. prune' \in PruneRec' /\ prune'.row < nextId'
      BY <2>0, <2>1 DEF ArchiveOK, PruneOK, PruneRec, Row
    <3>2. \A r \in prune'.listed : r.id < nextId' /\ r.key \in expired' /\ \A q \in rows' : q.id = r.id => q.key = r.key
      BY <2>0, <2>1, <2>7, <2>8 DEF ArchiveOK, PruneOK
    <3>3. \A q \in rows' : q.id = prune'.row => q.key \in expired' /\ (q.key \notin late' => q.key \notin objects')
      BY <2>0, <2>1, <2>7, <2>8 DEF ArchiveOK, PruneOK
    <3> QED BY <3>1, <3>2, <3>3 DEF PruneOK
  <2>13. \A x : Ready(x) => Ready(x)'
    BY <2>7, <2>9 DEF Ready, RowOf
  <2>14. SegmentKept'
    BY <1>2, <2>0, <2>1, <2>13 DEF ArchiveOK, SegmentKept
  <2>15. ReadyHasObject'
    <3> SUFFICES ASSUME NEW q \in rows', q.status = "ready" PROVE q.key \in objects' \/ q.key \in expired'
      BY DEF ReadyHasObject
    <3>1. PICK r \in rows : q = Marked(r)
      BY <2>8
    <3>2. CASE r.id = id
      <4>1. r.key = k
        BY <2>6, <3>2
      <4>2. k \in late => k \in expired
        BY <2>0 DEF ArchiveOK, ExpiredOK
      <4> QED BY <2>1, <2>6, <2>7, <3>1, <4>1, <4>2
    <3>3. CASE r.id # id
      BY <2>0, <2>1, <2>7, <3>1, <3>3 DEF ArchiveOK, ReadyHasObject
    <3> QED BY <3>2, <3>3
  <2>16. NoStrandedObject'
    <3>1. \A x : RowOf(x) # {} => RowOf(x)' # {}
      BY <2>7, <2>9 DEF RowOf
    <3> QED BY <1>2, <2>0, <2>1, <3>1 DEF ArchiveOK, NoStrandedObject, Findable
  <2>17. Gains
    <3>1. nextId \in Int
      BY <2>0, Bounds DEF ArchiveOK, RecordingsOK
    <3> QED BY <2>1, <2>7, <2>8, <2>9, <3>1 DEF Gains
  <2>18. u.job # NoJob => JobOK(u)'
    <3>1. /\ (u.chan \notin hasty' => u.job.seg # u.open) /\ u.job.seg \in 1 .. written'[u.chan]
          /\ k = <<u.chan, u.job.seg>> /\ (k \in expired' => k \in late')
      BY <1>2, <2>1, <2>4, <2>5 DEF JobOK
    <3>2. u.job.id < nextId' /\ \A q \in rows' : q.id = u.job.id => q.key = k
      BY <2>1, <2>4, <2>6, <2>7, <2>8
    <3>3. ASSUME k \notin late'
          PROVE  k \in objects' /\ \E q \in rows' : q.id = u.job.id /\ q.key = k /\ q.status = "ready"
      <4>1. PICK r \in rows : r.id = id /\ r.key = k
        BY <2>1, <2>6, <3>3
      <4>2. Marked(r) \in rows' /\ Marked(r).id = id /\ Marked(r).key = k /\ Marked(r).status = "ready"
        BY <2>7, <2>9, <4>1
      <4>3. k \in objects'
        BY <2>1, <2>6, <3>3
      <4> QED BY <2>4, <4>2, <4>3
    <3>4. u.job.step = "remove"
      BY <2>4
    <3> QED BY <3>1, <3>2, <3>3, <3>4 DEF JobOK, Ready, RowOf, HasId, Uploaded
  <2>19. objects' \subseteq Keys /\ UNCHANGED <<expired, late>>
    BY <2>0, <2>1 DEF Types
  <2>20. ArchiveOK'
    BY <2>10, <2>11, <2>12, <2>14, <2>15, <2>16 DEF ArchiveOK
  <2> QED BY <1>1, <1>2, <2>2, <2>4, <2>17, <2>18, <2>19, <2>20, JobKeeps
<1> QED BY <1>3, <1>4 DEF MarkReady

\* A segment leaves the disk once its object is stored and its row is ready.
LEMMA RemoveSegmentKeeps == ASSUME CaptureInv, NEW s \in Sups, RemoveSegment(s) PROVE CaptureInv'
<1>. DEFINE c == sup[s].chan
            n == sup[s].job.seg
<1>. PICK u : u = [sup[s] EXCEPT !.job = NoJob]
  OBVIOUS
<1>0. Types /\ ArchiveOK /\ WatchOK /\ WorkOK
  BY DEF CaptureInv
<1>1. Alive(s) /\ sup[s].job.step = "remove" /\ sup[s].job.step # "none"
  BY DEF RemoveSegment, AtStep
<1>2. /\ disk' = [disk EXCEPT ![c] = disk[c] \ {n}] /\ sup' = [sup EXCEPT ![s] = u]
      /\ UNCHANGED <<rows, objects, nextId, expired, late, prune, settings, hasty, running, manager, written>>
  BY DEF RemoveSegment, EndJob, SetSup, recordingVars
<1>3. /\ sup[s] \in SupRecord /\ JobOK(sup[s]) /\ c \in Channels /\ Segment(s) = <<c, n>> /\ SupOK(sup[s])
  BY <1>1, JobKey, WatchParts
<1>4. /\ u \in SupRecord /\ u.job = NoJob
      /\ u.chan = sup[s].chan /\ u.cfg = sup[s].cfg /\ u.cancelled = sup[s].cancelled /\ u.pc = sup[s].pc
      /\ u.todo = sup[s].todo /\ u.open = sup[s].open
  BY <1>3, JobEnds
<1>5. /\ <<c, n>> \notin late => <<c, n>> \in objects /\ Ready(<<c, n>>)
      /\ <<c, n>> \in late => <<c, n>> \in expired
      /\ c \notin hasty => n # sup[s].open
  BY <1>0, <1>1, <1>3 DEF JobOK, Uploaded, ArchiveOK, ExpiredOK
<1>6. /\ \A d \in Channels : d # c => disk'[d] = disk[d]
      /\ disk'[c] = disk[c] \ {n} /\ \A d \in Channels : disk'[d] \subseteq disk[d]
      /\ disk' \in [Channels -> SUBSET Segments]
  BY <1>0, <1>2, <1>3 DEF Types
<1>. HIDE DEF c, n
<1>7. Types'
  BY <1>0, <1>2, <1>4, <1>6 DEF Types
<1>8. WatchOK'
  <2>1. SameRun(sup[s], u)
    BY <1>1, <1>4 DEF SameRun, Works, Alive
  <2> QED BY <1>0, <1>2, <2>1, WatchStays
<1>9. RecordingsOK' /\ PruneOK'
  BY <1>0, <1>2 DEF ArchiveOK, RecordingsOK, PruneOK
<1>10. ExpiredOK'
  <2>1. \A k \in expired : k[1] \in Channels
    BY <1>0, Bounds DEF Types
  <2> QED BY <1>0, <1>2, <1>6, <2>1 DEF ArchiveOK, ExpiredOK
<1>11. SegmentKept'
  <2> SUFFICES ASSUME NEW d \in Channels, NEW m \in 1 .. written'[d]
               PROVE  m \in disk'[d] \/ (<<d, m>> \in objects' /\ Ready(<<d, m>>)') \/ <<d, m>> \in expired'
    BY DEF SegmentKept
  <2>1. m \in disk[d] \/ (<<d, m>> \in objects /\ Ready(<<d, m>>)) \/ <<d, m>> \in expired
    BY <1>0, <1>2 DEF ArchiveOK, SegmentKept
  <2>2. \A x : Ready(x)' <=> Ready(x)
    BY <1>2 DEF Ready, RowOf
  <2>3. m \in disk[d] => m \in disk'[d] \/ (d = c /\ m = n)
    BY <1>6
  <2> QED BY <1>2, <1>5, <2>1, <2>2, <2>3
<1>12. ReadyHasObject'
  BY <1>0, <1>2 DEF ArchiveOK, ReadyHasObject
<1>13. NoStrandedObject'
  <2> SUFFICES ASSUME NEW k \in objects, k \notin late PROVE RowOf(k)' # {} \/ k[2] \in disk'[k[1]]
    BY <1>2 DEF NoStrandedObject, Findable
  <2>1. \A x : RowOf(x)' = RowOf(x)
    BY <1>2 DEF RowOf
  <2>2. k[1] \in Channels /\ k = <<k[1], k[2]>>
    BY <1>0, Bounds DEF Types
  <2>3. RowOf(k) # {} \/ k[2] \in disk[k[1]]
    BY <1>0 DEF ArchiveOK, NoStrandedObject, Findable
  <2>4. <<c, n>> \notin late => RowOf(<<c, n>>) # {}
    BY <1>5 DEF Ready
  <2>5. k[2] \in disk[k[1]] => k[2] \in disk'[k[1]] \/ (k[1] = c /\ k[2] = n)
    BY <1>6, <2>2
  <2>6. k[1] = c /\ k[2] = n => k = <<c, n>>
    BY <2>2
  <2> QED BY <2>1, <2>3, <2>4, <2>5, <2>6
<1>14. WorkOK'
  <2> SUFFICES ASSUME NEW t \in Sups
               PROVE /\ Works(sup[t])' => SupOK(sup[t])'
                     /\ (sup[t].job # NoJob)' => Works(sup[t])' /\ JobOK(sup[t])'
    BY DEF WorkOK, Works
  <2>0. sup \in [Sups -> SupRecord]
    BY <1>0 DEF Types
  <2>1. CASE t = s
    <3>1. sup'[t] = u
      BY <1>2, <2>0, <2>1
    <3>2. SupOK(sup[s]) /\ u.chan = c
      BY <1>3, <1>4 DEF c
    <3>3. SupOK(u)'
      BY <1>2, <1>4, <1>5, <1>6, <3>2 DEF SupOK
    <3> QED BY <1>4, <3>1, <3>3 DEF Works, SupOK
  <2>2. CASE t # s
    <3>1. sup'[t] = sup[t]
      BY <1>2, <2>0, <2>2
    <3>2. /\ Works(sup[t]) => SupOK(sup[t])
          /\ sup[t].job # NoJob => Works(sup[t]) /\ JobOK(sup[t])
      BY <1>0 DEF WorkOK
    <3>3. CASE Works(sup[t])
      <4>1. sup[t].chan \in Channels /\ (c \notin hasty => sup[t].chan # c)
        BY <1>0, <1>1, <1>3, <2>2, <3>3 DEF WatchOK, OneSupervisor, SupervisedOnce, RunningOK, Alive, Works, c
      <4>2. sup[t].chan \notin hasty => disk'[sup[t].chan] = disk[sup[t].chan]
        BY <1>6, <4>1
      <4>3. SupOK(sup[t])'
        BY <1>2, <3>1, <3>2, <3>3, <4>2 DEF SupOK
      <4>4. sup[t].job # NoJob => JobOK(sup[t])'
        <5>1. \A x : Ready(x)' <=> Ready(x)
          BY <1>2 DEF Ready, RowOf
        <5>2. PICK v : v = sup[t]
          OBVIOUS
        <5>3. JobOK(v) => JobOK(v)'
          BY <1>2, <5>1 DEF JobOK
        <5> QED BY <3>1, <3>2, <5>2, <5>3 DEF JobOK, Ready, RowOf
      <4> QED BY <3>1, <3>3, <4>3, <4>4 DEF Works
    <3>4. CASE ~Works(sup[t])
      BY <3>1, <3>2, <3>4 DEF Works
    <3> QED BY <3>3, <3>4
  <2> QED BY <2>1, <2>2
<1> QED BY <1>7, <1>8, <1>9, <1>10, <1>11, <1>12, <1>13, <1>14 DEF CaptureInv, ArchiveOK

\* The process opens the channel's next segment.
LEMMA RotateKeeps == ASSUME CaptureInv, NEW s \in Sups, Rotate(s) PROVE CaptureInv'
<1>. DEFINE c == sup[s].chan
            n == written[c] + 1
<1>. PICK u : u = [sup[s] EXCEPT !.open = n]
  OBVIOUS
<1>0. Types /\ ArchiveOK /\ WatchOK /\ WorkOK
  BY DEF CaptureInv
<1>1. Alive(s) /\ sup[s].pc = "capture" /\ written[c] < MaxSegments
  BY DEF Rotate, Alive
<1>2. /\ written' = [written EXCEPT ![c] = n] /\ disk' = [disk EXCEPT ![c] = disk[c] \cup {n}]
      /\ sup' = [sup EXCEPT ![s] = u]
      /\ UNCHANGED <<rows, objects, nextId, expired, late, prune, settings, hasty, running, manager>>
  BY DEF Rotate, SetSup, recordingVars
<1>3. sup[s] \in SupRecord /\ c \in Channels /\ SupOK(sup[s]) /\ (sup[s].job # NoJob => JobOK(sup[s]))
      /\ disk[c] \subseteq 1 .. written[c] /\ written[c] \in 0 .. MaxSegments
  BY <1>1, WatchParts
<1>4. n \in Segments /\ n \in 0 .. MaxSegments /\ n # 0 /\ n \notin 1 .. written[c] /\ 1 .. written[c] \subseteq 1 .. n
      /\ n \in 1 .. n /\ written[c] <= n
  BY <1>1, <1>3, Bounds DEF Segments
<1>5. /\ u \in SupRecord /\ u.open = n /\ u.job = sup[s].job
      /\ u.chan = sup[s].chan /\ u.cfg = sup[s].cfg /\ u.cancelled = sup[s].cancelled /\ u.pc = sup[s].pc
      /\ u.todo = sup[s].todo
  <2>. HIDE DEF n, c
  <2> QED BY <1>3, <1>4 DEF SupRecord
<1>. HIDE DEF n
<1>6. /\ \A d \in Channels : d # c => disk'[d] = disk[d] /\ written'[d] = written[d]
      /\ disk'[c] = disk[c] \cup {n} /\ written'[c] = n
      /\ disk' \in [Channels -> SUBSET Segments] /\ written' \in [Channels -> 0 .. MaxSegments]
  BY <1>0, <1>2, <1>3, <1>4 DEF Types
<1>. HIDE DEF c
<1>7. Types'
  <2>1. \A d \in Channels : disk'[d] \subseteq 1 .. written'[d]
    BY <1>0, <1>3, <1>4, <1>6 DEF Types
  <2> QED BY <1>0, <1>2, <1>5, <1>6, <2>1 DEF Types
<1>8. WatchOK'
  <2>1. SameRun(sup[s], u)
    BY <1>1, <1>5 DEF SameRun, Works, Alive
  <2> QED BY <1>0, <1>2, <2>1, WatchStays
<1>9. \A d \in Channels : \A m \in Nat : m <= written[d] => m <= written'[d]
  <2>1. \A d \in Channels : written[d] \in Nat /\ written'[d] \in Nat /\ written[d] <= written'[d]
    BY <1>0, <1>4, <1>6, Bounds DEF Types
  <2> QED BY <2>1
<1>10. \A k \in Keys : k[1] \in Channels /\ k[2] \in Nat /\ k = <<k[1], k[2]>>
  BY Bounds DEF Segments
<1>11. RecordingsOK'
  <2>1. \A r \in rows : r.key \in Keys
    BY <1>0 DEF ArchiveOK, RecordingsOK, Row
  <2> QED BY <1>0, <1>2, <1>9, <1>10, <2>1 DEF ArchiveOK, RecordingsOK
<1>12. PruneOK'
  BY <1>0, <1>2 DEF ArchiveOK, PruneOK
<1>13. ExpiredOK'
  <2> SUFFICES ASSUME NEW k \in expired PROVE k[2] <= written'[k[1]] /\ (k \notin late => k[2] \notin disk'[k[1]])
    BY <1>0, <1>2 DEF ArchiveOK, ExpiredOK
  <2>1. k[1] \in Channels /\ k[2] \in Nat /\ (k \notin late => k[2] \notin disk[k[1]]) /\ k[2] <= written[k[1]]
    BY <1>0, <1>10 DEF ArchiveOK, ExpiredOK, Types
  <2>2. k[1] = c => k[2] # n
    <3>1. k[1] = c => k[2] <= written[c] /\ n = written[c] + 1 /\ written[c] \in Nat
      BY <1>3, <2>1, Bounds DEF n
    <3> QED BY <2>1, <3>1
  <2> QED BY <1>6, <1>9, <2>1, <2>2
<1>14. SegmentKept'
  <2> SUFFICES ASSUME NEW d \in Channels, NEW m \in 1 .. written'[d]
               PROVE  m \in disk'[d] \/ (<<d, m>> \in objects' /\ Ready(<<d, m>>)') \/ <<d, m>> \in expired'
    BY DEF SegmentKept
  <2>1. \A x : Ready(x)' <=> Ready(x)
    BY <1>2 DEF Ready, RowOf
  <2>2. CASE m \in 1 .. written[d]
    <3>1. m \in disk[d] \/ (<<d, m>> \in objects /\ Ready(<<d, m>>)) \/ <<d, m>> \in expired
      BY <1>0, <2>2 DEF ArchiveOK, SegmentKept
    <3>2. m \in disk[d] => m \in disk'[d]
      BY <1>6
    <3> QED BY <1>2, <2>1, <3>1, <3>2
  <2>3. CASE m \notin 1 .. written[d]
    <3>1. d = c
      BY <1>6, <2>3
    <3>2. m = n
      BY <1>3, <1>6, <2>3, <3>1, Bounds DEF n
    <3> QED BY <1>6, <3>1, <3>2
  <2> QED BY <2>2, <2>3
<1>15. ReadyHasObject'
  BY <1>0, <1>2 DEF ArchiveOK, ReadyHasObject
<1>16. NoStrandedObject'
  <2> SUFFICES ASSUME NEW k \in objects, k \notin late PROVE RowOf(k)' # {} \/ k[2] \in disk'[k[1]]
    BY <1>2 DEF NoStrandedObject, Findable
  <2>1. \A x : RowOf(x)' = RowOf(x)
    BY <1>2 DEF RowOf
  <2>2. RowOf(k) # {} \/ k[2] \in disk[k[1]]
    BY <1>0 DEF ArchiveOK, NoStrandedObject, Findable
  <2>3. k[1] \in Channels
    BY <1>0, <1>10 DEF Types
  <2> QED BY <1>6, <2>1, <2>2, <2>3
<1>17. WorkOK'
  <2> SUFFICES ASSUME NEW t \in Sups
               PROVE /\ Works(sup[t])' => SupOK(sup[t])'
                     /\ (sup[t].job # NoJob)' => Works(sup[t])' /\ JobOK(sup[t])'
    BY DEF WorkOK, Works
  <2>0. sup \in [Sups -> SupRecord]
    BY <1>0 DEF Types
  <2>1. CASE t = s
    <3>1. sup'[t] = u
      BY <1>2, <2>0, <2>1
    <3>2. sup[s].todo \subseteq 1 .. written[c] /\ n \notin sup[s].todo
      BY <1>3, <1>4 DEF SupOK, c
    <3>3. SupOK(u)'
      <4>1. u.chan = c /\ u.open = n /\ u.pc = "capture" /\ u.todo = sup[s].todo
        BY <1>1, <1>5 DEF c
      <4>2. u.todo \subseteq 1 .. n /\ n \notin u.todo
        BY <1>4, <3>2, <4>1
      <4>3. n \in disk'[c] /\ written'[c] = n
        BY <1>6
      <4> QED BY <4>1, <4>2, <4>3 DEF SupOK
    <3>4. ASSUME sup[s].job # NoJob PROVE JobOK(sup[t])'
      <4>1. JobOK(sup[s]) /\ sup[s].job.seg \in 1 .. written[c]
        BY <1>3, <3>4 DEF JobOK, c
      <4>2. sup[s].job.seg # n /\ sup[s].job.seg \in 1 .. written'[c]
        BY <1>3, <1>4, <1>6, <4>1
      <4>3. \A x : Ready(x)' <=> Ready(x)
        BY <1>2 DEF Ready, RowOf
      <4>4. JobOK(u)'
        BY <1>2, <1>5, <4>1, <4>2, <4>3 DEF JobOK, c
      <4> QED BY <3>1, <4>4 DEF JobOK, Ready, RowOf
    <3> QED BY <1>1, <1>5, <3>1, <3>3, <3>4 DEF Works, SupOK
  <2>2. CASE t # s
    <3>1. sup'[t] = sup[t]
      BY <1>2, <2>0, <2>2
    <3>2. /\ Works(sup[t]) => SupOK(sup[t])
          /\ sup[t].job # NoJob => Works(sup[t]) /\ JobOK(sup[t])
      BY <1>0 DEF WorkOK
    <3>3. CASE Works(sup[t])
      <4>1. sup[t].chan \in Channels /\ (c \notin hasty => sup[t].chan # c)
        BY <1>0, <1>1, <1>3, <2>2, <3>3 DEF WatchOK, OneSupervisor, SupervisedOnce, RunningOK, Alive, Works, c
      <4>2. /\ sup[t].chan \notin hasty =>
                 disk'[sup[t].chan] = disk[sup[t].chan] /\ written'[sup[t].chan] = written[sup[t].chan]
            /\ 1 .. written[sup[t].chan] \subseteq 1 .. written'[sup[t].chan]
        BY <1>4, <1>6, <4>1
      <4>3. SupOK(sup[t])'
        <5>1. PICK v : v = sup[t]
          OBVIOUS
        <5>2. SupOK(v) /\ hasty' = hasty
          BY <1>2, <3>2, <3>3, <5>1
        <5>3. v.todo \subseteq 1 .. written'[v.chan]
          BY <4>2, <5>1, <5>2 DEF SupOK
        <5>4. v.open # 0 /\ v.chan \notin hasty =>
                v.open = written'[v.chan] /\ v.open \in disk'[v.chan] /\ v.open \notin v.todo
          BY <4>2, <5>1, <5>2 DEF SupOK
        <5>5. SupOK(v)'
          BY <5>2, <5>3, <5>4 DEF SupOK
        <5> QED BY <3>1, <5>1, <5>5 DEF SupOK
      <4>4. sup[t].job # NoJob => JobOK(sup[t])'
        <5>1. \A x : Ready(x)' <=> Ready(x)
          BY <1>2 DEF Ready, RowOf
        <5>2. PICK v : v = sup[t]
          OBVIOUS
        <5>3. JobOK(v) => JobOK(v)'
          BY <1>2, <4>2, <5>1, <5>2 DEF JobOK
        <5> QED BY <3>1, <3>2, <5>2, <5>3 DEF JobOK, Ready, RowOf
      <4> QED BY <3>1, <3>3, <4>3, <4>4 DEF Works
    <3>4. CASE ~Works(sup[t])
      BY <3>1, <3>2, <3>4 DEF Works
    <3> QED BY <3>3, <3>4
  <2> QED BY <2>1, <2>2
<1> QED BY <1>7, <1>8, <1>11, <1>12, <1>13, <1>14, <1>15, <1>16, <1>17 DEF CaptureInv, ArchiveOK

-----------------------------------------------------------------------------
(* The retention.                                                          *)

LEMMA WatchSame ==
  ASSUME WatchOK, UNCHANGED <<settings, hasty, running, manager, sup>>
  PROVE  WatchOK'
BY DEF WatchOK, RunningOK, OneSupervisor, SupervisedOnce, DrainingOK, ManagerOK, ManagerRec, Startable, Vacant, Alive

LEMMA ArchiveAlone ==
  ASSUME CaptureInv, UNCHANGED <<settings, hasty, workerVars, disk, written>>, ArchiveOK',
         Gains, UNCHANGED <<expired, late>>, objects' \subseteq Keys
  PROVE  CaptureInv'
<1>1. Types'
  BY DEF CaptureInv, Types, workerVars
<1>2. WatchOK'
  BY WatchSame DEF CaptureInv, workerVars
<1>3. WorkOK'
  <2> SUFFICES ASSUME NEW t \in Sups
               PROVE /\ Works(sup[t])' => SupOK(sup[t])'
                     /\ (sup[t].job # NoJob)' => Works(sup[t])' /\ JobOK(sup[t])'
    BY DEF WorkOK, Works
  <2>1. sup'[t] = sup[t]
    BY DEF workerVars
  <2> QED BY <2>1, OthersWork DEF ArchiveOK
<1> QED BY <1>1, <1>2, <1>3 DEF CaptureInv

LEMMA PruneListKeeps == ASSUME CaptureInv, PruneList, UNCHANGED <<settings, hasty, workerVars, disk, written>> PROVE CaptureInv'
<1>0. ArchiveOK /\ Types
  BY DEF CaptureInv
<1>1. /\ UNCHANGED <<rows, objects, nextId, expired, late>> /\ prune.row = 0
      /\ prune' = [listed |-> {r \in rows : r.key \in expired}, row |-> 0]
  BY DEF PruneList, Idle
<1>2. RecordingsOK' /\ ExpiredOK' /\ SegmentKept' /\ ReadyHasObject' /\ NoStrandedObject'
  BY <1>0, <1>1 DEF ArchiveOK, RecordingsOK, ExpiredOK, SegmentKept, ReadyHasObject, NoStrandedObject, Findable,
    Ready, RowOf
<1>3. PruneOK'
  <2>1. prune' \in PruneRec /\ prune'.row < nextId'
    BY <1>0, <1>1, Bounds DEF ArchiveOK, PruneOK, PruneRec, RecordingsOK
  <2>2. \A r \in prune'.listed : r \in rows /\ r.key \in expired
    BY <1>1
  <2>3. \A r \in prune'.listed :
          r.id < nextId' /\ r.key \in expired' /\ \A q \in rows' : q.id = r.id => q.key = r.key
    BY <1>0, <1>1, <2>2 DEF ArchiveOK, RecordingsOK
  <2>4. \A q \in rows' : q.id = prune'.row => q.key \in expired' /\ (q.key \notin late' => q.key \notin objects')
    BY <1>0, <1>1 DEF ArchiveOK, PruneOK
  <2> QED BY <2>1, <2>3, <2>4 DEF PruneOK, PruneRec, Row
<1>4. Gains
  <2>1. nextId \in Int
    BY <1>0, Bounds DEF ArchiveOK, RecordingsOK
  <2> QED BY <1>1, <2>1 DEF Gains
<1> QED BY <1>0, <1>1, <1>2, <1>3, <1>4, ArchiveAlone DEF ArchiveOK, Types

\* Before its row a recording's object goes.
LEMMA PruneObjectKeeps ==
  ASSUME CaptureInv, NEW r \in prune.listed, NEW ok \in BOOLEAN, PruneObject(r, ok),
         UNCHANGED <<settings, hasty, workerVars, disk, written>>
  PROVE  CaptureInv'
<1>0. ArchiveOK /\ Types
  BY DEF CaptureInv
<1>1. UNCHANGED <<rows, nextId, expired, late>> /\ prune.row = 0
  BY DEF PruneObject
<1>2. \/ prune' = [listed |-> prune.listed \ {r}, row |-> r.id] /\ objects' = objects \ {r.key}
      \/ prune' = [listed |-> prune.listed \ {r}, row |-> 0] /\ objects' = objects
  BY DEF PruneObject
<1>3. /\ r \in Row /\ r.id \in 0 .. MaxId /\ r.id < nextId /\ r.key \in expired
      /\ \A q \in rows : q.id = r.id => q.key = r.key
  BY <1>0, Bounds DEF ArchiveOK, PruneOK, PruneRec, Row
<1>4. \A k \in objects : k \in objects' \/ k \in expired
  BY <1>2, <1>3
<1>5. objects' \subseteq objects
  BY <1>2
<1>6. RecordingsOK' /\ ExpiredOK'
  BY <1>0, <1>1 DEF ArchiveOK, RecordingsOK, ExpiredOK, workerVars
<1>7. SegmentKept' /\ ReadyHasObject' /\ NoStrandedObject'
  BY <1>0, <1>1, <1>4, <1>5 DEF ArchiveOK, SegmentKept, ReadyHasObject, NoStrandedObject, Findable, Ready, RowOf
<1>8. PruneOK'
  <2>1. prune \in PruneRec /\ 0 \in 0 .. MaxId /\ nextId > 0
    BY <1>0, Bounds DEF ArchiveOK, PruneOK, RecordingsOK
  <2>2. prune' \in PruneRec /\ prune'.row < nextId' /\ prune'.listed \subseteq prune.listed
    BY <1>1, <1>2, <1>3, <2>1 DEF PruneRec
  <2>3. \A x \in prune'.listed :
          x.id < nextId' /\ x.key \in expired' /\ \A q \in rows' : q.id = x.id => q.key = x.key
    BY <1>0, <1>1, <2>2 DEF ArchiveOK, PruneOK
  <2>4. \A q \in rows' : q.id = prune'.row => q.key \in expired' /\ (q.key \notin late' => q.key \notin objects')
    BY <1>0, <1>1, <1>2, <1>3 DEF ArchiveOK, PruneOK
  <2> QED BY <2>2, <2>3, <2>4 DEF PruneOK, PruneRec, Row
<1>9. Gains
  <2>1. nextId \in Int
    BY <1>0, Bounds DEF ArchiveOK, RecordingsOK
  <2> QED BY <1>1, <1>4, <2>1 DEF Gains
<1> QED BY <1>0, <1>1, <1>5, <1>6, <1>7, <1>8, <1>9, ArchiveAlone DEF ArchiveOK, Types

LEMMA PruneRowKeeps ==
  ASSUME CaptureInv, NEW ok \in BOOLEAN, PruneRow(ok), UNCHANGED <<settings, hasty, workerVars, disk, written>>
  PROVE  CaptureInv'
<1>0. ArchiveOK /\ Types
  BY DEF CaptureInv
<1>1. UNCHANGED <<objects, nextId, expired, late>> /\ prune' = [prune EXCEPT !.row = 0]
  BY DEF PruneRow
<1>2. rows' = {r \in rows : r.id # prune.row} \/ rows' = rows
  BY DEF PruneRow
<1>3. rows' \subseteq rows /\ \A r \in rows : r \in rows' \/ r.id = prune.row
  BY <1>2
<1>4. \A r \in rows : r \in rows' \/ (r.key \in expired /\ (r.key \notin late => r.key \notin objects))
  BY <1>0, <1>3 DEF ArchiveOK, PruneOK
<1>5. RecordingsOK' /\ ExpiredOK'
  BY <1>0, <1>1, <1>3 DEF ArchiveOK, RecordingsOK, ExpiredOK, Row
<1>6. \A x : x \notin expired /\ Ready(x) => Ready(x)'
  BY <1>4 DEF Ready, RowOf
<1>7. SegmentKept'
  BY <1>0, <1>1, <1>6 DEF ArchiveOK, SegmentKept
<1>8. ReadyHasObject'
  BY <1>0, <1>1, <1>3 DEF ArchiveOK, ReadyHasObject
<1>9. NoStrandedObject'
  BY <1>0, <1>1, <1>4 DEF ArchiveOK, NoStrandedObject, Findable, RowOf
<1>10. PruneOK'
  <2>1. prune \in PruneRec /\ 0 \in 0 .. MaxId /\ nextId > 0
    BY <1>0, Bounds DEF ArchiveOK, PruneOK, RecordingsOK
  <2>2. prune' \in PruneRec /\ prune'.row = 0 /\ prune'.row < nextId' /\ prune'.listed = prune.listed
    BY <1>1, <2>1 DEF PruneRec
  <2>3. \A x \in prune'.listed :
          x.id < nextId' /\ x.key \in expired' /\ \A q \in rows' : q.id = x.id => q.key = x.key
    BY <1>0, <1>1, <1>3, <2>2 DEF ArchiveOK, PruneOK
  <2>4. \A q \in rows' : q.id # 0
    BY <1>0, <1>3, Bounds DEF ArchiveOK, RecordingsOK, Row
  <2> QED BY <2>2, <2>3, <2>4 DEF PruneOK, PruneRec, Row
<1>11. Gains
  <2>1. nextId \in Int
    BY <1>0, Bounds DEF ArchiveOK, RecordingsOK
  <2> QED BY <1>1, <1>3, <1>4, <2>1 DEF Gains
<1> QED BY <1>0, <1>1, <1>5, <1>7, <1>8, <1>9, <1>10, <1>11, ArchiveAlone DEF ArchiveOK, Types

LEMMA PruneKeeps == ASSUME CaptureInv, PruneStep PROVE CaptureInv'
<1>1. UNCHANGED <<settings, hasty, workerVars, disk, written>>
  BY DEF PruneStep
<1>2. CASE PruneList
  BY <1>1, <1>2, PruneListKeeps
<1>3. ASSUME NEW r \in prune.listed, PruneObject(r, TRUE) \/ PruneObject(r, FALSE) PROVE CaptureInv'
  <2>1. PICK ok \in BOOLEAN : PruneObject(r, ok)
    BY <1>3
  <2> QED BY <1>1, <2>1, PruneObjectKeeps
<1>4. ASSUME PruneRow(TRUE) \/ PruneRow(FALSE) PROVE CaptureInv'
  <2>1. PICK ok \in BOOLEAN : PruneRow(ok)
    BY <1>4
  <2> QED BY <1>1, <2>1, PruneRowKeeps
<1> QED BY <1>2, <1>3, <1>4 DEF PruneStep

\* A recording that ages before it is archived is late.
LEMMA AgeKeeps == ASSUME CaptureInv, NEW k \in Keys, Age(k) PROVE CaptureInv'
<1>0. ArchiveOK /\ Types /\ WorkOK
  BY DEF CaptureInv
<1>1. /\ k[2] <= written[k[1]] /\ expired' = expired \cup {k} /\ k \notin expired
      /\ (late' = late /\ Archived(k)) \/ late' = late \cup {k}
      /\ UNCHANGED <<rows, objects, nextId, prune>> /\ UNCHANGED <<settings, hasty, workerVars, disk, written>>
  BY DEF Age, Expire, Closed
<1>2. k \notin late' => Ready(k) /\ k[2] \notin disk[k[1]]
  BY <1>1 DEF Archived
<1>3. RecordingsOK' /\ ExpiredOK'
  BY <1>0, <1>1, <1>2 DEF ArchiveOK, RecordingsOK, ExpiredOK
<1>4. PruneOK'
  BY <1>0, <1>1 DEF ArchiveOK, PruneOK
<1>5. SegmentKept' /\ ReadyHasObject' /\ NoStrandedObject'
  BY <1>0, <1>1 DEF ArchiveOK, SegmentKept, ReadyHasObject, NoStrandedObject, Findable, Ready, RowOf
<1>6. Gains
  <2>1. nextId \in Int
    BY <1>0, Bounds DEF ArchiveOK, RecordingsOK
  <2> QED BY <1>1, <2>1 DEF Gains
<1>7. Types'
  BY <1>0, <1>1 DEF Types, workerVars
<1>8. WatchOK'
  BY <1>1, WatchSame DEF CaptureInv, workerVars
<1>9. WorkOK'
  <2> SUFFICES ASSUME NEW t \in Sups
               PROVE /\ Works(sup[t])' => SupOK(sup[t])'
                     /\ (sup[t].job # NoJob)' => Works(sup[t])' /\ JobOK(sup[t])'
    BY DEF WorkOK, Works
  <2>1. /\ Works(sup[t]) => SupOK(sup[t])
        /\ sup[t].job # NoJob => Works(sup[t]) /\ JobOK(sup[t])
    BY <1>0 DEF WorkOK
  <2>2. PICK u \in SupRecord : u = sup[t]
    BY WatchParts
  <2>3. SupOK(u) => SupOK(sup[t])'
    BY <1>1, <2>2 DEF SupOK, workerVars
  <2>4. ASSUME sup[t].job # NoJob, JobOK(u) PROVE JobOK(u)'
    <3>1. <<u.chan, u.job.seg>> \in expired' => <<u.chan, u.job.seg>> \in late'
      <4>1. CASE <<u.chan, u.job.seg>> = k
        BY <1>1, <2>2, <2>4, <4>1 DEF Archived
      <4>2. CASE <<u.chan, u.job.seg>> # k
        BY <1>1, <2>4, <4>2 DEF JobOK
      <4> QED BY <4>1, <4>2
    <3>2. RecordingsOK
      BY <1>0 DEF ArchiveOK
    <3>3. late \subseteq late' /\ UNCHANGED <<written, hasty>>
      BY <1>1
    <3> QED BY <1>3, <1>6, <2>4, <3>1, <3>2, <3>3, JobStays
  <2>5. JobOK(u)' => JobOK(sup[t])'
    BY <1>1, <2>2 DEF JobOK, Ready, RowOf, workerVars
  <2> QED BY <1>1, <2>1, <2>2, <2>3, <2>4, <2>5 DEF Works, workerVars
<1> QED BY <1>3, <1>4, <1>5, <1>7, <1>8, <1>9 DEF CaptureInv, ArchiveOK

-----------------------------------------------------------------------------
(* The manager and the operator.                                           *)

\* A step that touches neither the archive nor what a supervisor works on.
LEMMA ManagerKeeps ==
  ASSUME CaptureInv, UNCHANGED <<recordingVars, disk, written>>, WatchOK',
         settings' \in [Channels -> Configs \cup {Off}], hasty' \subseteq Channels, running' \in [Channels -> Sups \cup {NoSup}],
         sup' \in [Sups -> SupRecord],
         \A s \in Sups : \/ /\ sup'[s].chan = sup[s].chan /\ sup'[s].pc = sup[s].pc /\ sup'[s].job = sup[s].job
                            /\ sup'[s].todo = sup[s].todo /\ sup'[s].open = sup[s].open
                            /\ hasty \subseteq hasty' \/ ~Works(sup[s])
                         \/ /\ sup'[s].job = NoJob /\ sup'[s].open = 0
                            /\ Works(sup'[s]) => sup'[s].chan \in Channels /\ sup'[s].todo \subseteq disk[sup'[s].chan]
  PROVE  CaptureInv'
<1>1. Types'
  BY DEF CaptureInv, Types, recordingVars
<1>2. ArchiveOK'
  BY DEF CaptureInv, ArchiveOK, RecordingsOK, ExpiredOK, PruneOK, SegmentKept, ReadyHasObject, NoStrandedObject,
    Findable, Ready, RowOf, recordingVars
<1>3. WorkOK'
  <2> SUFFICES ASSUME NEW t \in Sups
               PROVE /\ Works(sup[t])' => SupOK(sup[t])'
                     /\ (sup[t].job # NoJob)' => Works(sup[t])' /\ JobOK(sup[t])'
    BY DEF WorkOK, Works
  <2>1. CASE /\ sup'[t].chan = sup[t].chan /\ sup'[t].pc = sup[t].pc /\ sup'[t].job = sup[t].job
             /\ sup'[t].todo = sup[t].todo /\ sup'[t].open = sup[t].open
             /\ hasty \subseteq hasty' \/ ~Works(sup[t])
    <3>1. /\ Works(sup[t]) => SupOK(sup[t])
          /\ sup[t].job # NoJob => Works(sup[t]) /\ JobOK(sup[t])
      BY DEF CaptureInv, WorkOK
    <3>2. Works(sup[t]) /\ SupOK(sup[t]) => SupOK(sup[t])'
      BY <2>1 DEF SupOK
    <3>3. Works(sup[t]) /\ JobOK(sup[t]) => JobOK(sup[t])'
      BY <2>1 DEF JobOK, Ready, RowOf, recordingVars
    <3> QED BY <2>1, <3>1, <3>2, <3>3 DEF Works
  <2>2. CASE /\ sup'[t].job = NoJob /\ sup'[t].open = 0
             /\ Works(sup'[t]) => sup'[t].chan \in Channels /\ sup'[t].todo \subseteq disk[sup'[t].chan]
    <3>1. \A c \in Channels : disk[c] \subseteq 1 .. written[c]
      BY DEF CaptureInv, Types
    <3> QED BY <2>2, <3>1 DEF SupOK, Works
  <2> QED BY <2>1, <2>2
<1> QED BY <1>1, <1>2, <1>3 DEF CaptureInv

LEMMA EditKeeps ==
  ASSUME CaptureInv, NEW c \in Channels, NEW v \in Configs \cup {Off}, EditChannel(c, v)
  PROVE  CaptureInv'
<1>0. WatchOK /\ Types
  BY DEF CaptureInv
<1>1. /\ settings' = [settings EXCEPT ![c] = v] /\ UNCHANGED <<recordingVars, running, manager, sup, disk, written>>
      /\ v = Off \/ ~Abandoned(c) \/ c \in hasty'
      /\ hasty \subseteq hasty' /\ hasty' \subseteq Channels
  BY <1>0 DEF EditChannel, workerVars, Types
<1>2. settings' \in [Channels -> Configs \cup {Off}] /\ settings'[c] = v /\ \A d \in Channels : d # c => settings'[d] = settings[d]
  BY <1>0, <1>1 DEF Types
<1>3. RunningOK' /\ OneSupervisor'
  BY <1>0, <1>1 DEF WatchOK, RunningOK, OneSupervisor, SupervisedOnce, Alive
<1>4. DrainingOK'
  <2> SUFFICES ASSUME NEW s \in Sups, Alive(s), sup[s].cancelled
               PROVE  \/ manager.pc = "down"
                      \/ manager.pc = "stopping" /\ s = manager.awaits
                      \/ settings'[sup[s].chan] = Off \/ sup[s].chan \in hasty'
    BY <1>1 DEF DrainingOK, Alive
  <2>1. sup[s].chan \in Channels
    BY <1>0 DEF WatchOK, RunningOK
  <2>2. CASE sup[s].chan = c /\ s # manager.awaits
    BY <1>1, <1>2, <2>2 DEF Abandoned
  <2>3. CASE s = manager.awaits
    BY <1>0, <2>3, Bounds DEF WatchOK, ManagerOK
  <2>4. CASE sup[s].chan # c
    BY <1>0, <1>1, <1>2, <2>1, <2>4 DEF WatchOK, DrainingOK
  <2> QED BY <2>2, <2>3, <2>4
<1>5. ManagerOK'
  <2>1. \A d : Startable(d) => Startable(d)'
    BY <1>1 DEF Startable, Vacant, Alive
  <2>2. manager.pc = "stopping" => \A d \in manager.stop : settings'[d] = Off \/ d \in hasty'
    <3>1. manager.stop \subseteq Channels
      BY <1>0 DEF WatchOK, ManagerOK, ManagerRec
    <3> QED BY <1>0, <1>1, <1>2, <3>1 DEF WatchOK, ManagerOK, Abandoned
  <2> QED BY <1>0, <1>1, <2>1, <2>2 DEF WatchOK, ManagerOK, ManagerRec, Alive
<1> QED BY <1>0, <1>1, <1>2, <1>3, <1>4, <1>5, ManagerKeeps DEF WatchOK, Types

LEMMA ReconcileKeeps == ASSUME CaptureInv, Reconcile PROVE CaptureInv'
<1>. DEFINE start == {<<c, settings[c]>> : c \in ToStart}
<1>0. WatchOK /\ Types
  BY DEF CaptureInv
<1>1. /\ manager = Idling /\ UNCHANGED <<recordingVars, settings, hasty, running, sup, disk, written>>
      /\ manager' = [pc |-> "stopping", restart |-> ToStop \cap ToStart, awaits |-> NoSup, stop |-> ToStop \ ToStart, start |-> start]
  BY DEF Reconcile
<1>2. manager.pc = "idle"
  BY <1>1 DEF Idling
<1>3. RunningOK' /\ OneSupervisor'
  BY <1>0, <1>1 DEF WatchOK, RunningOK, OneSupervisor, SupervisedOnce, Alive
<1>4. \A s \in Sups : Alive(s) /\ sup[s].cancelled => settings[sup[s].chan] = Off \/ sup[s].chan \in hasty
  BY <1>0, <1>2 DEF WatchOK, DrainingOK
<1>5. DrainingOK'
  BY <1>1, <1>4 DEF DrainingOK, Alive
<1>6. ManagerOK'
  <2>1. ToStop \subseteq Channels /\ ToStart \subseteq Channels
    BY DEF ToStop, ToStart
  <2>2. \A x \in start : x[1] \in ToStart /\ x[2] = settings[x[1]] /\ x = <<x[1], x[2]>>
    OBVIOUS
  <2>3. \A c \in ToStart : settings[c] \in Configs
    BY <1>0, <2>1 DEF ToStart, Types
  <2>4. start \subseteq Channels \X Configs
    BY <2>1, <2>2, <2>3
  <2>5. \A x, y \in start : x[1] = y[1] => x = y
    BY <2>2
  <2>6. \A c \in ToStop \ ToStart : settings[c] = Off
    BY DEF ToStop, ToStart
  <2>7. ASSUME NEW c \in ToStart, c \notin ToStop PROVE Startable(c)
    <3>1. c \in Channels /\ settings[c] # Off /\ running[c] = NoSup
      BY <2>7 DEF ToStart, ToStop, Started
    <3> QED BY <1>0, <1>4, <3>1, Bounds DEF Startable, Vacant, WatchOK, RunningOK
  <2>8. \A c : Startable(c)' <=> Startable(c)
    BY <1>1 DEF Startable, Vacant, Alive
  <2>11. ASSUME NEW c \in ToStop, NEW s \in Sups, Alive(s), sup[s].chan = c, c \notin hasty
         PROVE  s = running[c]
    <3>1. c \in Channels /\ running[c] # NoSup
      BY <2>11 DEF ToStop, Started
    <3>2. running[c] \in Sups /\ Alive(running[c]) /\ sup[running[c]].chan = c
      BY <1>0, <3>1 DEF WatchOK, RunningOK, Types
    <3> QED BY <1>0, <2>11, <3>1, <3>2 DEF WatchOK, OneSupervisor, SupervisedOnce
  <2>. HIDE DEF start
  <2>9. /\ manager'.pc = "stopping" /\ manager'.restart = ToStop \cap ToStart /\ manager'.stop = ToStop \ ToStart
        /\ manager'.start = start /\ manager' \in ManagerRec /\ manager'.awaits = NoSup
    BY <1>1, <2>1, <2>4 DEF ManagerRec
  <2>10. \A x \in start : x[1] \in ToStop \cap ToStart \/ Startable(x[1])
    BY <2>2, <2>7
  <2> QED BY <1>1, <2>5, <2>6, <2>8, <2>9, <2>10, <2>11 DEF ManagerOK, ManagerRec, Alive
<1> QED BY <1>0, <1>1, <1>3, <1>5, <1>6, ManagerKeeps DEF WatchOK, Types

LEMMA CancelledSups ==
  ASSUME Types, NEW T, sup' = Cancelled(T)
  PROVE  /\ sup' \in [Sups -> SupRecord]
         /\ \A s \in Sups :
              /\ sup'[s].chan = sup[s].chan /\ sup'[s].cfg = sup[s].cfg /\ sup'[s].pc = sup[s].pc
              /\ sup'[s].job = sup[s].job /\ sup'[s].todo = sup[s].todo /\ sup'[s].open = sup[s].open
              /\ Alive(s)' <=> Alive(s)
              /\ sup'[s].cancelled <=> s \in T \/ sup[s].cancelled
<1>1. ASSUME NEW s \in Sups
      PROVE  /\ sup'[s] \in SupRecord
             /\ sup'[s].chan = sup[s].chan /\ sup'[s].cfg = sup[s].cfg /\ sup'[s].pc = sup[s].pc
             /\ sup'[s].job = sup[s].job /\ sup'[s].todo = sup[s].todo /\ sup'[s].open = sup[s].open
             /\ sup'[s].cancelled <=> s \in T \/ sup[s].cancelled
  <2>1. sup[s] \in SupRecord
    BY DEF Types
  <2>2. CASE s \in T
    <3>1. sup'[s] = [sup[s] EXCEPT !.cancelled = TRUE]
      BY <2>2 DEF Cancelled
    <3> QED BY <2>1, <2>2, <3>1 DEF SupRecord
  <2>3. CASE s \notin T
    <3>1. sup'[s] = sup[s]
      BY <2>3 DEF Cancelled
    <3> QED BY <2>1, <2>3, <3>1
  <2> QED BY <2>2, <2>3
<1>2. \A s \in Sups : Alive(s)' <=> Alive(s)
  BY <1>1 DEF Alive
<1>3. sup' \in [Sups -> SupRecord]
  <2>1. sup' = [s \in Sups |-> sup'[s]]
    BY DEF Cancelled
  <2> QED BY <1>1, <2>1
<1> QED BY <1>1, <1>2, <1>3

LEMMA CancelKeeps == ASSUME CaptureInv, NEW c \in Channels, CancelForRestart(c) PROVE CaptureInv'
<1>. DEFINE s == running[c]
<1>0. WatchOK /\ Types
  BY DEF CaptureInv
<1>1. /\ manager.pc = "stopping" /\ c \in manager.restart /\ s # NoSup /\ sup' = Cancelled({s})
      /\ running' = [running EXCEPT ![c] = NoSup] /\ UNCHANGED <<recordingVars, settings, hasty, disk, written>>
      /\ manager' = [manager EXCEPT !.awaits = s]
      /\ \A t \in Sups : Alive(t) => t # manager.awaits
  BY DEF CancelForRestart, Started, StopReturned
<1>2. s \in Sups /\ Alive(s) /\ sup[s].chan = c
  BY <1>0, <1>1 DEF Types, WatchOK, RunningOK
<1>3. /\ sup' \in [Sups -> SupRecord]
      /\ \A t \in Sups : /\ sup'[t].chan = sup[t].chan /\ sup'[t].cfg = sup[t].cfg /\ sup'[t].pc = sup[t].pc
                         /\ sup'[t].job = sup[t].job /\ sup'[t].todo = sup[t].todo /\ sup'[t].open = sup[t].open
                         /\ Alive(t)' <=> Alive(t)
                         /\ sup'[t].cancelled <=> t = s \/ sup[t].cancelled
  <2>1. PICK T : T = {s}
    OBVIOUS
  <2>2. sup' = Cancelled(T) /\ \A t : t \in T <=> t = s
    BY <1>1, <2>1
  <2> QED BY <1>0, <2>2, CancelledSups
<1>4. running' \in [Channels -> Sups \cup {NoSup}] /\ running'[c] = NoSup
      /\ \A d \in Channels : d # c => running'[d] = running[d]
  BY <1>0, <1>1 DEF Types
<1>. HIDE DEF s
<1>5. RunningOK'
  <2>1. ASSUME NEW d \in Channels, running'[d] # NoSup
        PROVE  Alive(running[d])' /\ sup'[running'[d]].chan = d /\ ~sup'[running'[d]].cancelled
    <3>1. d # c /\ running'[d] = running[d]
      BY <1>4, <2>1
    <3>2. running[d] \in Sups /\ Alive(running[d]) /\ sup[running[d]].chan = d /\ ~sup[running[d]].cancelled
      BY <1>0, <2>1, <3>1 DEF Types, WatchOK, RunningOK
    <3>3. Alive(running[d])'
      BY <1>3, <3>1, <3>2 DEF Alive
    <3> QED BY <1>2, <1>3, <3>1, <3>2, <3>3
  <2>2. ASSUME NEW t \in Sups, Alive(t)'
        PROVE  /\ sup'[t].chan \in Channels /\ sup'[t].cfg \in Configs
               /\ ~sup'[t].cancelled => running'[sup'[t].chan] = t
    <3>1. Alive(t)
      BY <1>3, <2>2
    <3>2. /\ sup[t].chan \in Channels /\ sup[t].cfg \in Configs
          /\ ~sup[t].cancelled => running[sup[t].chan] = t
      BY <1>0, <3>1 DEF WatchOK, RunningOK
    <3> QED BY <1>3, <1>4, <3>2 DEF s
  <2> QED BY <2>1, <2>2 DEF RunningOK, Alive
<1>6. OneSupervisor'
  <2>1. \A d \in Channels \ hasty, x, y \in Sups :
          Alive(x) /\ Alive(y) /\ sup[x].chan = d /\ sup[y].chan = d => x = y
    BY <1>0 DEF WatchOK, OneSupervisor, SupervisedOnce
  <2>2. \A d \in Channels \ hasty, x, y \in Sups :
          Alive(x)' /\ Alive(y)' /\ sup'[x].chan = d /\ sup'[y].chan = d => x = y
    BY <1>3, <2>1
  <2>3. hasty' = hasty
    BY <1>1
  <2> QED BY <2>2, <2>3 DEF OneSupervisor, SupervisedOnce
<1>9. /\ manager' \in ManagerRec /\ manager'.pc = "stopping" /\ manager'.awaits = s
      /\ manager'.restart = manager.restart /\ manager'.stop = manager.stop /\ manager'.start = manager.start
  BY <1>0, <1>1, <1>2 DEF WatchOK, ManagerOK, ManagerRec
<1>7. DrainingOK'
  <2> SUFFICES ASSUME NEW t \in Sups, Alive(t)', sup'[t].cancelled
               PROVE  t = s \/ settings[sup[t].chan] = Off \/ sup[t].chan \in hasty
    BY <1>1, <1>3, <1>9 DEF DrainingOK
  <2>1. CASE t # s
    <3>1. Alive(t) /\ sup[t].cancelled /\ t # manager.awaits
      BY <1>1, <1>3, <2>1
    <3> QED BY <1>0, <1>1, <3>1 DEF WatchOK, DrainingOK
  <2> QED BY <2>1
<1>8. ManagerOK'
  <2>1. \A d \in Channels : Startable(d) => Startable(d)'
    BY <1>1, <1>3, <1>4 DEF Startable, Vacant
  <2>2. \A x \in manager.start : x[1] \in manager.restart \/ Startable(x[1])'
    BY <1>0, <1>1, <2>1 DEF WatchOK, ManagerOK, ManagerRec
  <2>3. ASSUME NEW d \in manager.restart, NEW t \in Sups, Alive(t), sup[t].chan = d, d \notin hasty
        PROVE  t = running'[d] \/ t = s
    <3>1. t = running[d] /\ d \in Channels
      BY <1>0, <1>1, <2>3 DEF WatchOK, ManagerOK, ManagerRec
    <3> QED BY <1>4, <3>1 DEF s
  <2>4. \A x, y \in manager.start : x[1] = y[1] => x = y
    BY <1>0 DEF WatchOK, ManagerOK
  <2>5. \A d \in manager.stop : settings[d] = Off \/ d \in hasty
    BY <1>0, <1>1 DEF WatchOK, ManagerOK
  <2>6. \A d \in manager.restart, t \in Sups :
          Alive(t)' /\ sup'[t].chan = d /\ d \notin hasty' => t = running'[d] \/ t = s
    <3> SUFFICES ASSUME NEW d \in manager.restart, NEW t \in Sups, Alive(t)', sup'[t].chan = d, d \notin hasty'
                 PROVE  t = running'[d] \/ t = s
      OBVIOUS
    <3>1. Alive(t) /\ sup[t].chan = d
      BY <1>3
    <3>2. d \notin hasty
      BY <1>1
    <3> QED BY <2>3, <3>1, <3>2
  <2>7. \A x \in manager'.start : x[1] \in manager'.restart \/ Startable(x[1])'
    BY <1>9, <2>2
  <2>8. \A x, y \in manager'.start : x[1] = y[1] => x = y
    BY <1>9, <2>4
  <2>9. \A d \in manager'.stop : settings'[d] = Off \/ d \in hasty'
    BY <1>1, <1>9, <2>5
  <2>10. manager' \in ManagerRec'
    BY <1>9 DEF ManagerRec
  <2> QED BY <1>9, <2>6, <2>7, <2>8, <2>9, <2>10 DEF ManagerOK
<1> QED BY <1>0, <1>1, <1>3, <1>4, <1>5, <1>6, <1>7, <1>8, ManagerKeeps DEF WatchOK, Types

LEMMA StopAsyncKeeps == ASSUME CaptureInv, StopAsync PROVE CaptureInv'
<1>. DEFINE T == {running[c] : c \in manager.stop}
<1>0. WatchOK /\ Types
  BY DEF CaptureInv
<1>1. /\ manager.pc = "stopping" /\ (\A c \in manager.restart : running[c] = NoSup)
      /\ \A t \in Sups : Alive(t) => t # manager.awaits
      /\ sup' = Cancelled(T)
      /\ running' = [c \in Channels |-> IF c \in manager.stop THEN NoSup ELSE running[c]]
      /\ manager' = [pc |-> "starting", restart |-> {}, awaits |-> NoSup, stop |-> {}, start |-> manager.start]
      /\ UNCHANGED <<recordingVars, settings, hasty, disk, written>>
  BY DEF StopAsync, StopReturned, Started, Idling
<1>2. /\ sup' \in [Sups -> SupRecord]
      /\ \A t \in Sups : /\ sup'[t].chan = sup[t].chan /\ sup'[t].cfg = sup[t].cfg /\ sup'[t].pc = sup[t].pc
                         /\ sup'[t].job = sup[t].job /\ sup'[t].todo = sup[t].todo /\ sup'[t].open = sup[t].open
                         /\ Alive(t)' <=> Alive(t)
                         /\ sup'[t].cancelled <=> t \in T \/ sup[t].cancelled
  <2>. HIDE DEF T
  <2> QED BY <1>0, <1>1, CancelledSups
<1>3. /\ running' \in [Channels -> Sups \cup {NoSup}]
      /\ \A c \in Channels : /\ c \in manager.stop => running'[c] = NoSup
                             /\ c \notin manager.stop => running'[c] = running[c]
  BY <1>0, <1>1 DEF Types
<1>4. manager \in ManagerRec /\ manager.stop \subseteq Channels
  BY <1>0 DEF WatchOK, ManagerOK, ManagerRec
<1>5. \A t \in Sups : Alive(t) /\ t \in T => sup[t].chan \in manager.stop
  BY <1>0, <1>4, Bounds DEF WatchOK, RunningOK
<1>6. \A c \in manager.stop : running[c] # NoSup => running[c] \in T
  OBVIOUS
<1>. HIDE DEF T
<1>7. RunningOK'
  <2>1. ASSUME NEW d \in Channels, running'[d] # NoSup
        PROVE  Alive(running[d])' /\ sup'[running'[d]].chan = d /\ ~sup'[running'[d]].cancelled
    <3>1. d \notin manager.stop /\ running'[d] = running[d]
      BY <1>3, <2>1
    <3>2. running[d] \in Sups /\ Alive(running[d]) /\ sup[running[d]].chan = d /\ ~sup[running[d]].cancelled
      BY <1>0, <2>1, <3>1 DEF Types, WatchOK, RunningOK
    <3>3. running[d] \notin T
      BY <1>5, <3>1, <3>2
    <3>4. Alive(running[d])'
      BY <1>2, <3>1, <3>2 DEF Alive
    <3> QED BY <1>2, <3>1, <3>2, <3>3, <3>4
  <2>2. ASSUME NEW t \in Sups, Alive(t)'
        PROVE  /\ sup'[t].chan \in Channels /\ sup'[t].cfg \in Configs
               /\ ~sup'[t].cancelled => running'[sup'[t].chan] = t
    <3>1. Alive(t)
      BY <1>2, <2>2
    <3>2. /\ sup[t].chan \in Channels /\ sup[t].cfg \in Configs
          /\ ~sup[t].cancelled => running[sup[t].chan] = t
      BY <1>0, <3>1 DEF WatchOK, RunningOK
    <3>3. t \notin T /\ ~sup[t].cancelled => sup[t].chan \notin manager.stop
      BY <1>6, <3>2, Bounds
    <3> QED BY <1>2, <1>3, <3>2, <3>3
  <2> QED BY <2>1, <2>2 DEF RunningOK, Alive
<1>8. OneSupervisor'
  BY <1>0, <1>1, <1>2 DEF WatchOK, OneSupervisor, SupervisedOnce
<1>9. ASSUME NEW t \in Sups, Alive(t), t \in T \/ sup[t].cancelled
      PROVE  settings[sup[t].chan] = Off \/ sup[t].chan \in hasty
  <2>1. CASE t \in T
    BY <1>0, <1>1, <1>5, <1>9, <2>1 DEF WatchOK, ManagerOK
  <2>2. CASE sup[t].cancelled
    BY <1>0, <1>1, <1>9, <2>2 DEF WatchOK, DrainingOK
  <2> QED BY <1>9, <2>1, <2>2
<1>10. DrainingOK'
  BY <1>1, <1>2, <1>9 DEF DrainingOK
<1>11. ManagerOK'
  <2>1. \A d \in Channels : Startable(d) => Startable(d)'
    BY <1>1, <1>2, <1>3 DEF Startable, Vacant
  <2>2. ASSUME NEW x \in manager.start PROVE x[1] \in Channels /\ Startable(x[1])
    <3>0. x[1] \in Channels
      BY <1>4 DEF ManagerRec
    <3>1. CASE x[1] \in manager.restart
      <4>1. running[x[1]] = NoSup
        BY <1>1, <3>1
      <4> QED BY <1>0, <1>1, <3>0, <3>1, <4>1, Bounds DEF Startable, Vacant, WatchOK, ManagerOK
    <3>2. CASE x[1] \notin manager.restart
      BY <1>0, <1>1, <3>0, <3>2 DEF WatchOK, ManagerOK
    <3> QED BY <3>1, <3>2
  <2>3. /\ manager' \in ManagerRec /\ manager'.pc = "starting" /\ manager'.start = manager.start
        /\ manager'.awaits = NoSup
    BY <1>1, <1>4 DEF ManagerRec
  <2> QED BY <1>0, <2>1, <2>2, <2>3 DEF WatchOK, ManagerOK, ManagerRec
<1> QED BY <1>0, <1>1, <1>2, <1>3, <1>7, <1>8, <1>10, <1>11, ManagerKeeps DEF WatchOK, Types

LEMMA StartKeeps ==
  ASSUME CaptureInv, NEW c \in Channels, NEW v \in Configs, NEW s \in Sups, StartSupervisor(c, v, s)
  PROVE  CaptureInv'
<1>. PICK u : u = RunLoop(c, v)
  OBVIOUS
<1>0. WatchOK /\ Types
  BY DEF CaptureInv
<1>1. /\ manager.pc = "starting" /\ <<c, v>> \in manager.start /\ ~Alive(s) /\ \A d \in Channels : running[d] # s
      /\ sup' = [sup EXCEPT ![s] = u] /\ running' = [running EXCEPT ![c] = s]
      /\ manager' = [manager EXCEPT !.start = manager.start \ {<<c, v>>}]
      /\ UNCHANGED <<recordingVars, settings, hasty, disk, written>>
  BY DEF StartSupervisor
<1>2. /\ u \in SupRecord /\ u.chan = c /\ u.cfg = v /\ u.pc \in {"salvage", "start"} /\ ~u.cancelled
      /\ u.job = NoJob /\ u.open = 0 /\ u.todo \subseteq disk[c]
  BY <1>0, LoopStarts
<1>3. sup'[s] = u /\ (\A t \in Sups : t # s => sup'[t] = sup[t]) /\ sup' \in [Sups -> SupRecord]
  BY <1>0, <1>1, <1>2 DEF Types
<1>4. running'[c] = s /\ (\A d \in Channels : d # c => running'[d] = running[d])
      /\ running' \in [Channels -> Sups \cup {NoSup}]
  BY <1>0, <1>1 DEF Types
<1>5. Alive(s)' /\ \A t \in Sups : t # s => (Alive(t)' <=> Alive(t))
  BY <1>2, <1>3 DEF Alive
<1>6. running[c] = NoSup /\ (c \in hasty \/ Vacant(c))
  BY <1>0, <1>1 DEF WatchOK, ManagerOK, Startable
<1>7. RunningOK'
  <2>1. ASSUME NEW d \in Channels, running'[d] # NoSup
        PROVE  Alive(running[d])' /\ sup'[running'[d]].chan = d /\ ~sup'[running'[d]].cancelled
    <3>1. CASE d = c
      <4>1. running'[d] = s
        BY <1>4, <3>1
      <4>2. Alive(running[d])'
        BY <1>2, <1>3, <4>1 DEF Alive
      <4> QED BY <1>2, <1>3, <3>1, <4>1, <4>2
    <3>2. CASE d # c
      <4>1. running'[d] = running[d] /\ running[d] \in Sups /\ running[d] # s
        BY <1>0, <1>1, <1>4, <2>1, <3>2 DEF Types
      <4>2. Alive(running[d]) /\ sup[running[d]].chan = d /\ ~sup[running[d]].cancelled
        BY <1>0, <2>1, <4>1 DEF WatchOK, RunningOK
      <4>3. Alive(running[d])'
        BY <1>3, <4>1, <4>2 DEF Alive
      <4> QED BY <1>3, <4>1, <4>2, <4>3
    <3> QED BY <3>1, <3>2
  <2>2. ASSUME NEW t \in Sups, Alive(t)'
        PROVE  /\ sup'[t].chan \in Channels /\ sup'[t].cfg \in Configs
               /\ ~sup'[t].cancelled => running'[sup'[t].chan] = t
    <3>1. CASE t = s
      BY <1>2, <1>3, <1>4, <3>1
    <3>2. CASE t # s
      <4>1. Alive(t) /\ sup'[t] = sup[t]
        BY <1>3, <1>5, <2>2, <3>2
      <4>2. /\ sup[t].chan \in Channels /\ sup[t].cfg \in Configs
            /\ ~sup[t].cancelled => running[sup[t].chan] = t
        BY <1>0, <4>1 DEF WatchOK, RunningOK
      <4> QED BY <1>4, <1>6, <4>1, <4>2, Bounds
    <3> QED BY <3>1, <3>2
  <2> QED BY <2>1, <2>2 DEF RunningOK, Alive
<1>8. OneSupervisor'
  <2> SUFFICES ASSUME NEW d \in Channels, d \notin hasty, NEW t \in Sups, NEW w \in Sups,
                      Alive(t)', Alive(w)', sup'[t].chan = d, sup'[w].chan = d
               PROVE  t = w
    BY <1>1 DEF OneSupervisor, SupervisedOnce
  <2>1. c \notin hasty => \A x \in Sups : x # s /\ Alive(x)' => sup'[x].chan # c
    BY <1>3, <1>5, <1>6 DEF Vacant
  <2>2. CASE t = s \/ w = s
    BY <1>2, <1>3, <2>1, <2>2
  <2>3. CASE t # s /\ w # s
    BY <1>0, <1>3, <1>5, <2>3 DEF WatchOK, OneSupervisor, SupervisedOnce
  <2> QED BY <2>2, <2>3
<1>9. DrainingOK'
  <2> SUFFICES ASSUME NEW t \in Sups, Alive(t)', sup'[t].cancelled
               PROVE  settings[sup'[t].chan] = Off \/ sup'[t].chan \in hasty
    BY <1>1 DEF DrainingOK
  <2>1. t # s /\ Alive(t) /\ sup'[t] = sup[t]
    BY <1>2, <1>3, <1>5
  <2> QED BY <1>0, <1>1, <2>1 DEF WatchOK, DrainingOK
<1>10. ManagerOK'
  <2>1. manager \in ManagerRec
    BY <1>0 DEF WatchOK, ManagerOK
  <2>2. /\ manager' \in ManagerRec /\ manager'.pc = "starting" /\ manager'.start = manager.start \ {<<c, v>>}
        /\ manager'.awaits = NoSup
    BY <1>0, <1>1, <2>1 DEF WatchOK, ManagerOK, ManagerRec
  <2>3. ASSUME NEW x \in manager'.start PROVE Startable(x[1])'
    <3>1. x \in manager.start /\ x # <<c, v>>
      BY <2>2
    <3>2. x[1] # c
      BY <1>0, <1>1, <3>1 DEF WatchOK, ManagerOK
    <3>3. Startable(x[1])
      BY <1>0, <1>1, <3>1 DEF WatchOK, ManagerOK
    <3>4. x[1] \notin hasty => \A t \in Sups : Alive(t)' => sup'[t].chan # x[1]
      BY <1>2, <1>3, <1>5, <3>2, <3>3 DEF Startable, Vacant
    <3>5. PICK d \in Channels : d = x[1]
      BY <2>1, <3>1 DEF ManagerRec
    <3>6. Startable(d)'
      BY <1>1, <1>4, <3>2, <3>3, <3>4, <3>5 DEF Startable, Vacant
    <3> QED BY <3>5, <3>6
  <2>4. \A x, y \in manager'.start : x[1] = y[1] => x = y
    BY <1>0, <2>2 DEF WatchOK, ManagerOK
  <2> QED BY <2>2, <2>3, <2>4 DEF ManagerOK, ManagerRec
<1>11. \A t \in Sups : \/ /\ sup'[t].chan = sup[t].chan /\ sup'[t].pc = sup[t].pc /\ sup'[t].job = sup[t].job
                          /\ sup'[t].todo = sup[t].todo /\ sup'[t].open = sup[t].open
                          /\ hasty \subseteq hasty'
                       \/ /\ sup'[t].job = NoJob /\ sup'[t].open = 0
                          /\ Works(sup'[t]) => sup'[t].chan \in Channels /\ sup'[t].todo \subseteq disk[sup'[t].chan]
  BY <1>1, <1>2, <1>3
<1> QED BY <1>0, <1>1, <1>3, <1>4, <1>7, <1>8, <1>9, <1>10, <1>11, ManagerKeeps DEF WatchOK, Types

\* The end of a reconcile, a shutdown, the boot after it, and a kill.
LEMMA WorkerEndsKeep ==
  ASSUME CaptureInv, ReconcileEnds \/ Boot \/ Shutdown \/ Crash
  PROVE  CaptureInv'
<1>0. WatchOK /\ Types
  BY DEF CaptureInv
<1>1. Idling \in ManagerRec /\ Idling.pc = "idle" /\ Idling.start = {} /\ Idling.awaits = NoSup
  BY DEF Idling, ManagerRec
<1>2. CASE ReconcileEnds \/ Boot
  <2>1. /\ manager' = Idling /\ UNCHANGED <<recordingVars, settings, running, sup, disk, written>>
        /\ \/ manager.pc = "starting" /\ hasty' = hasty
           \/ hasty' = {} /\ \A s \in Sups : ~Alive(s)
    BY <1>2 DEF ReconcileEnds, Boot
  <2>2. RunningOK' /\ OneSupervisor'
    BY <1>0, <2>1 DEF WatchOK, RunningOK, OneSupervisor, SupervisedOnce, Alive
  <2>3. DrainingOK'
    <3>1. \A s \in Sups : Alive(s) /\ sup[s].cancelled => settings[sup[s].chan] = Off \/ sup[s].chan \in hasty'
      BY <1>0, <2>1 DEF WatchOK, DrainingOK
    <3> QED BY <2>1, <3>1 DEF DrainingOK, Alive
  <2>4. ManagerOK'
    BY <1>1, <2>1 DEF ManagerOK, ManagerRec
  <2>5. hasty' \subseteq Channels /\ \A s \in Sups : hasty \subseteq hasty' \/ ~Works(sup[s])
    BY <1>0, <2>1 DEF Types, Works, Alive
  <2> QED BY <2>5, <1>0, <2>1, <2>2, <2>3, <2>4, ManagerKeeps DEF WatchOK, Types
<1>3. CASE Shutdown
  <2>1. PICK T : T = {s \in Sups : Alive(s)}
    OBVIOUS
  <2>2. /\ manager' = [Idling EXCEPT !.pc = "down"] /\ sup' = Cancelled(T)
        /\ running' = [c \in Channels |-> NoSup] /\ UNCHANGED <<recordingVars, settings, hasty, disk, written>>
    BY <1>3, <2>1 DEF Shutdown
  <2>3. /\ sup' \in [Sups -> SupRecord]
        /\ \A t \in Sups : /\ sup'[t].chan = sup[t].chan /\ sup'[t].cfg = sup[t].cfg /\ sup'[t].pc = sup[t].pc
                           /\ sup'[t].job = sup[t].job /\ sup'[t].todo = sup[t].todo /\ sup'[t].open = sup[t].open
                           /\ Alive(t)' <=> Alive(t)
                           /\ sup'[t].cancelled <=> t \in T \/ sup[t].cancelled
    BY <1>0, <2>2, CancelledSups
  <2>4. manager' \in ManagerRec /\ manager'.pc = "down" /\ manager'.start = {} /\ manager'.awaits = NoSup
    BY <1>1, <2>2 DEF ManagerRec
  <2>5. \A c \in Channels : running'[c] = NoSup
    BY <2>2
  <2>6. RunningOK'
    <3>1. \A t \in Sups : Alive(t)' =>
            sup'[t].chan \in Channels /\ sup'[t].cfg \in Configs /\ sup'[t].cancelled
      BY <1>0, <2>1, <2>3 DEF WatchOK, RunningOK
    <3> QED BY <2>5, <3>1 DEF RunningOK
  <2>7. OneSupervisor'
    BY <1>0, <2>2, <2>3 DEF WatchOK, OneSupervisor, SupervisedOnce
  <2>8. DrainingOK'
    BY <2>4 DEF DrainingOK
  <2>9. ManagerOK'
    BY <2>4 DEF ManagerOK, ManagerRec
  <2>10. running' \in [Channels -> Sups \cup {NoSup}]
    BY <2>2
  <2> QED BY <1>0, <2>2, <2>3, <2>6, <2>7, <2>8, <2>9, <2>10, ManagerKeeps DEF WatchOK, Types
<1>4. CASE Crash
  <2>1. /\ manager' = Idling /\ sup' = [s \in Sups |-> Unused] /\ running' = [c \in Channels |-> NoSup]
        /\ hasty' = {} /\ UNCHANGED <<recordingVars, settings, disk, written>>
    BY <1>4 DEF Crash
  <2>2. \A s \in Sups : sup'[s] = Unused /\ ~Alive(s)'
    BY <2>1, IdleSup DEF Alive
  <2>3. RunningOK' /\ OneSupervisor' /\ DrainingOK'
    BY <2>1, <2>2 DEF RunningOK, OneSupervisor, SupervisedOnce, DrainingOK
  <2>4. ManagerOK'
    BY <1>1, <2>1 DEF ManagerOK, ManagerRec
  <2>5. sup' \in [Sups -> SupRecord] /\ running' \in [Channels -> Sups \cup {NoSup}]
    BY <2>1, IdleSup
  <2>6. \A s \in Sups : sup'[s].job = NoJob /\ sup'[s].open = 0 /\ ~Works(sup'[s])
    BY <2>2, IdleSup DEF Works
  <2> QED BY <1>0, <2>1, <2>3, <2>4, <2>5, <2>6, ManagerKeeps DEF WatchOK, Types
<1> QED BY <1>2, <1>3, <1>4

-----------------------------------------------------------------------------
(* All steps, and the theorem.                                             *)

LEMMA CaptureInit == Init => CaptureInv
<1> SUFFICES ASSUME Init PROVE CaptureInv
  OBVIOUS
<1>1. /\ rows = {} /\ objects = {} /\ nextId = 1 /\ expired = {} /\ late = {} /\ prune = Idle
      /\ settings \in [Channels -> Configs \cup {Off}] /\ hasty = {} /\ running = [c \in Channels |-> NoSup] /\ manager = Idling
      /\ sup = [s \in Sups |-> Unused] /\ disk = [c \in Channels |-> {}] /\ written = [c \in Channels |-> 0]
  BY DEF Init, RecordingsInit
<1>2. Types
  BY <1>1, IdleSup, Bounds DEF Types
<1>3. ArchiveOK
  <2>1. Idle \in PruneRec /\ Idle.row = 0 /\ Idle.listed = {}
    BY Bounds DEF Idle, PruneRec
  <2>2. RecordingsOK /\ ExpiredOK /\ PruneOK
    BY <1>1, <2>1, Bounds DEF RecordingsOK, ExpiredOK, PruneOK
  <2>3. SegmentKept /\ ReadyHasObject /\ NoStrandedObject
    BY <1>1 DEF SegmentKept, ReadyHasObject, NoStrandedObject
  <2> QED BY <2>2, <2>3 DEF ArchiveOK
<1>4. \A s \in Sups : sup[s] = Unused /\ ~Alive(s)
  BY <1>1, IdleSup DEF Alive
<1>5. WatchOK
  <2>1. Idling \in ManagerRec /\ Idling.pc = "idle" /\ Idling.start = {} /\ Idling.awaits = NoSup
    BY DEF Idling, ManagerRec
  <2>2. ManagerOK
    BY <1>1, <2>1 DEF ManagerOK
  <2> QED BY <1>1, <1>4, <2>2 DEF WatchOK, RunningOK, OneSupervisor, SupervisedOnce, DrainingOK
<1>6. WorkOK
  BY <1>4, IdleSup DEF WorkOK, Works
<1> QED BY <1>2, <1>3, <1>5, <1>6 DEF CaptureInv

LEMMA CaptureStep ==
  ASSUME CaptureInv, [Next]_vars
  PROVE  CaptureInv'
<1>1. CASE ManagerStep
  BY <1>1, ReconcileKeeps, CancelKeeps, StopAsyncKeeps, StartKeeps, WorkerEndsKeep DEF ManagerStep
<1>2. CASE PruneStep
  BY <1>2, PruneKeeps
<1>3. CASE Shutdown \/ Crash
  BY <1>3, WorkerEndsKeep
<1>4. CASE (\E c \in Channels, v \in Configs \cup {Off} : EditChannel(c, v)) \/ \E k \in Keys : Age(k)
  BY <1>4, EditKeeps, AgeKeeps
<1>5. ASSUME NEW s \in Sups, SupStep(s) \/ SupDisturbed(s) PROVE CaptureInv'
  BY <1>5, LoopSteps, RotateKeeps, ArchivesClosed, ArchiveKeeps, LookupKeeps, CreateKeeps, UploadKeeps,
    RegisterKeeps, MarkReadyKeeps, RemoveSegmentKeeps DEF SupStep, SupDisturbed
<1>6. CASE UNCHANGED vars
  <2>1. UNCHANGED <<recordingVars, settings, hasty, running, manager, sup, disk, written>>
    BY <1>6 DEF vars, workerVars
  <2>2. WatchOK'
    BY <2>1, WatchSame DEF CaptureInv
  <2> QED BY <2>1, <2>2, ManagerKeeps DEF CaptureInv, Types
<1> QED BY <1>1, <1>2, <1>3, <1>4, <1>5, <1>6 DEF Next

LEMMA CaptureInvSound == CaptureInv => CaptureSound
<1> SUFFICES ASSUME CaptureInv PROVE CaptureSound
  OBVIOUS
<1>1. Types /\ ArchiveOK /\ WatchOK /\ WorkOK
  BY DEF CaptureInv
<1>2. TypeOK
  <2>1. RecordingsTypeOK
    BY <1>1 DEF Types, ArchiveOK, RecordingsOK, ExpiredOK, PruneOK, PruneRec, RecordingsTypeOK
  <2>2. manager \in ManagerRec
    BY <1>1 DEF WatchOK, ManagerOK
  <2>3. /\ manager.restart \cup manager.stop \subseteq Channels /\ manager.start \subseteq Channels \X Configs
        /\ manager.awaits \in Sups \cup {NoSup}
    BY <2>2 DEF ManagerRec
  <2> QED BY <1>1, <2>1, <2>3 DEF Types, TypeOK, Segments
<1>3. OnlyClosedArchived
  <2> SUFFICES ASSUME NEW s \in Sups, sup[s].job # NoJob, sup[s].chan \notin hasty, Open(Segment(s)) PROVE FALSE
    BY DEF OnlyClosedArchived
  <2>1. Alive(s) /\ JobOK(sup[s]) /\ sup[s].chan \in Channels
    BY WatchParts
  <2>2. PICK t \in Sups : Alive(t) /\ sup[t].open # 0 /\ Key(t, sup[t].open) = Segment(s)
    BY DEF Open
  <2>3. sup[t].chan = sup[s].chan /\ sup[t].open = sup[s].job.seg
    BY <2>2 DEF Segment, Key
  <2>4. t = s
    BY <1>1, <2>1, <2>2, <2>3 DEF WatchOK, OneSupervisor, SupervisedOnce
  <2> QED BY <2>1, <2>3, <2>4 DEF JobOK
<1> QED BY <1>1, <1>2, <1>3 DEF CaptureSound, ArchiveOK, WatchOK

(***************************************************************************)
(* Whatever calls fail, wherever the worker is killed or shut down,        *)
(* however channels are edited and recordings age, for any number of       *)
(* channels, supervisors, segments, rows and faults: no segment is lost    *)
(* and a ready recording has its object; none is archived that is still    *)
(* written and a channel has one supervisor, unless it was enabled again   *)
(* while its disabled one drained; an object has its row, unless it was    *)
(* past the retention before it was archived (manager.go, supervisor.go,   *)
(* tv_recording.go).                                                       *)
(***************************************************************************)
THEOREM CaptureIsSound == Spec => []CaptureSound
<1>1. CaptureInv /\ [Next]_vars => CaptureInv'
  BY CaptureStep
<1> QED BY CaptureInit, <1>1, CaptureInvSound, PTL DEF Spec
=============================================================================
