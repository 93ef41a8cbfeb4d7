--------------------------- MODULE LiveSocketProofs ---------------------------
(***************************************************************************)
(* Theorems about the ends of connections and the guards before them.      *)
(* LiveSocket, for every number of frames, every buffer and every way      *)
(* clients close; ChannelViewer, for any units, sessions, backlog, buffer  *)
(* and attempts; LoginLimiter, for any clients, burst and cap, with its    *)
(* refinement of a limiter that forgets nobody; CaptureToken, for any      *)
(* callers, lifetimes and rotations.                                       *)
(***************************************************************************)
EXTENDS MCSockets, SequenceTheorems, FiniteSetTheorems, TLAPS

\* What the handler captured is what it wrote, but for the event it is writing;
\* after a failed write the stream never counts as drained.
Capturing ==
  /\ pc \in {"lookup", "run"} => captured = {} /\ delivered = {}
  /\ pc = "range" => captured = delivered
  /\ pc = "write" => captured = delivered \cup {event}
  /\ pc \in {"close", "await"} /\ drained => captured = delivered

\* The steps that leave the handler alone.
LEMMA OthersKeepHandler ==
  ASSUME ClientStep \/ AbortRequest \/ ReaderStep \/ PingStep \/ AnalyzerStep
  PROVE  UNCHANGED handlerVars
<1>1. CASE ClientStep \/ AbortRequest
  BY <1>1 DEF ClientStep, SendFrame, Leave, EchoClose, AbortRequest
<1>2. CASE ReaderStep
  BY <1>2 DEF ReaderStep, ReadFrame, Forward, StopForwarding, ReadFails, Finish
<1>3. CASE PingStep
  BY <1>3 DEF PingStep, PingLost, PingStops
<1>4. CASE AnalyzerStep
  BY <1>4 DEF AnalyzerStep, Hear, ProviderEnds, CloseEvents
<1> QED BY <1>1, <1>2, <1>3, <1>4

LEMMA CapturingStep == Capturing /\ [Next]_vars => Capturing'
<1> SUFFICES ASSUME Capturing, [Next]_vars PROVE Capturing'
  OBVIOUS
<1>1. CASE UNCHANGED handlerVars
  BY <1>1 DEF handlerVars, Capturing
<1>2. CASE Lookup \/ ReplayEvent \/ EndReplay \/ StartSession
  BY <1>2 DEF Lookup, ReplayEvent, EndReplay, StartSession, Capturing
<1>3. ASSUME NEW e \in Events, Receive(e)
      PROVE  Capturing'
  BY <1>3 DEF Receive, Capturing
<1>4. CASE WriteEvent
  BY <1>4 DEF WriteEvent, Capturing
<1>5. CASE WriteFails \/ StreamEnds
  BY <1>5 DEF WriteFails, StreamEnds, Capturing
<1>6. CASE CloseConnection \/ Return
  BY <1>6 DEF CloseConnection, Return, Capturing
<1>7. CASE UNCHANGED vars
  BY <1>1, <1>7 DEF vars, handlerVars
<1> QED BY <1>1, <1>2, <1>3, <1>4, <1>5, <1>6, <1>7, OthersKeepHandler
        DEF Next, HandlerStep

\* A step that changes the stored analysis stores what its viewer was sent.
LEMMA StoreStep ==
  ASSUME Capturing, [Next]_vars, cache' # cache
  PROVE  cache' = delivered
<1>1. CASE UNCHANGED handlerVars \/ UNCHANGED vars
  BY <1>1 DEF handlerVars, vars
<1>2. CASE Lookup \/ ReplayEvent \/ EndReplay \/ StartSession \/ WriteEvent
  BY <1>2 DEF Lookup, ReplayEvent, EndReplay, StartSession, WriteEvent
<1>3. CASE WriteFails \/ StreamEnds \/ CloseConnection \/ \E e \in Events : Receive(e)
  BY <1>3 DEF WriteFails, StreamEnds, CloseConnection, Receive
<1>4. CASE Return
  BY <1>4 DEF Return, Completed, Capturing
<1> QED BY <1>1, <1>2, <1>3, <1>4, OthersKeepHandler DEF Next, HandlerStep

LEMMA CapturingAlways == Spec => []Capturing
<1>1. Init => Capturing
  BY DEF Init, Capturing
<1> QED BY <1>1, CapturingStep, PTL DEF Spec

-----------------------------------------------------------------------------

\* An analysis is stored only as the client of its session was sent it
\* (writeEvents and liveHandler), whatever fails and whoever leaves.
THEOREM AnalysisStoredAsSent == Spec => StoredAsSent
<1>1. Capturing /\ [Next]_vars => [cache' # cache => cache' = delivered]_vars
  BY StoreStep
<1> QED BY <1>1, CapturingAlways, PTL DEF Spec, StoredAsSent

-----------------------------------------------------------------------------
(* Type correctness: no frame is taken before it is put in, put in before it  *)
(* is read, or read before it is sent, and the channel keeps its bound.       *)

LEMMA Bounds == Frames \in Nat /\ Buffer \in Nat
BY SocketAssumption

LEMMA TypeInit == Init => TypeOK
<1> SUFFICES ASSUME Init PROVE TypeOK
  OBVIOUS
<1>1. Switches
  BY DEF Init, Switches
<1>2. Counts
  <2>1. heard = 0 /\ fed = 0 /\ read = 0 /\ sent = 0
    BY DEF Init
  <2> QED BY <2>1, Bounds DEF Counts
<1>3. Points
  BY DEF Init, Points
<1>4. Sets
  BY DEF Init, Sets
<1> QED BY <1>1, <1>2, <1>3, <1>4 DEF TypeOK

LEMMA SwitchesStep == Switches /\ [Next]_vars => Switches'
<1> SUFFICES ASSUME Switches, [Next]_vars PROVE Switches'
  OBVIOUS
<1> USE DEF Switches, client, readerVars, contexts, analyzer, handlerVars
<1>1. CASE ClientStep \/ AbortRequest
  BY <1>1 DEF ClientStep, SendFrame, Leave, EchoClose, AbortRequest
<1>2. ASSUME NEW clean \in BOOLEAN, Finish(clean) PROVE Switches'
  BY <1>2 DEF Finish
<1>3. CASE ReaderStep
  <2>1. CASE ReadFrame \/ Forward
    BY <2>1 DEF ReadFrame, Forward
  <2>2. CASE StopForwarding
    BY <1>2, <2>2 DEF StopForwarding
  <2>3. CASE ReadFails
    <3>1. (~ctxDone /\ peer = "normal") \in BOOLEAN
      OBVIOUS
    <3> QED BY <1>2, <2>3, <3>1 DEF ReadFails
  <2> QED BY <1>3, <2>1, <2>2, <2>3 DEF ReaderStep
<1>4. CASE PingStep
  BY <1>4 DEF PingStep, PingLost, PingStops
<1>5. CASE AnalyzerStep
  BY <1>5 DEF AnalyzerStep, Hear, ProviderEnds, CloseEvents, Promise!Close
<1>6. CASE Lookup \/ ReplayEvent \/ EndReplay \/ StartSession
  BY <1>6 DEF Lookup, ReplayEvent, EndReplay, StartSession
<1>7. ASSUME NEW e \in Events, Receive(e) PROVE Switches'
  BY <1>7 DEF Receive, Promise!Caption, Promise!Resolve
<1>8. CASE WriteEvent \/ WriteFails \/ StreamEnds
  BY <1>8 DEF WriteEvent, WriteFails, StreamEnds
<1>9. CASE CloseConnection \/ Return
  BY <1>9 DEF CloseConnection, Return
<1>10. CASE UNCHANGED vars
  BY <1>10 DEF vars
<1> QED BY <1>1, <1>3, <1>4, <1>5, <1>6, <1>7, <1>8, <1>9, <1>10
        DEF Next, HandlerStep

\* The reader holds at most one frame it has not put in.
InHand == reader = "forwarding" => fed < read

LEMMA CountsStep == Counts /\ InHand /\ [Next]_vars => Counts' /\ InHand'
<1> SUFFICES ASSUME Counts, InHand, [Next]_vars PROVE Counts' /\ InHand'
  OBVIOUS
<1>1. CASE UNCHANGED <<sent, read, fed, heard>> /\ reader' \in {reader, "done", "reading"}
  BY <1>1 DEF Counts, InHand
<1>2. CASE SendFrame
  <2>1. UNCHANGED <<read, fed, heard, reader>> /\ sent < Frames /\ sent' = sent + 1
    BY <1>2 DEF SendFrame, readerVars, analyzer
  <2> QED BY <2>1, Bounds DEF Counts, InHand
<1>3. CASE ReadFrame
  <2>1. UNCHANGED <<sent, fed, heard>> /\ read < sent /\ read' = read + 1
    BY <1>3 DEF ReadFrame, client, analyzer
  <2> QED BY <2>1, Bounds DEF Counts, InHand
<1>4. CASE Forward
  <2>1. /\ UNCHANGED <<sent, read, heard>> /\ reader' = "reading" /\ fed < read
        /\ fed - heard < Buffer /\ fed' = fed + 1
    BY <1>4 DEF Forward, client, analyzer, InHand
  <2> QED BY <2>1, Bounds DEF Counts, InHand
<1>5. CASE Hear
  <2>1. UNCHANGED <<sent, read, fed, reader>> /\ heard < fed /\ heard' = heard + 1
    BY <1>5 DEF Hear, client, readerVars
  <2> QED BY <2>1, Bounds DEF Counts, InHand
<1>6. CASE Leave \/ EchoClose \/ AbortRequest \/ PingStep \/ UNCHANGED vars
  BY <1>1, <1>6 DEF Leave, EchoClose, AbortRequest, PingStep, PingLost, PingStops, vars,
                    client, readerVars, analyzer
<1>7. CASE StopForwarding \/ ReadFails
  BY <1>1, <1>7 DEF StopForwarding, ReadFails, Finish, client, analyzer
<1>8. CASE ProviderEnds \/ CloseEvents
  BY <1>1, <1>8 DEF ProviderEnds, CloseEvents, client, readerVars
<1>9. CASE Lookup \/ ReplayEvent \/ EndReplay \/ StartSession
  BY <1>1, <1>9 DEF Lookup, ReplayEvent, EndReplay, StartSession, client, readerVars,
                    analyzer
<1>10. CASE HandlerStep
  <2>1. ASSUME NEW e \in Events, Receive(e) PROVE Counts' /\ InHand'
    BY <1>1, <2>1 DEF Receive, client, readerVars
  <2>2. CASE WriteEvent \/ WriteFails \/ StreamEnds \/ CloseConnection \/ Return
    BY <1>1, <2>2 DEF WriteEvent, WriteFails, StreamEnds, CloseConnection, Return, client,
                      readerVars, analyzer
  <2> QED BY <1>9, <1>10, <2>1, <2>2 DEF HandlerStep
<1> QED BY <1>2, <1>3, <1>4, <1>5, <1>6, <1>7, <1>8, <1>10
        DEF Next, ClientStep, ReaderStep, AnalyzerStep

LEMMA PointsStep == Points /\ [Next]_vars => Points'
<1> SUFFICES ASSUME Points, [Next]_vars PROVE Points'
  OBVIOUS
<1> USE SocketAssumption DEF Points, client, readerVars, handlerVars
<1>1. CASE ClientStep \/ AbortRequest
  BY <1>1 DEF ClientStep, SendFrame, Leave, EchoClose, AbortRequest
<1>2. CASE ReaderStep
  BY <1>2 DEF ReaderStep, ReadFrame, Forward, StopForwarding, ReadFails, Finish
<1>3. CASE PingStep \/ AnalyzerStep
  BY <1>3 DEF PingStep, PingLost, PingStops, AnalyzerStep, Hear, ProviderEnds, CloseEvents
<1>4. CASE Lookup \/ ReplayEvent \/ EndReplay \/ StartSession
  BY <1>4 DEF Lookup, ReplayEvent, EndReplay, StartSession
<1>5. ASSUME NEW e \in Events, Receive(e) PROVE Points'
  BY <1>5 DEF Receive
<1>6. CASE WriteEvent \/ WriteFails \/ StreamEnds \/ CloseConnection \/ Return
  BY <1>6 DEF WriteEvent, WriteFails, StreamEnds, CloseConnection, Return
<1>7. CASE UNCHANGED vars
  BY <1>7 DEF vars
<1> QED BY <1>1, <1>2, <1>3, <1>4, <1>5, <1>6, <1>7 DEF Next, HandlerStep

\* The handler writes an event it has.
Writing == pc = "write" => event \in Events

LEMMA WritingStep == Writing /\ [Next]_vars => Writing'
<1> SUFFICES ASSUME Writing, [Next]_vars PROVE Writing'
  OBVIOUS
<1>1. CASE UNCHANGED handlerVars \/ UNCHANGED vars
  BY <1>1 DEF handlerVars, vars, Writing
<1>2. ASSUME NEW e \in Events, Receive(e) PROVE Writing'
  BY <1>2 DEF Receive, Writing
<1>3. CASE HandlerStep
  BY <1>2, <1>3 DEF HandlerStep, Lookup, ReplayEvent, EndReplay, StartSession, WriteEvent,
     WriteFails, StreamEnds, CloseConnection, Return, Writing
<1> QED BY <1>1, <1>3, OthersKeepHandler DEF Next

LEMMA SetsStep == Counts /\ Writing /\ Sets /\ [Next]_vars => Sets'
<1> SUFFICES ASSUME Counts, Writing, Sets, [Next]_vars PROVE Sets'
  OBVIOUS
<1> DEFINE hvars == <<event, captured, delivered, cache>>
           avars == <<captioned, resolved>>
<1>1. CASE UNCHANGED hvars /\ UNCHANGED avars /\ heard' = heard
  BY <1>1 DEF Sets
<1>2. CASE ClientStep \/ AbortRequest \/ ReaderStep \/ PingStep \/ UNCHANGED vars
  <2>1. UNCHANGED <<handlerVars, analyzer>>
    BY <1>2, OthersKeepHandler
       DEF ClientStep, SendFrame, Leave, EchoClose, AbortRequest, ReaderStep, ReadFrame,
           Forward, StopForwarding, ReadFails, Finish, PingStep, PingLost, PingStops, vars
  <2> QED BY <1>1, <2>1 DEF handlerVars, analyzer
<1>3. CASE ProviderEnds \/ CloseEvents
  BY <1>1, <1>3 DEF ProviderEnds, CloseEvents, Promise!Close, handlerVars
<1>4. CASE Hear
  <2>1. UNCHANGED hvars /\ UNCHANGED avars /\ heard' = heard + 1
    BY <1>4 DEF Hear, handlerVars
  <2>2. 1 .. heard \subseteq 1 .. heard'
    BY <2>1 DEF Counts
  <2> QED BY <2>1, <2>2 DEF Sets
<1>5. CASE Lookup \/ EndReplay \/ StartSession \/ StreamEnds \/ CloseConnection
  BY <1>1, <1>5 DEF Lookup, EndReplay, StartSession, StreamEnds, CloseConnection, analyzer
<1>6. ASSUME NEW e \in Events, Receive(e) PROVE Sets'
  <2>1. e.id \in 1 .. Frames /\ e.id <= heard /\ heard' = heard
    BY <1>6 DEF Receive, Events
  <2>2. e.id \in 1 .. heard
    BY <2>1 DEF Counts
  <2>3. captioned' \subseteq 1 .. heard /\ resolved' \subseteq captioned'
    <3>1. CASE captioned' = captioned \cup {e.id} /\ resolved' = resolved
      BY <2>2, <3>1 DEF Sets
    <3>2. CASE resolved' = resolved \cup {e.id} /\ e.id \in captioned /\ captioned' = captioned
      BY <3>2 DEF Sets
    <3>3. CASE e.kind = "subtitle"
      BY <1>6, <3>1, <3>3 DEF Receive, Promise!Caption
    <3>4. CASE e.kind # "subtitle"
      BY <1>6, <3>2, <3>4 DEF Receive, Promise!Resolve
    <3> QED BY <3>3, <3>4
  <2> QED BY <1>6, <2>1, <2>3 DEF Receive, Sets
<1>7. CASE ReplayEvent \/ WriteEvent \/ WriteFails
  <2>1. UNCHANGED avars /\ heard' = heard
    BY <1>7 DEF ReplayEvent, WriteEvent, WriteFails, analyzer
  <2>2. WriteEvent => event \in Events
    BY DEF WriteEvent, Writing
  <2> QED BY <1>7, <2>1, <2>2 DEF ReplayEvent, WriteEvent, WriteFails, Sets
<1>8. CASE Return
  BY <1>8 DEF Return, analyzer, Sets
<1> QED BY <1>2, <1>3, <1>4, <1>5, <1>6, <1>7, <1>8
        DEF Next, AnalyzerStep, HandlerStep

\* The types of the socket's state: in particular no frame is heard before it is
\* forwarded, forwarded before it is read, or read before it is sent, and the
\* audio channel keeps its capacity (run, liveAudioBuffer).
THEOREM SocketTypeCorrect == Spec => []TypeOK
<1> DEFINE Inv == TypeOK /\ InHand /\ Writing
<1>1. Init => Inv
  BY TypeInit DEF Init, InHand, Writing
<1>2. Inv /\ [Next]_vars => Inv'
  BY SwitchesStep, CountsStep, PointsStep, SetsStep, WritingStep DEF TypeOK
<1>3. Inv => TypeOK
  OBVIOUS
<1> QED BY <1>1, <1>2, <1>3, PTL DEF Spec

-----------------------------------------------------------------------------
(* The limiter of logins.  A bucket has at least the tokens its age has given *)
(* back, so one old enough for a sweep is full; a full one is as good as none. *)
LimiterInv ==
  /\ LimiterTypeOK /\ IsFiniteSet(DOMAIN buckets) /\ Cardinality(DOMAIN buckets) <= MaxBuckets
  /\ \A k \in DOMAIN buckets : buckets[k].tokens = Burst \/ buckets[k].tokens >= buckets[k].age

\* What is left of the buckets once some full ones are forgotten.
Forgets(map) ==
  /\ DOMAIN map \subseteq DOMAIN buckets /\ map = [k \in DOMAIN map |-> buckets[k]]
  /\ \A k \in DOMAIN buckets \ DOMAIN map : buckets[k].tokens = Burst

LEMMA BucketFacts ==
  ASSUME LimiterInv, NEW k \in DOMAIN buckets
  PROVE  /\ k \in Keys /\ buckets[k] = [tokens |-> buckets[k].tokens, age |-> buckets[k].age]
         /\ buckets[k].tokens \in 0 .. Burst /\ buckets[k].age \in 0 .. StaleAfter
         /\ buckets[k].age >= StaleAfter => buckets[k].tokens = Burst
<1>1. k \in Keys /\ buckets[k] \in BucketRec /\ (buckets[k].tokens = Burst \/ buckets[k].tokens >= buckets[k].age)
  BY DEF LimiterInv, LimiterTypeOK
<1>2. buckets[k].tokens \in 0 .. Burst /\ buckets[k].age \in 0 .. StaleAfter
  BY <1>1 DEF BucketRec
<1>3. buckets[k] = [tokens |-> buckets[k].tokens, age |-> buckets[k].age]
  BY <1>1 DEF BucketRec
<1> QED BY <1>1, <1>2, <1>3, LimiterAssumption

\* A sweep and the room it makes forget full buckets only.
LEMMA SweptForgets ==
  ASSUME LimiterInv
  PROVE  Forgets(Swept)
<1>1. buckets = [k \in DOMAIN buckets |-> buckets[k]]
  BY DEF LimiterInv, LimiterTypeOK
<1>2. CASE sinceSweep < StaleAfter
  BY <1>1, <1>2 DEF Swept, Forgets
<1>3. CASE ~ (sinceSweep < StaleAfter)
  <2> DEFINE fresh == {k \in DOMAIN buckets : buckets[k].age < StaleAfter}
  <2>1. Swept = [k \in fresh |-> buckets[k]]
    BY <1>3 DEF Swept, Restrict
  <2>2. \A k \in DOMAIN buckets \ fresh : buckets[k].tokens = Burst
    BY BucketFacts, LimiterAssumption
  <2> QED BY <2>1, <2>2 DEF Forgets
<1> QED BY <1>2, <1>3

LEMMA RoomForgets ==
  ASSUME LimiterInv, NEW k \in Keys, NEW map \in Roomy(Swept, k)
  PROVE  Forgets(map)
<1>1. Forgets(Swept)
  BY SweptForgets
<1>2. CASE map = Swept
  BY <1>1, <1>2
<1>3. CASE map # Swept
  <2>1. PICK x \in Refills(Swept) : map = Restrict(Swept, DOMAIN Swept \ {x})
    BY <1>3 DEF Roomy, Evicted
  <2>2. map = [y \in DOMAIN Swept \ {x} |-> Swept[y]]
    BY <2>1 DEF Restrict
  <2>3. x \in DOMAIN Swept /\ Swept[x].tokens = Burst
    BY <2>1 DEF Refills
  <2>4. \A y \in DOMAIN Swept : Swept[y] = buckets[y]
    BY <1>1 DEF Forgets
  <2> QED BY <1>1, <2>2, <2>3, <2>4 DEF Forgets
<1> QED BY <1>2, <1>3

LEMMA ForgetsKeepsTokens ==
  ASSUME NEW map, Forgets(map), NEW k \in Keys
  PROVE  Tokens(map, k) = Tokens(buckets, k)
<1>1. k \in DOMAIN map => map[k] = buckets[k]
  BY DEF Forgets
<1> QED BY <1>1 DEF Forgets, Tokens

\* What is forgotten leaves the invariant true of the rest.
LEMMA ForgetsKeeps ==
  ASSUME LimiterInv, NEW map, Forgets(map)
  PROVE  /\ DOMAIN map \subseteq Keys /\ IsFiniteSet(DOMAIN map) /\ Cardinality(DOMAIN map) <= MaxBuckets
         /\ Cardinality(DOMAIN map) \in Nat
         /\ \A k \in DOMAIN map : map[k] \in BucketRec /\ (map[k].tokens = Burst \/ map[k].tokens >= map[k].age)
<1>1. DOMAIN map \subseteq DOMAIN buckets /\ \A k \in DOMAIN map : map[k] = buckets[k]
  BY DEF Forgets
<1>2. IsFiniteSet(DOMAIN map) /\ Cardinality(DOMAIN map) <= Cardinality(DOMAIN buckets)
  BY <1>1, FS_Subset DEF LimiterInv
<1>3. Cardinality(DOMAIN map) \in Nat /\ Cardinality(DOMAIN buckets) \in Nat
  BY <1>2, FS_CardinalityType DEF LimiterInv
<1>4. Cardinality(DOMAIN map) <= MaxBuckets
  BY <1>2, <1>3, LimiterAssumption DEF LimiterInv
<1> QED BY <1>1, <1>2, <1>3, <1>4 DEF LimiterInv, LimiterTypeOK

LEMMA SweptAtInRange ==
  ASSUME LimiterInv
  PROVE  SweptAt \in 0 .. StaleAfter
BY LimiterAssumption DEF LimiterInv, LimiterTypeOK, SweptAt

LEMMA TickKeeps ==
  ASSUME LimiterInv, Tick
  PROVE  LimiterInv'
<1>1. /\ buckets' = [k \in DOMAIN buckets |-> [tokens |-> Capped(buckets[k].tokens, Burst),
                                              age |-> Capped(buckets[k].age, StaleAfter)]]
      /\ DOMAIN buckets' = DOMAIN buckets
  BY DEF Tick
<1>2. sinceSweep' \in 0 .. StaleAfter
  BY LimiterAssumption DEF Tick, Capped, LimiterInv, LimiterTypeOK
<1>3. ASSUME NEW k \in DOMAIN buckets
      PROVE  buckets'[k] \in BucketRec /\ (buckets'[k].tokens = Burst \/ buckets'[k].tokens >= buckets'[k].age)
  <2>1. PICK t \in 0 .. Burst, a \in 0 .. StaleAfter :
           t = buckets[k].tokens /\ a = buckets[k].age /\ (t = Burst \/ t >= a)
    BY BucketFacts DEF LimiterInv
  <2>2. Capped(t, Burst) \in 0 .. Burst /\ Capped(a, StaleAfter) \in 0 .. StaleAfter
        /\ (Capped(t, Burst) = Burst \/ Capped(t, Burst) >= Capped(a, StaleAfter))
    BY <2>1, LimiterAssumption DEF Capped
  <2>3. buckets'[k] = [tokens |-> Capped(t, Burst), age |-> Capped(a, StaleAfter)]
    BY <1>1, <2>1
  <2> QED BY <2>2, <2>3 DEF BucketRec
<1>4. buckets' \in [DOMAIN buckets' -> BucketRec]
  BY <1>1, <1>3
<1> QED BY <1>1, <1>2, <1>3, <1>4 DEF LimiterInv, LimiterTypeOK

LEMMA AllowKeeps ==
  ASSUME LimiterInv, NEW k \in Keys, Allow(k)
  PROVE  LimiterInv'
<1>1. PICK map \in Roomy(Swept, k) :
        HasRoom(map, k) /\ Tokens(map, k) > 0 /\ buckets' = Spent(map, k) /\ sinceSweep' = SweptAt
  BY DEF Allow
<1>2. Forgets(map)
  BY RoomForgets
<1>3. /\ DOMAIN map \subseteq Keys /\ IsFiniteSet(DOMAIN map) /\ Cardinality(DOMAIN map) <= MaxBuckets
      /\ Cardinality(DOMAIN map) \in Nat
      /\ \A x \in DOMAIN map : map[x] \in BucketRec /\ (map[x].tokens = Burst \/ map[x].tokens >= map[x].age)
  BY <1>2, ForgetsKeeps
<1>4. PICK t \in 0 .. Burst : t = Tokens(map, k) /\ t > 0
  BY <1>1, <1>3, LimiterAssumption DEF Tokens, BucketRec
<1>5. /\ DOMAIN buckets' = DOMAIN map \cup {k}
      /\ \A x \in DOMAIN buckets' : buckets'[x] = IF x = k THEN [tokens |-> t - 1, age |-> 0] ELSE map[x]
      /\ buckets' = [x \in DOMAIN buckets' |-> buckets'[x]]
  BY <1>1, <1>4 DEF Spent
<1>6. t - 1 \in 0 .. Burst /\ t - 1 >= 0 /\ 0 \in 0 .. StaleAfter
  BY <1>4, LimiterAssumption
<1>7. \A x \in DOMAIN buckets' :
         buckets'[x] \in BucketRec /\ (buckets'[x].tokens = Burst \/ buckets'[x].tokens >= buckets'[x].age)
  BY <1>3, <1>5, <1>6 DEF BucketRec
<1>8. IsFiniteSet(DOMAIN buckets') /\ Cardinality(DOMAIN buckets') <= MaxBuckets
  <2>1. CASE k \in DOMAIN map
    <3>1. DOMAIN buckets' = DOMAIN map
      BY <1>5, <2>1
    <3> QED BY <1>3, <3>1
  <2>2. CASE k \notin DOMAIN map
    <3>1. Cardinality(DOMAIN map) < MaxBuckets
      BY <1>1, <2>2 DEF HasRoom
    <3>2. IsFiniteSet(DOMAIN buckets') /\ Cardinality(DOMAIN buckets') = Cardinality(DOMAIN map) + 1
      BY <1>3, <1>5, <2>2, FS_AddElement
    <3> QED BY <1>3, <3>1, <3>2, LimiterAssumption
  <2> QED BY <2>1, <2>2
<1>9. DOMAIN buckets' \subseteq Keys /\ sinceSweep' \in 0 .. StaleAfter
  BY <1>1, <1>3, <1>5, SweptAtInRange
<1> QED BY <1>5, <1>7, <1>8, <1>9 DEF LimiterInv, LimiterTypeOK

LEMMA DenyKeeps ==
  ASSUME LimiterInv, NEW k \in Keys, Deny(k)
  PROVE  LimiterInv'
<1>1. PICK map \in Roomy(Swept, k) : buckets' = map /\ sinceSweep' = SweptAt
  BY DEF Deny
<1>2. Forgets(map)
  BY RoomForgets
<1>3. map = [x \in DOMAIN map |-> map[x]]
  BY <1>2 DEF Forgets
<1> QED BY <1>1, <1>2, <1>3, ForgetsKeeps, SweptAtInRange DEF LimiterInv, LimiterTypeOK

LEMMA LimiterStarts == InitLimiter => LimiterInv
<1> SUFFICES ASSUME InitLimiter PROVE LimiterInv
  OBVIOUS
<1>1. DOMAIN buckets = {} /\ buckets = [k \in {} |-> buckets[k]] /\ sinceSweep = StaleAfter
  BY DEF InitLimiter
<1> QED BY <1>1, FS_EmptySet, LimiterAssumption DEF LimiterInv, LimiterTypeOK

LEMMA LimiterStep == LimiterInv /\ [NextLimiter]_limiterVars => LimiterInv'
<1> SUFFICES ASSUME LimiterInv, [NextLimiter]_limiterVars PROVE LimiterInv'
  OBVIOUS
<1>1. CASE UNCHANGED limiterVars
  BY <1>1 DEF limiterVars, LimiterInv, LimiterTypeOK
<1>2. CASE NextLimiter
  BY <1>2, TickKeeps, AllowKeeps, DenyKeeps DEF NextLimiter
<1> QED BY <1>1, <1>2

LEMMA LimiterInvSound == LimiterInv => LimiterSound
BY BucketFacts DEF LimiterInv, LimiterSound

(* However many clients try and whatever the cap, the burst and the sample,   *)
(* the buckets stay within the cap, and one that a sweep may forget is full   *)
(* (RateLimiter).                                                             *)
THEOREM LimiterIsSound == LimiterSpec => []LimiterSound
BY LimiterStarts, LimiterStep, LimiterInvSound, PTL DEF LimiterSpec


\* What the limiter would answer a client, in a step that forgets some buckets.
LEMMA AttemptLevels ==
  ASSUME LimiterInv, NEW k \in Keys, NEW map \in Roomy(Swept, k), NEW x \in Keys
  PROVE  Tokens(map, x) = Tokens(buckets, x)
BY RoomForgets, ForgetsKeepsTokens

LEMMA TickRefills ==
  ASSUME LimiterInv, Tick
  PROVE  Endless!Refill
<1>1. /\ DOMAIN buckets' = DOMAIN buckets
      /\ \A k \in DOMAIN buckets : buckets'[k].tokens = Capped(buckets[k].tokens, Burst)
  BY DEF Tick
<1>2. \A k \in Keys : Tokens(buckets', k) = Endless!Refilled(Tokens(buckets, k))
  BY <1>1, LimiterAssumption DEF Tokens, Endless!Refilled, Capped
<1> QED BY <1>2 DEF Endless!Refill

LEMMA AllowLetsThrough ==
  ASSUME LimiterInv, NEW k \in Keys, Allow(k)
  PROVE  Endless!LetThrough(k)
<1>1. PICK map \in Roomy(Swept, k) : Tokens(map, k) > 0 /\ buckets' = Spent(map, k)
  BY DEF Allow
<1>2. \A x \in Keys : Tokens(map, x) = Tokens(buckets, x)
  BY AttemptLevels
<1>3. /\ DOMAIN buckets' = DOMAIN map \cup {k} /\ buckets'[k].tokens = Tokens(map, k) - 1
      /\ \A x \in DOMAIN map \ {k} : buckets'[x] = map[x]
  BY <1>1 DEF Spent
<1>4. \A x \in Keys : Tokens(buckets', x) = IF x = k THEN Tokens(map, k) - 1 ELSE Tokens(map, x)
  BY <1>3 DEF Tokens
<1> QED BY <1>1, <1>2, <1>4 DEF Endless!LetThrough

LEMMA DenyLeavesLevels ==
  ASSUME LimiterInv, NEW k \in Keys, Deny(k)
  PROVE  \A x \in Keys : Tokens(buckets', x) = Tokens(buckets, x)
<1>1. PICK map \in Roomy(Swept, k) : buckets' = map
  BY DEF Deny
<1> QED BY <1>1, AttemptLevels

LEMMA LimiterImplements ==
  LimiterInv /\ [NextLimiter]_limiterVars => [Endless!NextBuckets]_([k \in Keys |-> Tokens(buckets, k)])
<1> SUFFICES ASSUME LimiterInv, [NextLimiter]_limiterVars
             PROVE  [Endless!NextBuckets]_([k \in Keys |-> Tokens(buckets, k)])
  OBVIOUS
<1>1. CASE UNCHANGED limiterVars
  BY <1>1 DEF limiterVars, Tokens
<1>2. CASE Tick
  BY <1>2, TickRefills DEF Endless!NextBuckets
<1>3. CASE \E k \in Keys : Allow(k)
  BY <1>3, AllowLetsThrough DEF Endless!NextBuckets
<1>4. CASE \E k \in Keys : Deny(k)
  <2>1. \A x \in Keys : Tokens(buckets', x) = Tokens(buckets, x)
    BY <1>4, DenyLeavesLevels
  <2> QED BY <2>1
<1> QED BY <1>1, <1>2, <1>3, <1>4 DEF NextLimiter

(* The limiter refines one that keeps a full bucket for every client from the *)
(* start: whatever it sweeps or evicts, no client gets an attempt back        *)
(* (evictRefilled, sweep).                                                    *)
THEOREM LimiterForgetsNothing == LimiterSpec => LimiterKeeps
<1>1. InitLimiter => Endless!InitBuckets
  <2> SUFFICES ASSUME InitLimiter PROVE Endless!InitBuckets
    OBVIOUS
  <2>1. DOMAIN buckets = {}
    BY DEF InitLimiter
  <2> QED BY <2>1 DEF Endless!InitBuckets, Tokens
<1> QED
  BY <1>1, LimiterStarts, LimiterStep, LimiterImplements, PTL
  DEF LimiterSpec, LimiterKeeps, Endless!BucketsSpec

-----------------------------------------------------------------------------
(* The token of the capture worker. *)
Fetches == {"fetch", "answer"}
TokenRec == [name : TokenNames \cup {"none"}, keys : Nat, exp : Nat]
CallRec == [pc : {"idle", "token", "send", "rejected"} \cup Fetches, token : TokenRec, ttl : Nat, since : Nat]
CacheRec == [token : TokenRec, until : Nat]

\* A call at time t when `out` is what has been rejected: a fetch is within its
\* timeout, and the answer it got is of a new token that lasts from its request on.
CallRight(r, t, out) ==
  /\ r.pc \in Fetches => r.since <= t /\ t <= r.since + FetchTimeout
  /\ r.pc = "answer" => r.since + r.ttl <= r.token.exp /\ r.token.name \in TokenNames \ out
  /\ r.pc \in {"send", "rejected"} => r.token.name \in TokenNames

\* The cache counts from the arrival of a token, at most a timeout too late.
CacheRight(k, out) ==
  k.token # NoToken => k.token.name \in TokenNames \ out /\ k.until <= k.token.exp + FetchTimeout

TokenTypes ==
  /\ now \in 0 .. MaxNow /\ keys \in 0 .. MaxRotations /\ rejected \subseteq TokenNames
  /\ cached \in CacheRec /\ call \in [Callers -> CallRec]

Holding == holder \in Callers \cup {Nobody} /\ \A c \in Callers : call[c].pc \in Fetches <=> holder = c

TokenInv ==
  /\ TokenTypes /\ Holding /\ CacheRight(cached, rejected)
  /\ \A c \in Callers : CallRight(call[c], now, rejected)

\* What a step of one call has to show.
LEMMA CallMoves ==
  ASSUME TokenInv, NEW c \in Callers, NEW r \in CallRec, call' = [call EXCEPT ![c] = r], UNCHANGED <<now, keys>>,
         rejected' \subseteq TokenNames, cached' \in CacheRec, CacheRight(cached', rejected'),
         CallRight(r, now, rejected'),
         \A d \in Callers \ {c} : call[d].pc = "answer" => call[d].token.name \notin rejected',
         IF r.pc \in Fetches THEN holder' = c /\ holder \in {c, Nobody}
         ELSE IF call[c].pc \in Fetches THEN holder' = Nobody ELSE holder' = holder
  PROVE  TokenInv'
<1>1. call'[c] = r /\ call' \in [Callers -> CallRec] /\ \A d \in Callers \ {c} : call'[d] = call[d]
  BY DEF TokenInv, TokenTypes
<1>2. TokenTypes'
  BY <1>1 DEF TokenInv, TokenTypes
<1>3. \A d \in Callers : CallRight(call'[d], now', rejected')
  <2>1. \A d \in Callers \ {c} : CallRight(call[d], now, rejected')
    BY DEF TokenInv, CallRight
  <2> QED BY <1>1, <2>1
<1>4. Holding'
  <2>1. holder \in Callers \cup {Nobody} /\ Nobody \notin Callers
        /\ \A d \in Callers : call[d].pc \in Fetches <=> holder = d
    BY TokenAssumption DEF TokenInv, Holding, Nobody
  <2> QED BY <1>1, <2>1 DEF Holding
<1> QED BY <1>2, <1>3, <1>4 DEF TokenInv

LEMMA CallFacts ==
  ASSUME TokenInv, NEW c \in Callers
  PROVE  /\ call[c].token \in TokenRec /\ call[c].ttl \in Nat /\ call[c].since \in Nat
         /\ call[c] = [pc |-> call[c].pc, token |-> call[c].token, ttl |-> call[c].ttl, since |-> call[c].since]
         /\ CallRight(call[c], now, rejected) /\ CacheRight(cached, rejected) /\ rejected \subseteq TokenNames
         /\ cached \in CacheRec /\ cached.token \in TokenRec
         /\ now \in Nat /\ keys \in Nat /\ FetchTimeout \in Nat
         /\ \A d \in Callers : CallRight(call[d], now, rejected)
         /\ holder \in Callers \cup {Nobody} /\ \A d \in Callers : call[d].pc \in Fetches <=> holder = d
BY TokenAssumption DEF TokenInv, TokenTypes, Holding, CallRec, CacheRec

\* The names of the answers on their way were never rejected.
LEMMA AnswersFresh ==
  ASSUME TokenInv
  PROVE  \A d \in Callers : call[d].pc = "answer" => call[d].token.name \notin rejected
BY DEF TokenInv, CallRight

LEMMA IdleRight == Idle \in CallRec /\ Idle.pc = "idle" /\ NoToken \in TokenRec
                   /\ \A t, out : CallRight(Idle, t, out)
BY DEF Idle, NoToken, CallRec, TokenRec, CallRight, Fetches

LEMMA StartCallKeeps ==
  ASSUME TokenInv, NEW c \in Callers, StartCall(c)
  PROVE  TokenInv'
<1>x. PICK x \in CallRec : x = call[c]
  BY DEF TokenInv, TokenTypes
<1>r. PICK r : r = [x EXCEPT !.pc = "token"]
  OBVIOUS
<1>0. r = [pc |-> "token", token |-> x.token, ttl |-> x.ttl, since |-> x.since]
  BY <1>r DEF CallRec
<1>1. call' = [call EXCEPT ![c] = r] /\ UNCHANGED <<now, keys, cached, holder, rejected>> /\ call[c].pc = "idle"
  BY <1>x, <1>r DEF StartCall
<1>2. r \in CallRec /\ r.pc = "token" /\ CallRight(r, now, rejected)
  BY <1>x, <1>0, CallFacts DEF CallRec, CallRight, Fetches
<1> QED BY <1>1, <1>2, CallFacts, AnswersFresh, CallMoves DEF Fetches

LEMMA UseCachedKeeps ==
  ASSUME TokenInv, NEW c \in Callers, UseCached(c)
  PROVE  TokenInv'
<1>x. PICK x \in CallRec : x = call[c]
  BY DEF TokenInv, TokenTypes
<1>r. PICK r : r = [x EXCEPT !.pc = "send", !.token = cached.token]
  OBVIOUS
<1>0. r = [pc |-> "send", token |-> cached.token, ttl |-> x.ttl, since |-> x.since]
  BY <1>r DEF CallRec
<1>1. call' = [call EXCEPT ![c] = r] /\ UNCHANGED <<now, keys, cached, holder, rejected>> /\ call[c].pc = "token"
  BY <1>x, <1>r DEF UseCached
<1>2. cached.token.name \in TokenNames
  BY CallFacts DEF UseCached, CacheGood, CacheRight
<1>3. r \in CallRec /\ r.pc = "send" /\ CallRight(r, now, rejected)
  BY <1>x, <1>0, <1>2, CallFacts DEF CallRec, CallRight, Fetches
<1> QED BY <1>1, <1>3, CallFacts, AnswersFresh, CallMoves DEF Fetches

LEMMA StartTokenFetchKeeps ==
  ASSUME TokenInv, NEW c \in Callers, StartTokenFetch(c)
  PROVE  TokenInv'
<1>x. PICK x \in CallRec : x = call[c]
  BY DEF TokenInv, TokenTypes
<1>r. PICK r : r = [x EXCEPT !.pc = "fetch", !.since = now]
  OBVIOUS
<1>0. r = [pc |-> "fetch", token |-> x.token, ttl |-> x.ttl, since |-> now]
  BY <1>r DEF CallRec
<1>1. /\ call' = [call EXCEPT ![c] = r] /\ UNCHANGED <<now, keys, cached, rejected>>
      /\ holder = Nobody /\ holder' = c
  BY <1>x, <1>r DEF StartTokenFetch
<1>2. r \in CallRec /\ r.pc = "fetch" /\ CallRight(r, now, rejected)
  BY <1>x, <1>0, CallFacts DEF CallRec, CallRight, Fetches
<1> QED BY <1>1, <1>2, CallFacts, AnswersFresh, CallMoves DEF Fetches

LEMMA IssueKeeps ==
  ASSUME TokenInv, NEW c \in Callers, NEW ttl \in Lifetimes, Issue(c, ttl)
  PROVE  TokenInv'
<1> DEFINE token == [name |-> Unused, keys |-> keys, exp |-> now + ttl]
<1>x. PICK x \in CallRec : x = call[c]
  BY DEF TokenInv, TokenTypes
<1>0. PICK r : r = [pc |-> "answer", ttl |-> ttl, since |-> x.since, token |-> token]
  OBVIOUS
<1>1. /\ call' = [call EXCEPT ![c] = r] /\ UNCHANGED <<now, keys, cached, holder>>
      /\ rejected' = rejected \ {Unused} /\ call[c].pc = "fetch"
  BY <1>x, <1>0 DEF Issue
<1>2. Unused \in TokenNames
  BY DEF Issue, Unused
<1>3. ttl \in Nat /\ now + ttl \in Nat /\ call[c].since + ttl <= now + ttl
      /\ call[c].since <= now /\ now <= call[c].since + FetchTimeout
  <2>1. PICK t \in Nat, s \in Nat : t = now /\ s = call[c].since
    BY CallFacts
  <2>2. s <= t /\ t <= s + FetchTimeout
    BY <1>1, <2>1, CallFacts DEF CallRight, Fetches
  <2>3. ttl \in Nat
    BY TokenAssumption
  <2>4. t + ttl \in Nat /\ s + ttl <= t + ttl
    BY <2>1, <2>2, <2>3
  <2> QED BY <2>1, <2>2, <2>3, <2>4
<1>4. r \in CallRec /\ r.pc = "answer" /\ CallRight(r, now, rejected')
  BY <1>x, <1>0, <1>1, <1>2, <1>3, CallFacts DEF CallRec, TokenRec, CallRight, Fetches
<1>5. CacheRight(cached', rejected')
  BY <1>1, CallFacts DEF CacheRight
<1>6. \A d \in Callers \ {c} : call[d].pc = "answer" => call[d].token.name \notin rejected'
  BY <1>1, AnswersFresh
<1>7. holder = c
  BY <1>1, CallFacts DEF Fetches
<1>8. rejected' \subseteq TokenNames /\ cached' \in CacheRec
  BY <1>1, CallFacts
<1> QED BY <1>1, <1>4, <1>5, <1>6, <1>7, <1>8, CallMoves DEF Fetches

LEMMA ReceiveTokenKeeps ==
  ASSUME TokenInv, NEW c \in Callers, ReceiveToken(c)
  PROVE  TokenInv'
<1>x. PICK x \in CallRec : x = call[c]
  BY DEF TokenInv, TokenTypes
<1>0. PICK r : r = [pc |-> "send", ttl |-> 0, since |-> 0, token |-> x.token]
  OBVIOUS
<1> DEFINE k == [token |-> call[c].token, until |-> now + call[c].ttl]
<1>1. /\ call' = [call EXCEPT ![c] = r] /\ UNCHANGED <<now, keys, rejected>> /\ cached' = k
      /\ holder' = Nobody /\ call[c].pc = "answer"
  BY <1>x, <1>0 DEF ReceiveToken
<1>2. /\ call[c].since + call[c].ttl <= call[c].token.exp /\ call[c].token.name \in TokenNames \ rejected
      /\ now <= call[c].since + FetchTimeout
  BY <1>1, CallFacts DEF CallRight, Fetches
<1>3. PICK t \in Nat, s \in Nat, e \in Nat : t = call[c].ttl /\ s = call[c].since /\ e = call[c].token.exp
  BY CallFacts DEF TokenRec
<1>4. now + t <= e + FetchTimeout /\ now + t \in Nat
  <2>1. PICK n \in Nat : n = now
    BY CallFacts
  <2>2. s + t <= e /\ n <= s + FetchTimeout
    BY <1>2, <1>3, <2>1
  <2>3. n + t <= e + FetchTimeout
    BY <1>3, <2>2, TokenAssumption
  <2> QED BY <1>3, <2>1, <2>3
<1>5. k \in CacheRec /\ CacheRight(k, rejected)
  BY <1>2, <1>3, <1>4, CallFacts DEF CacheRec, CacheRight
<1>6. r \in CallRec /\ r.pc = "send" /\ CallRight(r, now, rejected)
  BY <1>x, <1>0, <1>2, CallFacts DEF CallRec, CallRight, Fetches
<1> QED BY <1>1, <1>5, <1>6, CallFacts, AnswersFresh, CallMoves DEF Fetches

LEMMA CallEndsKeep ==
  ASSUME TokenInv, NEW c \in Callers, FetchFails(c) \/ LetIn(c) \/ CallFails(c)
  PROVE  TokenInv'
<1>1. call' = [call EXCEPT ![c] = Idle] /\ UNCHANGED <<now, keys, cached, rejected>>
  BY DEF FetchFails, LetIn, CallFails
<1>2. IF call[c].pc \in Fetches THEN holder' = Nobody ELSE holder' = holder
  BY DEF FetchFails, LetIn, CallFails, Fetches
<1> QED BY <1>1, <1>2, IdleRight, CallFacts, AnswersFresh, CallMoves DEF Fetches

LEMMA RejectKeeps ==
  ASSUME TokenInv, NEW c \in Callers, Reject(c)
  PROVE  TokenInv'
<1>x. PICK x \in CallRec : x = call[c]
  BY DEF TokenInv, TokenTypes
<1>r. PICK r : r = [x EXCEPT !.pc = "rejected"]
  OBVIOUS
<1>0. r = [pc |-> "rejected", token |-> x.token, ttl |-> x.ttl, since |-> x.since]
  BY <1>r DEF CallRec
<1>1. call' = [call EXCEPT ![c] = r] /\ UNCHANGED <<now, keys, cached, holder, rejected>> /\ call[c].pc = "send"
  BY <1>x, <1>r DEF Reject
<1>2. r \in CallRec /\ r.pc = "rejected" /\ CallRight(r, now, rejected)
  BY <1>x, <1>0, <1>1, CallFacts DEF CallRec, CallRight, Fetches
<1> QED BY <1>1, <1>2, CallFacts, AnswersFresh, CallMoves DEF Fetches

\* Nobody is fetching, so no answer is on its way with the name that is dropped.
LEMMA InvalidateKeeps ==
  ASSUME TokenInv, NEW c \in Callers, Invalidate(c)
  PROVE  TokenInv'
<1>1. /\ call' = [call EXCEPT ![c] = Idle] /\ UNCHANGED <<now, keys, holder>>
      /\ cached' = [token |-> NoToken, until |-> 0] /\ rejected' = rejected \cup {call[c].token.name}
      /\ holder = Nobody /\ call[c].pc = "rejected"
  BY DEF Invalidate
<1>2. \A d \in Callers : call[d].pc \notin Fetches
  BY <1>1, CallFacts, TokenAssumption DEF Nobody
<1>3. rejected' \subseteq TokenNames
  BY <1>1, CallFacts DEF CallRight
<1>4. cached' \in CacheRec /\ CacheRight(cached', rejected')
  BY <1>1, IdleRight DEF CacheRec, CacheRight
<1> QED BY <1>1, <1>2, <1>3, <1>4, IdleRight, CallMoves DEF Fetches

LEMMA ClockKeeps ==
  ASSUME TokenInv, Passes \/ Rotate
  PROVE  TokenInv'
<1>1. UNCHANGED <<cached, holder, call, rejected>>
  BY DEF Passes, Rotate
<1>2. now' \in 0 .. MaxNow /\ keys' \in 0 .. MaxRotations
  BY TokenAssumption DEF TokenInv, TokenTypes, Passes, Rotate
<1>3. ASSUME NEW c \in Callers
      PROVE  CallRight(call[c], now', rejected)
  <2>1. CASE now' = now
    BY <2>1, CallFacts
  <2>2. CASE Passes
    <3>1. PICK t \in Nat, s \in Nat : t = now /\ s = call[c].since
      BY CallFacts
    <3>2. call[c].pc \in Fetches => s <= t /\ t < s + FetchTimeout
      BY <2>2, <3>1, CallFacts DEF Passes, Fetches, CallRight
    <3>3. call[c].pc \in Fetches => s <= t + 1 /\ t + 1 <= s + FetchTimeout
      BY <3>1, <3>2, TokenAssumption
    <3>4. now' = t + 1
      BY <2>2, <3>1 DEF Passes
    <3> QED BY <3>1, <3>3, <3>4, CallFacts DEF CallRight
  <2> QED BY <2>1, <2>2 DEF Rotate
<1> QED BY <1>1, <1>2, <1>3 DEF TokenInv, TokenTypes, Holding

LEMMA TokenStep == TokenInv /\ [NextToken]_tokenVars => TokenInv'
<1> SUFFICES ASSUME TokenInv, [NextToken]_tokenVars PROVE TokenInv'
  OBVIOUS
<1>1. CASE UNCHANGED tokenVars
  BY <1>1 DEF tokenVars, TokenInv, TokenTypes, Holding
<1>2. CASE Passes \/ Rotate
  BY <1>2, ClockKeeps
<1>3. ASSUME NEW c \in Callers, CallStep(c) PROVE TokenInv'
  BY <1>3, StartCallKeeps, IssueKeeps, ReceiveTokenKeeps, CallEndsKeep, RejectKeeps DEF CallStep
<1>4. ASSUME NEW c \in Callers, MutexStep(c) \/ FetchFails(c) \/ CallFails(c) PROVE TokenInv'
  BY <1>4, UseCachedKeeps, StartTokenFetchKeeps, InvalidateKeeps, CallEndsKeep DEF MutexStep
<1> QED BY <1>1, <1>2, <1>3, <1>4 DEF NextToken

LEMMA TokenStarts == InitToken => TokenInv
<1> SUFFICES ASSUME InitToken PROVE TokenInv
  OBVIOUS
<1>1. /\ now = 0 /\ keys = 0 /\ rejected = {} /\ holder = Nobody
      /\ cached = [token |-> NoToken, until |-> 0] /\ call = [c \in Callers |-> Idle]
  BY DEF InitToken
<1>2. TokenTypes /\ CacheRight(cached, rejected)
  BY <1>1, IdleRight, TokenAssumption DEF TokenTypes, CacheRec, CacheRight
<1>3. Holding /\ \A c \in Callers : CallRight(call[c], now, rejected)
  BY <1>1, IdleRight, TokenAssumption DEF Holding, Nobody, Fetches
<1> QED BY <1>2, <1>3 DEF TokenInv

LEMMA TokenInvSound == TokenInv => TokenSound
<1>1. TokenInv => TokenTypeOK
  <2> SUFFICES ASSUME TokenInv PROVE TokenTypeOK
    OBVIOUS
  <2>1. \A c \in Callers : call[c].pc \in {"idle", "token", "fetch", "answer", "send", "rejected"}
    BY DEF TokenInv, TokenTypes, CallRec, Fetches
  <2>2. (holder # Nobody) <=> \E c \in Callers : call[c].pc \in {"fetch", "answer"}
    BY TokenAssumption DEF TokenInv, Holding, Nobody, Fetches
  <2> QED BY <2>1, <2>2 DEF TokenInv, TokenTypes, Holding, TokenTypeOK
<1>2. TokenInv => TokenUsable
  <2> SUFFICES ASSUME TokenInv, CacheGood
               PROVE  now < cached.token.exp /\ cached.token.name \notin rejected
    BY DEF TokenUsable
  <2>1. /\ cached.token.name \notin rejected /\ cached.until <= cached.token.exp + FetchTimeout
        /\ now < cached.until - Skew
    BY DEF TokenInv, CacheRight, CacheGood
  <2>2. PICK u \in Nat, e \in Nat, t \in Nat : u = cached.until /\ e = cached.token.exp /\ t = now
    BY DEF TokenInv, TokenTypes, CacheRec, TokenRec
  <2>3. t < e
    BY <2>1, <2>2, TokenAssumption
  <2> QED BY <2>1, <2>2, <2>3
<1> QED BY <1>1, <1>2 DEF TokenSound

(* Whatever the lifetimes, the rotations and the callers, a token handed out  *)
(* of the cache has time left and was not rejected: the margin covers how     *)
(* long its fetch took, and no answer is under way when one is dropped        *)
(* (Token, Invalidate).                                                       *)
THEOREM TokensAreSound == TokenSpec => []TokenSound
BY TokenStarts, TokenStep, TokenInvSound, PTL DEF TokenSpec

-----------------------------------------------------------------------------
(* The viewer of a channel. *)
UnitKinds == {"subtitle", "claims", "claim_result", "result"}
LiveFrames ==
  {f \in [kind : UnitKinds \cup {"speaker_tally", "interim"}, unit : Units \cup {0}, of : 1 .. MaxSessions,
          n : 0 .. Cardinality(Units)] : f.kind \in UnitKinds => f.unit \in Units}
Arriving == LiveFrames \cup {OffAir}
LineStates == {"none", "opening", "open", "ending", "detached"}
Statuses == {"connecting", "live", "reconnecting", "ended", "error"}
AirRec == [on : BOOLEAN, session : 0 .. MaxSessions, ring : Seq(LiveFrames), progress : [Units -> 0 .. 5]]
HookRec == [status : Statuses, attempts : 0 .. MaxAttempts + 1, offAir : BOOLEAN, timer : BOOLEAN, disposed : BOOLEAN]
ScreenRec == [rows : [Units -> Row], byStart : [Buckets -> Units \cup {0}],
              claims : [Units -> {"none", "pending", "verified"}], tally : 0 .. Cardinality(Units), caption : BOOLEAN]

ViewerTypes ==
  /\ air \in AirRec /\ (air.on => air.session # 0) /\ Len(air.ring) <= Replay
  /\ line \in [state : LineStates, queue : Seq(Arriving)]
  /\ hook \in HookRec /\ screen \in ScreenRec /\ seen \subseteq 1 .. MaxSessions

\* The connection: off_air comes on one that ends, and none is opened after it.
LineRight ==
  /\ line.state \in {"none", "opening"} => line.queue = << >>
  /\ line.state # "ending" => \A i \in DOMAIN line.queue : line.queue[i] # OffAir
  /\ hook.offAir => line.state \in {"none", "ending"} /\ ~hook.timer
  /\ line.state # "none" \/ hook.timer => hook.attempts <= MaxAttempts

\* In one session a row is only ever indexed under its own start.
PlacedBy(starts, sessions) ==
  \A b \in Buckets : starts[b] \in Units => \E s \in sessions : b = StartOf[s][starts[b]]
Placing == OneSession => PlacedBy(screen.byStart, seen)

\* What a frame leaves on the screen.
ShownOn(on, f) ==
  /\ f.kind = "subtitle" => on.rows[f.unit].status # "none"
  /\ f.kind = "result" => on.rows[f.unit].status = "checked"
  /\ f.kind = "claims" => on.claims[f.unit] # "none"
  /\ f.kind = "claim_result" => on.claims[f.unit] = "verified"
  /\ f.kind = "speaker_tally" => on.tally >= f.n

\* The backlog is on the screen or under way to it.
Pending ==
  PageAttached => \A i \in DOMAIN air.ring :
    \/ \E j \in DOMAIN line.queue : line.queue[j] = air.ring[i]
    \/ OneSession => ShownOn(screen, air.ring[i])

ViewerInv == ViewerTypes /\ LineRight /\ EndIsFinal /\ Placing /\ Pending

LEMMA LastFrames ==
  ASSUME NEW S, NEW s \in Seq(S), NEW n \in Nat \ {0}
  PROVE  /\ Last(s, n) \in Seq(S) /\ Len(Last(s, n)) <= n
         /\ \A i \in DOMAIN Last(s, n) : \E j \in DOMAIN s : s[j] = Last(s, n)[i]
<1>1. CASE Len(s) <= n
  BY <1>1 DEF Last
<1>2. CASE ~ (Len(s) <= n)
  <2>1. PICK m \in Nat : m = Len(s) /\ m > n
    BY <1>2
  <2>2. Last(s, n) = SubSeq(s, m - n + 1, m)
    BY <1>2, <2>1 DEF Last
  <2>3. m - n + 1 \in 1 .. m /\ m - (m - n + 1) + 1 = n
    BY <2>1
  <2>4. Last(s, n) \in Seq(S) /\ Len(Last(s, n)) = n
    BY <2>1, <2>2, <2>3, SubSeqProperties
  <2>5. \A i \in 1 .. n : Last(s, n)[i] = s[m - n + i] /\ m - n + i \in 1 .. m
    BY <2>1, <2>2
  <2>6. DOMAIN Last(s, n) = 1 .. n /\ DOMAIN s = 1 .. m
    BY <2>1, <2>4
  <2> QED BY <2>4, <2>5, <2>6
<1> QED BY <1>1, <1>2

LEMMA AtMostOne ==
  ASSUME NEW S, S \subseteq 1 .. MaxSessions, Cardinality(S) <= 1, NEW x \in S, NEW y \in S
  PROVE  x = y
<1>1. IsFiniteSet(S)
  <2>1. IsFiniteSet(1 .. MaxSessions)
    BY ViewerAssumption, FS_Interval
  <2> QED BY <2>1, FS_Subset
<1>2. SUFFICES ASSUME x # y PROVE FALSE
  OBVIOUS
<1>3. IsFiniteSet({x}) /\ Cardinality({x}) = 1
  BY FS_Singleton
<1>4. IsFiniteSet({x} \cup {y}) /\ Cardinality({x} \cup {y}) = 2
  BY <1>2, <1>3, FS_AddElement
<1>5. {x} \cup {y} \in SUBSET S
  OBVIOUS
<1>6. Cardinality({x} \cup {y}) <= Cardinality(S) /\ Cardinality(S) \in Nat
  BY <1>1, <1>5, FS_Subset, FS_CardinalityType
<1> QED BY <1>4, <1>6

LEMMA OneSessionBefore ==
  ASSUME ViewerTypes, seen \subseteq seen', seen' \subseteq 1 .. MaxSessions, OneSession'
  PROVE  OneSession
<1>1. IsFiniteSet(seen')
  <2>1. IsFiniteSet(1 .. MaxSessions)
    BY ViewerAssumption, FS_Interval
  <2> QED BY <2>1, FS_Subset
<1>2. Cardinality(seen) <= Cardinality(seen') /\ Cardinality(seen) \in Nat /\ Cardinality(seen') \in Nat
  <2>1. seen \in SUBSET seen'
    OBVIOUS
  <2> QED BY <1>1, <2>1, FS_Subset, FS_CardinalityType
<1> QED BY <1>2 DEF OneSession

LEMMA UnitFacts == Cardinality(Units) \in Nat /\ IsFiniteSet(Units) /\ 0 \notin Units /\ Units \subseteq Nat
<1>1. Cardinality(Units) \in Nat
  BY ViewerAssumption, FS_CardinalityType
<1>2. \A u \in 1 .. Cardinality(Units) : u # 0 /\ u \in Nat
  BY <1>1
<1> QED BY <1>1, <1>2, ViewerAssumption

\* The hub sends frames of the session on air.
LEMMA HubSends ==
  ASSUME ViewerInv, NEW frames \in Seq(LiveFrames), Send(frames),
         air' \in AirRec, air'.on, air'.session # 0, air'.ring = Last(air.ring \o frames, Replay)
  PROVE  ViewerInv'
<1>1. UNCHANGED <<hook, screen, seen>>
  BY DEF Send
<1>2. PICK all \in Seq(LiveFrames) : all = air.ring \o frames /\ air'.ring = Last(all, Replay)
  BY ConcatProperties DEF ViewerInv, ViewerTypes, AirRec
<1>3. /\ Len(air'.ring) <= Replay
      /\ \A i \in DOMAIN air'.ring : \E j \in DOMAIN all : all[j] = air'.ring[i]
  <2>1. /\ Len(Last(all, Replay)) <= Replay
        /\ \A i \in DOMAIN Last(all, Replay) : \E j \in DOMAIN all : all[j] = Last(all, Replay)[i]
    BY ViewerAssumption, LastFrames
  <2> QED BY <1>2, <2>1
<1>4. \A i \in DOMAIN air'.ring : \/ \E j \in DOMAIN air.ring : air.ring[j] = air'.ring[i]
                                  \/ \E j \in DOMAIN frames : frames[j] = air'.ring[i]
  <2>1. air.ring \in Seq(LiveFrames)
    BY DEF ViewerInv, ViewerTypes, AirRec
  <2>2. \A j \in DOMAIN all : \/ j \in DOMAIN air.ring /\ all[j] = air.ring[j]
                              \/ j - Len(air.ring) \in DOMAIN frames /\ all[j] = frames[j - Len(air.ring)]
    BY <1>2, <2>1
  <2> QED BY <1>3, <2>2
<1>5. PICK st \in LineStates, q \in Seq(Arriving) : line = [state |-> st, queue |-> q]
  BY DEF ViewerInv, ViewerTypes
<1>6. LiveFrames \subseteq Arriving /\ OffAir \notin LiveFrames
  BY DEF Arriving, LiveFrames, OffAir, UnitKinds
<1>7. CASE st # "open"
  <2>1. UNCHANGED line
    BY <1>5, <1>7 DEF Send, PageAttached
  <2> QED BY <1>1, <1>3, <1>5, <1>7, <2>1
       DEF ViewerInv, ViewerTypes, LineRight, EndIsFinal, Placing, OneSession, Pending, PageAttached
<1>8. CASE st = "open" /\ Len(q) + Len(frames) <= PageBuffer
  <2>1. PICK long \in Seq(Arriving) : long = q \o frames
    <3>1. frames \in Seq(Arriving)
      BY <1>6
    <3> QED BY <3>1, ConcatProperties
  <2>2. line' = [state |-> "open", queue |-> long]
    BY <1>5, <1>8, <2>1 DEF Send, PageAttached
  <2>3. \A j \in DOMAIN long : \/ j \in DOMAIN q /\ long[j] = q[j]
                               \/ j - Len(q) \in DOMAIN frames /\ long[j] = frames[j - Len(q)]
    BY <2>1
  <2>4. \A j \in DOMAIN q : j \in DOMAIN long /\ long[j] = q[j]
    BY <2>1
  <2>5. \A j \in DOMAIN frames : j + Len(q) \in DOMAIN long /\ long[j + Len(q)] = frames[j]
    BY <2>1
  <2>6. \A j \in DOMAIN frames : frames[j] # OffAir
    BY <1>6
  <2>7. LineRight'
    BY <1>1, <1>5, <1>8, <2>2, <2>3, <2>6 DEF ViewerInv, LineRight
  <2>8. Pending'
    <3>1. \A i \in DOMAIN air.ring : \/ \E j \in DOMAIN q : q[j] = air.ring[i]
                                     \/ OneSession => ShownOn(screen, air.ring[i])
      BY <1>5, <1>8 DEF ViewerInv, Pending, PageAttached
    <3>2. \A i \in DOMAIN air'.ring : \/ \E j \in DOMAIN long : long[j] = air'.ring[i]
                                      \/ OneSession => ShownOn(screen, air'.ring[i])
      <4> SUFFICES ASSUME NEW i \in DOMAIN air'.ring
                   PROVE  \/ \E j \in DOMAIN long : long[j] = air'.ring[i]
                          \/ OneSession => ShownOn(screen, air'.ring[i])
        OBVIOUS
      <4>1. CASE \E j \in DOMAIN frames : frames[j] = air'.ring[i]
        BY <2>5, <4>1
      <4>2. CASE \E j \in DOMAIN air.ring : air.ring[j] = air'.ring[i]
        <5>1. PICK j \in DOMAIN air.ring : air.ring[j] = air'.ring[i]
          BY <4>2
        <5> QED BY <2>4, <3>1, <5>1
      <4> QED BY <1>4, <4>1, <4>2
    <3>3. OneSession' <=> OneSession
      BY <1>1 DEF OneSession
    <3> QED BY <1>1, <2>2, <3>2, <3>3 DEF Pending
  <2>9. ViewerTypes'
    BY <1>1, <1>3, <2>2 DEF ViewerInv, ViewerTypes, LineStates
  <2> QED BY <1>1, <1>5, <1>8, <2>2, <2>7, <2>8, <2>9 DEF ViewerInv, EndIsFinal, Placing, OneSession
<1>9. CASE st = "open" /\ ~ (Len(q) + Len(frames) <= PageBuffer)
  <2>1. line' = [state |-> "detached", queue |-> q]
    BY <1>5, <1>9 DEF Send, PageAttached
  <2>2. ViewerTypes'
    BY <1>1, <1>3, <2>1 DEF ViewerInv, ViewerTypes, LineStates
  <2> QED BY <1>1, <1>5, <1>9, <2>1, <2>2
       DEF ViewerInv, LineRight, EndIsFinal, Placing, OneSession, Pending, PageAttached
<1> QED BY <1>7, <1>8, <1>9

LEMMA AdvanceKeeps ==
  ASSUME ViewerInv, NEW u \in Units, NEW to \in 1 .. 5, Advance(u, to)
  PROVE  ViewerInv'
<1>1. PICK progress : progress = [air.progress EXCEPT ![u] = to]
  OBVIOUS
<1>2. PICK judged : judged = Cardinality({v \in Units : progress[v] \in {3, 4}})
  OBVIOUS
<1>3. PICK frames : frames = CASE to = 1 -> <<Frame("subtitle", u, 0)>>
                               [] to = 2 -> <<Frame("claims", u, 0)>>
                               [] to = 3 -> <<Frame("claim_result", u, 0), Frame("speaker_tally", 0, judged)>>
                               [] to >= 4 -> <<Frame("result", u, 0)>>
  OBVIOUS
<1>4. air.on /\ air' = [air EXCEPT !.progress = progress, !.ring = Last(@ \o frames, Replay)] /\ Send(frames)
  BY <1>1, <1>2, <1>3 DEF Advance
<1>5. PICK s \in 0 .. MaxSessions, ring \in Seq(LiveFrames), p \in [Units -> 0 .. 5] :
        air = [on |-> TRUE, session |-> s, ring |-> ring, progress |-> p] /\ s # 0
  BY <1>4 DEF ViewerInv, ViewerTypes, AirRec
<1>6. judged \in 0 .. Cardinality(Units)
  <2>1. {v \in Units : progress[v] \in {3, 4}} \in SUBSET Units
    OBVIOUS
  <2> QED BY <1>2, <2>1, UnitFacts, FS_Subset, FS_CardinalityType
<1>7. s \in 1 .. MaxSessions /\ 0 \in 0 .. Cardinality(Units)
  BY <1>5, UnitFacts, ViewerAssumption
<1>8. frames \in Seq(LiveFrames)
  <2>1. \A kind \in UnitKinds : Frame(kind, u, 0) \in LiveFrames
    BY <1>5, <1>7 DEF Frame, LiveFrames
  <2>2. Frame("speaker_tally", 0, judged) \in LiveFrames
    BY <1>5, <1>6, <1>7 DEF Frame, LiveFrames, UnitKinds
  <2>3. CASE to = 3
    BY <1>3, <2>1, <2>2, <2>3 DEF UnitKinds
  <2>4. CASE to = 1
    BY <1>3, <2>1, <2>4 DEF UnitKinds
  <2>5. CASE to = 2
    BY <1>3, <2>1, <2>5 DEF UnitKinds
  <2>6. CASE to >= 4
    <3>1. to # 1 /\ to # 2 /\ to # 3
      BY <2>6
    <3>2. frames = <<Frame("result", u, 0)>>
      BY <1>3, <2>6, <3>1
    <3> QED BY <2>1, <3>2 DEF UnitKinds
  <2> QED BY <2>3, <2>4, <2>5, <2>6
<1>9. air' = [on |-> TRUE, session |-> s, ring |-> Last(ring \o frames, Replay), progress |-> progress]
  BY <1>4, <1>5
<1>10. air' \in AirRec
  <2>1. progress \in [Units -> 0 .. 5]
    BY <1>1, <1>5
  <2>2. ring \o frames \in Seq(LiveFrames)
    BY <1>8, ConcatProperties
  <2>3. Last(ring \o frames, Replay) \in Seq(LiveFrames)
    BY <2>2, ViewerAssumption, LastFrames
  <2> QED BY <1>9, <2>1, <2>3 DEF AirRec
<1>11. air'.on /\ air'.session # 0 /\ air'.ring = Last(air.ring \o frames, Replay)
  BY <1>5, <1>9
<1> QED BY <1>4, <1>8, <1>10, <1>11, HubSends

LEMMA InterimKeeps ==
  ASSUME ViewerInv, Interim
  PROVE  ViewerInv'
<1>1. PICK frame : frame = Frame("interim", 0, 0)
  OBVIOUS
<1>2. air.on /\ air' = [air EXCEPT !.ring = Last(Append(@, frame), Replay)] /\ Send(<<frame>>)
  BY <1>1 DEF Interim
<1>3. PICK s \in 0 .. MaxSessions, ring \in Seq(LiveFrames), p \in [Units -> 0 .. 5] :
        air = [on |-> TRUE, session |-> s, ring |-> ring, progress |-> p] /\ s # 0
  BY <1>2 DEF ViewerInv, ViewerTypes, AirRec
<1>4. s \in 1 .. MaxSessions /\ 0 \in 0 .. Cardinality(Units)
  BY <1>3, UnitFacts, ViewerAssumption
<1>5. frame \in LiveFrames
  BY <1>1, <1>3, <1>4 DEF Frame, LiveFrames, UnitKinds
<1>6. Append(ring, frame) = ring \o <<frame>> /\ <<frame>> \in Seq(LiveFrames) /\ ring \o <<frame>> \in Seq(LiveFrames)
  BY <1>5, ConcatProperties, AppendIsConcat
<1>7. air' = [on |-> TRUE, session |-> s, ring |-> Last(ring \o <<frame>>, Replay), progress |-> p]
  BY <1>2, <1>3, <1>6
<1>8. Last(ring \o <<frame>>, Replay) \in Seq(LiveFrames)
  BY <1>6, ViewerAssumption, LastFrames
<1>9. air' \in AirRec
  BY <1>3, <1>7, <1>8 DEF AirRec
<1>10. air'.on /\ air'.session # 0 /\ air'.ring = Last(air.ring \o <<frame>>, Replay)
  BY <1>3, <1>7
<1> QED BY <1>2, <1>6, <1>9, <1>10, HubSends

LEMMA GoOnAirKeeps ==
  ASSUME ViewerInv, GoOnAir
  PROVE  ViewerInv'
<1>1. /\ air.session < MaxSessions /\ UNCHANGED <<line, hook, screen, seen>>
      /\ air' = [on |-> TRUE, session |-> air.session + 1, ring |-> << >>, progress |-> [u \in Units |-> 0]]
  BY DEF GoOnAir
<1>2. air.session + 1 \in 0 .. MaxSessions /\ air.session + 1 # 0
  BY <1>1, ViewerAssumption DEF ViewerInv, ViewerTypes, AirRec
<1>3. ViewerTypes'
  <2>1. << >> \in Seq(LiveFrames) /\ Len(<< >>) <= Replay
    BY ViewerAssumption
  <2>2. air' \in AirRec
    BY <1>1, <1>2, <2>1 DEF AirRec
  <2> QED BY <1>1, <1>2, <2>1, <2>2 DEF ViewerInv, ViewerTypes
<1>4. DOMAIN air'.ring = {}
  BY <1>1
<1> QED BY <1>1, <1>3, <1>4 DEF ViewerInv, LineRight, EndIsFinal, Placing, OneSession, Pending

LEMMA GoOffAirKeeps ==
  ASSUME ViewerInv, GoOffAir
  PROVE  ViewerInv'
<1>1. /\ UNCHANGED <<hook, screen, seen>> /\ air' = [air EXCEPT !.on = FALSE, !.ring = << >>]
      /\ line' = IF ~PageAttached THEN line
                 ELSE IF Len(line.queue) < PageBuffer THEN [state |-> "ending", queue |-> Append(line.queue, OffAir)]
                 ELSE [line EXCEPT !.state = "detached"]
  BY DEF GoOffAir
<1>2. PICK on \in BOOLEAN, s \in 0 .. MaxSessions, ring \in Seq(LiveFrames), p \in [Units -> 0 .. 5] :
        air = [on |-> on, session |-> s, ring |-> ring, progress |-> p]
  BY DEF ViewerInv, ViewerTypes, AirRec
<1>3. air' = [on |-> FALSE, session |-> s, ring |-> << >>, progress |-> p]
  BY <1>1, <1>2
<1>4. air' \in AirRec /\ ~air'.on /\ Len(air'.ring) <= Replay /\ DOMAIN air'.ring = {}
  <2>1. << >> \in Seq(LiveFrames) /\ Len(<< >>) <= Replay
    BY ViewerAssumption
  <2> QED BY <1>2, <1>3, <2>1 DEF AirRec
<1>5. PICK st \in LineStates, q \in Seq(Arriving) : line = [state |-> st, queue |-> q]
  BY DEF ViewerInv, ViewerTypes
<1>6. PICK st2 \in LineStates, q2 \in Seq(Arriving) :
        /\ line' = [state |-> st2, queue |-> q2]
        /\ \/ st2 = st /\ q2 = q
           \/ st = "open" /\ st2 = "ending"
           \/ st = "open" /\ st2 = "detached" /\ q2 = q
  <2>1. CASE st # "open"
    BY <1>1, <1>5, <2>1 DEF PageAttached
  <2>2. CASE st = "open" /\ Len(q) < PageBuffer
    <3>1. Append(q, OffAir) \in Seq(Arriving)
      BY DEF Arriving
    <3>2. line' = [state |-> "ending", queue |-> Append(q, OffAir)]
      BY <1>1, <1>5, <2>2 DEF PageAttached
    <3> QED BY <2>2, <3>1, <3>2 DEF LineStates
  <2>3. CASE st = "open" /\ ~ (Len(q) < PageBuffer)
    <3>1. line' = [state |-> "detached", queue |-> q]
      BY <1>1, <1>5, <2>3 DEF PageAttached
    <3> QED BY <2>3, <3>1 DEF LineStates
  <2> QED BY <2>1, <2>2, <2>3
<1>7. ViewerTypes'
  <2>1. UNCHANGED <<hook, screen, seen>>
    BY <1>1
  <2> QED BY <1>4, <1>6, <2>1 DEF ViewerInv, ViewerTypes
<1>8. LineRight'
  BY <1>1, <1>5, <1>6 DEF ViewerInv, LineRight
<1>9. EndIsFinal'
  BY <1>1, <1>5, <1>6 DEF ViewerInv, EndIsFinal
<1> QED BY <1>1, <1>4, <1>7, <1>8, <1>9 DEF ViewerInv, Placing, OneSession, Pending

-----------------------------------------------------------------------------
(* A frame on the screen: within one session nothing shown is taken back.      *)
Grows(a, b) ==
  /\ \A u \in Units : /\ a.rows[u].status # "none" => b.rows[u].status # "none"
                      /\ a.rows[u].status = "checked" => b.rows[u].status = "checked"
                      /\ a.claims[u] # "none" => b.claims[u] # "none"
                      /\ a.claims[u] = "verified" => b.claims[u] = "verified"
  /\ b.tally >= a.tally

LEMMA GrownShows ==
  ASSUME NEW a \in ScreenRec, NEW b \in ScreenRec, Grows(a, b), NEW f \in LiveFrames, ShownOn(a, f)
  PROVE  ShownOn(b, f)
<1>1. f.kind \in UnitKinds => f.unit \in Units
  BY DEF LiveFrames
<1>2. a.tally \in Nat /\ b.tally \in Nat /\ f.n \in Nat
  BY UnitFacts DEF ScreenRec, LiveFrames
<1>3. f.kind = "speaker_tally" => b.tally >= f.n
  BY <1>2 DEF Grows, ShownOn
<1> QED BY <1>1, <1>3 DEF Grows, ShownOn, UnitKinds

LEMMA PlacedGrows ==
  ASSUME ViewerInv, NEW f \in LiveFrames, f.kind \in UnitKinds, NEW status \in {"analysing", "checked"},
         NEW on, on = Placed(f, status)
  PROVE  /\ on \in ScreenRec /\ (on.caption => screen.caption)
         /\ Cardinality(seen \cup {f.of}) <= 1 =>
              /\ PlacedBy(on.byStart, seen \cup {f.of}) /\ Grows(screen, on)
              /\ on.rows[f.unit].status # "none" /\ (status = "checked" => on.rows[f.unit].status = "checked")
<1>1. f.unit \in Units /\ f.of \in 1 .. MaxSessions
  BY DEF LiveFrames
<1>2. PICK rows \in [Units -> Row], starts \in [Buckets -> Units \cup {0}], told \in [Units -> {"none", "pending", "verified"}],
           tally \in 0 .. Cardinality(Units), caption \in BOOLEAN :
        screen = [rows |-> rows, byStart |-> starts, claims |-> told, tally |-> tally, caption |-> caption]
  BY DEF ViewerInv, ViewerTypes, ScreenRec
<1>3. PICK b : b = StartOf[f.of][f.unit]
  OBVIOUS
<1>4. b \in Buckets
  BY <1>1, <1>3 DEF Buckets
<1>5. PICK old : old = starts[b] /\ old \in Units \cup {0}
  BY <1>2, <1>4
<1>6. PICK cleared : cleared = IF old \in Units /\ old # f.unit THEN [rows EXCEPT ![old] = NoRow] ELSE rows
  OBVIOUS
<1>7. NoRow \in Row /\ \A s \in {"analysing", "checked"} : [status |-> s, of |-> f.of] \in Row
  BY <1>1, ViewerAssumption DEF NoRow, Row
<1>8. cleared \in [Units -> Row]
  BY <1>2, <1>6, <1>7
<1>9. PICK final : final = IF status = "analysing" /\ cleared[f.unit].status = "checked" THEN cleared
                           ELSE [cleared EXCEPT ![f.unit] = [status |-> status, of |-> f.of]]
  OBVIOUS
<1>10. final \in [Units -> Row]
  BY <1>1, <1>7, <1>8, <1>9
<1>11. PICK cap \in BOOLEAN : cap = IF f.kind = "subtitle" THEN FALSE ELSE caption
  BY <1>2
<1>12. PICK indexed : indexed = [starts EXCEPT ![b] = f.unit]
  OBVIOUS
<1>13. on = [rows |-> final, byStart |-> indexed, claims |-> told, tally |-> tally, caption |-> cap]
  BY <1>2, <1>3, <1>5, <1>6, <1>9, <1>11, <1>12 DEF Placed
<1>14. indexed \in [Buckets -> Units \cup {0}]
  BY <1>1, <1>2, <1>4, <1>12
<1>15. on \in ScreenRec /\ (on.caption => screen.caption)
  <2>1. on \in ScreenRec
    BY <1>10, <1>13, <1>14 DEF ScreenRec
  <2>2. on.caption = cap /\ screen.caption = caption
    BY <1>2, <1>13
  <2>3. cap => caption
    BY <1>11
  <2> QED BY <2>1, <2>2, <2>3
<1>16. ASSUME Cardinality(seen \cup {f.of}) <= 1
       PROVE  /\ PlacedBy(on.byStart, seen \cup {f.of}) /\ Grows(screen, on)
              /\ on.rows[f.unit].status # "none" /\ (status = "checked" => on.rows[f.unit].status = "checked")
  <2>1. seen \cup {f.of} \subseteq 1 .. MaxSessions
    BY <1>1 DEF ViewerInv, ViewerTypes
  <2>2. \A x \in seen : x = f.of
    BY <1>16, <2>1, AtMostOne
  <2>3. PlacedBy(starts, seen)
    <3>1. Cardinality(seen) <= 1
      <4>1. IsFiniteSet(seen \cup {f.of})
        <5>1. IsFiniteSet(1 .. MaxSessions)
          BY ViewerAssumption, FS_Interval
        <5> QED BY <2>1, <5>1, FS_Subset
      <4>2. seen \in SUBSET (seen \cup {f.of})
        OBVIOUS
      <4>3. Cardinality(seen) <= Cardinality(seen \cup {f.of}) /\ Cardinality(seen) \in Nat /\ Cardinality(seen \cup {f.of}) \in Nat
        BY <4>1, <4>2, FS_Subset, FS_CardinalityType
      <4> QED BY <1>16, <4>3
    <3> QED BY <1>2, <3>1 DEF ViewerInv, Placing, OneSession
  <2>4. old \in Units => old = f.unit
    <3>1. SUFFICES ASSUME old \in Units PROVE old = f.unit
      OBVIOUS
    <3>2. PICK s \in seen : b = StartOf[s][old]
      BY <1>4, <1>5, <2>3, <3>1 DEF PlacedBy
    <3>3. s = f.of
      BY <2>2, <3>2
    <3> QED BY <1>1, <1>3, <3>1, <3>2, <3>3, ViewerAssumption
  <2>5. cleared = rows
    BY <1>6, <2>4
  <2>6. PlacedBy(indexed, seen \cup {f.of})
    <3>1. \A c \in Buckets : indexed[c] = IF c = b THEN f.unit ELSE starts[c]
      BY <1>2, <1>12
    <3> QED BY <1>3, <2>3, <3>1 DEF PlacedBy
  <2>7. /\ \A u \in Units : (rows[u].status # "none" => final[u].status # "none")
                            /\ (rows[u].status = "checked" => final[u].status = "checked")
        /\ final[f.unit].status # "none" /\ (status = "checked" => final[f.unit].status = "checked")
    BY <1>1, <1>2, <1>9, <2>5
  <2>8. tally >= tally
    BY <1>2, UnitFacts
  <2>9. Grows(screen, on)
    BY <1>2, <1>13, <2>7, <2>8 DEF Grows
  <2> QED BY <1>13, <2>6, <2>7, <2>9
<1> QED BY <1>15, <1>16

LEMMA IngestedGrows ==
  ASSUME ViewerInv, NEW f \in LiveFrames, NEW on, on = Ingested(f)
  PROVE  /\ on \in ScreenRec
         /\ Cardinality(seen \cup {f.of}) <= 1 =>
              PlacedBy(on.byStart, seen \cup {f.of}) /\ Grows(screen, on) /\ ShownOn(on, f)
<1>1. f.kind \in UnitKinds \cup {"speaker_tally", "interim"} /\ (f.kind \in UnitKinds => f.unit \in Units)
      /\ f.n \in 0 .. Cardinality(Units) /\ f.of \in 1 .. MaxSessions
  BY DEF LiveFrames
<1>2. PICK rows \in [Units -> Row], starts \in [Buckets -> Units \cup {0}], told \in [Units -> {"none", "pending", "verified"}],
           tally \in 0 .. Cardinality(Units), caption \in BOOLEAN :
        screen = [rows |-> rows, byStart |-> starts, claims |-> told, tally |-> tally, caption |-> caption]
  BY DEF ViewerInv, ViewerTypes, ScreenRec
<1>3. CASE f.kind = "subtitle"
  <2>1. on = Placed(f, "analysing")
    BY <1>3 DEF Ingested
  <2> QED BY <1>3, <2>1, PlacedGrows DEF ShownOn, UnitKinds
<1>4. CASE f.kind = "result"
  <2>1. on = Placed(f, "checked")
    BY <1>4 DEF Ingested
  <2> QED BY <1>4, <2>1, PlacedGrows DEF ShownOn, UnitKinds
<1>5. CASE f.kind \in {"claims", "claim_result", "speaker_tally", "interim"}
  <2>1. PICK told2 \in [Units -> {"none", "pending", "verified"}], tally2 \in 0 .. Cardinality(Units), cap \in BOOLEAN :
          /\ on = [rows |-> rows, byStart |-> starts, claims |-> told2, tally |-> tally2, caption |-> cap]
          /\ \A u \in Units : (told[u] # "none" => told2[u] # "none") /\ (told[u] = "verified" => told2[u] = "verified")
          /\ tally2 >= tally
          /\ f.kind = "claims" => told2[f.unit] # "none"
          /\ f.kind = "claim_result" => told2[f.unit] = "verified"
          /\ f.kind = "speaker_tally" => tally2 >= f.n
    <3>0. tally \in Nat /\ f.n \in Nat /\ tally >= tally
      BY <1>1, <1>2, UnitFacts
    <3>1. CASE f.kind = "claims"
      <4>1. PICK told2 : told2 = [told EXCEPT ![f.unit] = IF @ = "none" THEN "pending" ELSE @]
        OBVIOUS
      <4>2. on = [rows |-> rows, byStart |-> starts, claims |-> told2, tally |-> tally, caption |-> caption]
        BY <1>2, <3>1, <4>1 DEF Ingested, Listed
      <4>3. f.unit \in Units
        BY <1>1, <3>1 DEF UnitKinds
      <4>4. told2 \in [Units -> {"none", "pending", "verified"}] /\ told2[f.unit] # "none"
            /\ \A u \in Units : (told[u] # "none" => told2[u] # "none") /\ (told[u] = "verified" => told2[u] = "verified")
        BY <1>2, <4>1, <4>3
      <4> QED BY <1>2, <3>0, <3>1, <4>2, <4>4
    <3>2. CASE f.kind = "claim_result"
      <4>1. PICK told2 : told2 = [told EXCEPT ![f.unit] = "verified"]
        OBVIOUS
      <4>2. on = [rows |-> rows, byStart |-> starts, claims |-> told2, tally |-> tally, caption |-> caption]
        BY <1>2, <3>2, <4>1 DEF Ingested, Judged
      <4>3. f.unit \in Units
        BY <1>1, <3>2 DEF UnitKinds
      <4>4. told2 \in [Units -> {"none", "pending", "verified"}] /\ told2[f.unit] = "verified"
            /\ \A u \in Units : (told[u] # "none" => told2[u] # "none") /\ (told[u] = "verified" => told2[u] = "verified")
        BY <1>2, <4>1, <4>3
      <4> QED BY <1>2, <3>0, <3>2, <4>2, <4>4
    <3>3. CASE f.kind = "speaker_tally"
      <4>1. PICK tally2 : tally2 = IF tally > f.n THEN tally ELSE f.n
        OBVIOUS
      <4>2. tally2 \in 0 .. Cardinality(Units) /\ tally2 >= tally /\ tally2 >= f.n
        BY <1>1, <1>2, <4>1, UnitFacts
      <4>3. on = [rows |-> rows, byStart |-> starts, claims |-> told, tally |-> tally2, caption |-> caption]
        BY <1>2, <3>3, <4>1 DEF Ingested, Tallied
      <4> QED BY <1>2, <3>3, <4>2, <4>3
    <3>4. CASE f.kind = "interim"
      <4>1. on = [rows |-> rows, byStart |-> starts, claims |-> told, tally |-> tally, caption |-> TRUE]
        BY <1>2, <3>4 DEF Ingested
      <4> QED BY <1>2, <3>0, <3>4, <4>1
    <3> QED BY <1>5, <3>1, <3>2, <3>3, <3>4
  <2>2. on \in ScreenRec
    BY <2>1 DEF ScreenRec
  <2>3. ShownOn(on, f)
    BY <1>5, <2>1 DEF ShownOn
  <2>4. Grows(screen, on)
    BY <1>2, <2>1 DEF Grows
  <2>5. ASSUME Cardinality(seen \cup {f.of}) <= 1
        PROVE  PlacedBy(on.byStart, seen \cup {f.of})
    <3>1. seen \cup {f.of} \subseteq 1 .. MaxSessions
      BY <1>1 DEF ViewerInv, ViewerTypes
    <3>2. Cardinality(seen) <= 1
      <4>1. IsFiniteSet(seen \cup {f.of})
        <5>1. IsFiniteSet(1 .. MaxSessions)
          BY ViewerAssumption, FS_Interval
        <5> QED BY <3>1, <5>1, FS_Subset
      <4>2. seen \in SUBSET (seen \cup {f.of})
        OBVIOUS
      <4>3. Cardinality(seen) <= Cardinality(seen \cup {f.of}) /\ Cardinality(seen) \in Nat /\ Cardinality(seen \cup {f.of}) \in Nat
        BY <4>1, <4>2, FS_Subset, FS_CardinalityType
      <4> QED BY <2>5, <4>3
    <3>3. PlacedBy(starts, seen)
      BY <1>2, <3>2 DEF ViewerInv, Placing, OneSession
    <3> QED BY <2>1, <3>3 DEF PlacedBy
  <2> QED BY <2>2, <2>3, <2>4, <2>5
<1> QED BY <1>1, <1>3, <1>4, <1>5 DEF UnitKinds

-----------------------------------------------------------------------------
(* The hook of the viewer.                                                     *)
LEMMA LineAndHook ==
  ASSUME ViewerInv
  PROVE  \E st \in LineStates, q \in Seq(Arriving), status \in Statuses, attempts \in 0 .. MaxAttempts + 1,
            offAir, timer, disposed \in BOOLEAN :
           /\ line = [state |-> st, queue |-> q]
           /\ hook = [status |-> status, attempts |-> attempts, offAir |-> offAir, timer |-> timer, disposed |-> disposed]
BY DEF ViewerInv, ViewerTypes, HookRec

LEMMA CloseKeeps ==
  ASSUME ViewerInv, NEW clean \in BOOLEAN, OnClose(clean), line.state # "none", UNCHANGED <<air, screen, seen>>
  PROVE  ViewerInv'
<1>1. PICK st \in LineStates, q \in Seq(Arriving), status \in Statuses, attempts \in 0 .. MaxAttempts + 1,
           offAir, timer, disposed \in BOOLEAN :
        /\ line = [state |-> st, queue |-> q]
        /\ hook = [status |-> status, attempts |-> attempts, offAir |-> offAir, timer |-> timer, disposed |-> disposed]
  BY LineAndHook
<1>2. timer = FALSE /\ disposed = FALSE /\ attempts <= MaxAttempts /\ status # "error" /\ (offAir => ~screen.caption)
  BY <1>1 DEF ViewerInv, LineRight, EndIsFinal
<1>3. line' = [state |-> "none", queue |-> << >>]
  BY DEF OnClose, NoLine
<1>4. PICK status2 \in Statuses, attempts2 \in 0 .. MaxAttempts + 1, timer2 \in BOOLEAN :
        /\ hook' = [status |-> status2, attempts |-> attempts2, offAir |-> offAir, timer |-> timer2, disposed |-> FALSE]
        /\ offAir => status2 = "ended" /\ ~timer2
        /\ status2 = "error" => ~timer2
        /\ timer2 => attempts2 <= MaxAttempts
  <2>1. CASE clean \/ offAir
    <3>1. hook' = [status |-> "ended", attempts |-> attempts, offAir |-> offAir, timer |-> FALSE, disposed |-> FALSE]
      BY <1>1, <1>2, <2>1 DEF OnClose
    <3> QED BY <1>1, <3>1 DEF Statuses
  <2>2. CASE ~ (clean \/ offAir) /\ attempts = MaxAttempts
    <3>1. hook' = [status |-> "error", attempts |-> attempts + 1, offAir |-> offAir, timer |-> FALSE, disposed |-> FALSE]
      BY <1>1, <1>2, <2>2 DEF OnClose
    <3>2. attempts + 1 \in 0 .. MaxAttempts + 1
      BY <1>1, <2>2, ViewerAssumption
    <3> QED BY <2>2, <3>1, <3>2 DEF Statuses
  <2>3. CASE ~ (clean \/ offAir) /\ attempts # MaxAttempts
    <3>1. hook' = [status |-> "reconnecting", attempts |-> attempts + 1, offAir |-> offAir, timer |-> TRUE, disposed |-> FALSE]
      BY <1>1, <1>2, <2>3 DEF OnClose
    <3>2. attempts + 1 \in 0 .. MaxAttempts + 1 /\ attempts + 1 <= MaxAttempts
      BY <1>1, <1>2, <2>3, ViewerAssumption
    <3> QED BY <2>3, <3>1, <3>2 DEF Statuses
  <2> QED BY <2>1, <2>2, <2>3
<1>5. ViewerTypes'
  <2>1. hook' \in HookRec
    BY <1>4 DEF HookRec
  <2>2. line' \in [state : LineStates, queue : Seq(Arriving)]
    BY <1>3 DEF LineStates
  <2> QED BY <2>1, <2>2 DEF ViewerInv, ViewerTypes
<1>6. LineRight'
  BY <1>3, <1>4 DEF LineRight
<1>7. EndIsFinal'
  BY <1>2, <1>3, <1>4 DEF EndIsFinal
<1>8. Placing' /\ Pending'
  BY <1>3 DEF ViewerInv, Placing, OneSession, Pending, PageAttached
<1> QED BY <1>5, <1>6, <1>7, <1>8 DEF ViewerInv

LEMMA AcceptKeeps ==
  ASSUME ViewerInv, Accept
  PROVE  ViewerInv'
<1>1. PICK st \in LineStates, q \in Seq(Arriving), status \in Statuses, attempts \in 0 .. MaxAttempts + 1,
           offAir, timer, disposed \in BOOLEAN :
        /\ line = [state |-> st, queue |-> q]
        /\ hook = [status |-> status, attempts |-> attempts, offAir |-> offAir, timer |-> timer, disposed |-> disposed]
  BY LineAndHook
<1>2. st = "opening" /\ offAir = FALSE /\ timer = FALSE /\ disposed = FALSE
  BY <1>1 DEF Accept, ViewerInv, LineRight, EndIsFinal
<1>3. PICK ring \in Seq(LiveFrames) : ring = air.ring
  BY DEF ViewerInv, ViewerTypes, AirRec
<1>4. ring \in Seq(Arriving) /\ \A i \in DOMAIN ring : ring[i] # OffAir
  <2>1. LiveFrames \subseteq Arriving /\ OffAir \notin LiveFrames
    BY DEF Arriving, LiveFrames, OffAir, UnitKinds
  <2> QED BY <2>1
<1>5. line' = [state |-> "open", queue |-> ring] /\ UNCHANGED <<air, screen, seen>>
  BY <1>3 DEF Accept
<1>6. hook' = [status |-> "live", attempts |-> 0, offAir |-> FALSE, timer |-> FALSE, disposed |-> FALSE]
  BY <1>1, <1>2 DEF Accept
<1>7. ViewerTypes'
  <2>1. hook' \in HookRec
    BY <1>6, ViewerAssumption DEF HookRec, Statuses
  <2>2. line' \in [state : LineStates, queue : Seq(Arriving)]
    BY <1>4, <1>5 DEF LineStates
  <2> QED BY <1>5, <2>1, <2>2 DEF ViewerInv, ViewerTypes
<1>8. LineRight'
  BY <1>4, <1>5, <1>6, ViewerAssumption DEF LineRight
<1>9. EndIsFinal'
  BY <1>5, <1>6 DEF EndIsFinal
<1>10. Placing'
  BY <1>5 DEF ViewerInv, Placing, OneSession
<1>11. Pending'
  BY <1>3, <1>5 DEF Pending
<1> QED BY <1>7, <1>8, <1>9, <1>10, <1>11 DEF ViewerInv

LEMMA TimerKeeps ==
  ASSUME ViewerInv, TimerFires
  PROVE  ViewerInv'
<1>1. PICK st \in LineStates, q \in Seq(Arriving), status \in Statuses, attempts \in 0 .. MaxAttempts + 1,
           offAir, timer, disposed \in BOOLEAN :
        /\ line = [state |-> st, queue |-> q]
        /\ hook = [status |-> status, attempts |-> attempts, offAir |-> offAir, timer |-> timer, disposed |-> disposed]
  BY LineAndHook
<1>2. offAir = FALSE /\ disposed = FALSE /\ attempts <= MaxAttempts
  BY <1>1 DEF TimerFires, ViewerInv, LineRight, EndIsFinal
<1>3. PICK status2 \in {"connecting", "reconnecting"} :
        hook' = [status |-> status2, attempts |-> attempts, offAir |-> FALSE, timer |-> FALSE, disposed |-> FALSE]
  <2>1. PICK status2 : status2 = IF attempts = 0 THEN "connecting" ELSE "reconnecting"
    OBVIOUS
  <2>2. hook' = [status |-> status2, attempts |-> attempts, offAir |-> FALSE, timer |-> FALSE, disposed |-> FALSE]
    BY <1>1, <1>2, <2>1 DEF TimerFires
  <2> QED BY <2>1, <2>2
<1>4. line' = [state |-> "opening", queue |-> << >>] /\ UNCHANGED <<air, screen, seen>>
  BY DEF TimerFires, Opening, NoLine
<1>5. ViewerTypes'
  <2>1. hook' \in HookRec
    BY <1>1, <1>3 DEF HookRec, Statuses
  <2>2. line' \in [state : LineStates, queue : Seq(Arriving)]
    BY <1>4 DEF LineStates
  <2> QED BY <1>4, <2>1, <2>2 DEF ViewerInv, ViewerTypes
<1>6. LineRight'
  BY <1>2, <1>3, <1>4 DEF LineRight
<1>7. EndIsFinal'
  BY <1>3, <1>4 DEF EndIsFinal
<1>8. Placing' /\ Pending'
  BY <1>4 DEF ViewerInv, Placing, OneSession, Pending, PageAttached
<1> QED BY <1>5, <1>6, <1>7, <1>8 DEF ViewerInv

LEMMA UnmountKeeps ==
  ASSUME ViewerInv, Unmount
  PROVE  ViewerInv'
<1>1. PICK st \in LineStates, q \in Seq(Arriving), status \in Statuses, attempts \in 0 .. MaxAttempts + 1,
           offAir, timer, disposed \in BOOLEAN :
        /\ line = [state |-> st, queue |-> q]
        /\ hook = [status |-> status, attempts |-> attempts, offAir |-> offAir, timer |-> timer, disposed |-> disposed]
  BY LineAndHook
<1>2. hook' = [status |-> status, attempts |-> attempts, offAir |-> offAir, timer |-> FALSE, disposed |-> TRUE]
  BY <1>1 DEF Unmount
<1>3. line' = [state |-> "none", queue |-> << >>] /\ UNCHANGED <<air, screen, seen>>
  BY DEF Unmount, NoLine
<1>4. ViewerTypes'
  <2>1. hook' \in HookRec
    BY <1>1, <1>2 DEF HookRec
  <2>2. line' \in [state : LineStates, queue : Seq(Arriving)]
    BY <1>3 DEF LineStates
  <2> QED BY <1>3, <2>1, <2>2 DEF ViewerInv, ViewerTypes
<1>5. LineRight'
  BY <1>2, <1>3 DEF LineRight
<1>6. EndIsFinal'
  BY <1>1, <1>2, <1>3 DEF ViewerInv, EndIsFinal
<1>7. Placing' /\ Pending'
  BY <1>3 DEF ViewerInv, Placing, OneSession, Pending, PageAttached
<1> QED BY <1>4, <1>5, <1>6, <1>7 DEF ViewerInv

LEMMA DeliverKeeps ==
  ASSUME ViewerInv, Deliver
  PROVE  ViewerInv' /\ (OneSession' => Grows(screen, screen'))
<1>1. PICK st \in LineStates, q \in Seq(Arriving), status \in Statuses, attempts \in 0 .. MaxAttempts + 1,
           offAir, timer, disposed \in BOOLEAN :
        /\ line = [state |-> st, queue |-> q]
        /\ hook = [status |-> status, attempts |-> attempts, offAir |-> offAir, timer |-> timer, disposed |-> disposed]
  BY LineAndHook
<1>2. q # << >> /\ st \notin {"none", "opening"} /\ timer = FALSE
  BY <1>1 DEF Deliver, ViewerInv, LineRight, EndIsFinal, LineStates
<1>3. PICK f \in Arriving, rest \in Seq(Arriving) : f = Head(q) /\ rest = Tail(q)
  BY <1>2, HeadTailProperties
<1>4. /\ f = q[1] /\ 1 \in DOMAIN q
      /\ \A j \in DOMAIN rest : j + 1 \in DOMAIN q /\ rest[j] = q[j + 1]
      /\ \A j \in DOMAIN q : j = 1 \/ (j - 1 \in DOMAIN rest /\ rest[j - 1] = q[j])
  <2>1. PICK n \in Nat : n = Len(q) /\ n # 0 /\ DOMAIN q = 1 .. n
    BY <1>2, EmptySeq
  <2>2. Len(rest) = n - 1 /\ \A j \in 1 .. n - 1 : rest[j] = q[j + 1]
    BY <1>2, <1>3, <2>1, HeadTailProperties
  <2>3. DOMAIN rest = 1 .. n - 1
    BY <2>2
  <2>4. f = q[1]
    BY <1>3
  <2> QED BY <2>1, <2>2, <2>3, <2>4
<1>5. line' = [state |-> st, queue |-> rest] /\ UNCHANGED air
  BY <1>1, <1>3 DEF Deliver
<1>6. f = OffAir \/ (f \in LiveFrames /\ f.kind # "off_air")
  <2>1. \A g \in LiveFrames : g.kind \in UnitKinds \cup {"speaker_tally", "interim"}
    BY DEF LiveFrames
  <2>2. \A g \in LiveFrames : g.kind # "off_air"
    BY <2>1 DEF UnitKinds
  <2> QED BY <2>2 DEF Arriving
<1>7. PICK rows \in [Units -> Row], starts \in [Buckets -> Units \cup {0}], told \in [Units -> {"none", "pending", "verified"}],
           tally \in 0 .. Cardinality(Units), caption \in BOOLEAN :
        screen = [rows |-> rows, byStart |-> starts, claims |-> told, tally |-> tally, caption |-> caption]
  BY DEF ViewerInv, ViewerTypes, ScreenRec
<1>8. line' \in [state : LineStates, queue : Seq(Arriving)]
  BY <1>5
<1>9. st # "ending" => \A j \in DOMAIN rest : rest[j] # OffAir
  BY <1>1, <1>4 DEF ViewerInv, LineRight
<1>10. offAir => st = "ending"
  BY <1>1, <1>2 DEF ViewerInv, LineRight
<1>11. attempts <= MaxAttempts /\ disposed = FALSE /\ status # "error"
  BY <1>1, <1>2 DEF ViewerInv, LineRight, EndIsFinal
<1>12. CASE f.kind = "off_air" /\ ~offAir
  <2>1. st = "ending"
    BY <1>1, <1>4, <1>6, <1>12 DEF ViewerInv, LineRight
  <2>2. hook' = [status |-> "ended", attempts |-> attempts, offAir |-> TRUE, timer |-> FALSE, disposed |-> FALSE]
    BY <1>1, <1>2, <1>3, <1>11, <1>12 DEF Deliver
  <2>3. screen' = [screen EXCEPT !.caption = FALSE] /\ UNCHANGED seen
    BY <1>1, <1>3, <1>12 DEF Deliver
  <2>4. screen' = [rows |-> rows, byStart |-> starts, claims |-> told, tally |-> tally, caption |-> FALSE]
    BY <1>7, <2>3
  <2>5. ViewerTypes'
    <3>1. hook' \in HookRec
      BY <1>1, <2>2 DEF HookRec, Statuses
    <3>2. screen' \in ScreenRec
      BY <1>7, <2>4 DEF ScreenRec
    <3> QED BY <1>5, <1>8, <2>3, <3>1, <3>2 DEF ViewerInv, ViewerTypes
  <2>6. LineRight'
    BY <1>5, <1>11, <2>1, <2>2 DEF LineRight
  <2>7. EndIsFinal'
    BY <1>5, <2>2, <2>4 DEF EndIsFinal
  <2>8. Placing'
    BY <1>7, <2>3, <2>4 DEF ViewerInv, Placing, OneSession
  <2>9. Pending'
    BY <1>5, <2>1 DEF Pending, PageAttached
  <2>10. Grows(screen, screen')
    <3>1. tally >= tally
      BY UnitFacts
    <3> QED BY <1>7, <2>4, <3>1 DEF Grows
  <2> QED BY <2>5, <2>6, <2>7, <2>8, <2>9, <2>10 DEF ViewerInv
<1>13. CASE offAir
  <2>1. UNCHANGED <<hook, screen, seen>>
    BY <1>1, <1>3, <1>13 DEF Deliver
  <2>2. ViewerTypes'
    BY <1>5, <1>8, <2>1 DEF ViewerInv, ViewerTypes
  <2>3. LineRight'
    BY <1>1, <1>2, <1>5, <1>10, <1>11, <1>13, <2>1 DEF LineRight
  <2>4. EndIsFinal'
    BY <1>1, <1>5, <2>1 DEF ViewerInv, EndIsFinal
  <2>5. Placing' /\ Pending'
    BY <1>5, <1>10, <1>13, <2>1 DEF ViewerInv, Placing, OneSession, Pending, PageAttached
  <2>6. Grows(screen, screen')
    <3>1. tally >= tally
      BY UnitFacts
    <3> QED BY <1>7, <2>1, <3>1 DEF Grows
  <2> QED BY <2>2, <2>3, <2>4, <2>5, <2>6 DEF ViewerInv
<1>14. CASE ~offAir /\ f.kind # "off_air"
  <2>1. f \in LiveFrames /\ f.of \in 1 .. MaxSessions
    BY <1>6, <1>14 DEF OffAir, LiveFrames
  <2>2. screen' = Ingested(f) /\ seen' = seen \cup {f.of}
    BY <1>1, <1>3, <1>14 DEF Deliver
  <2>3. UNCHANGED hook
    BY <1>1, <1>3, <1>14 DEF Deliver
  <2>4. PICK on : on = Ingested(f)
    OBVIOUS
  <2>5. /\ on \in ScreenRec
        /\ Cardinality(seen \cup {f.of}) <= 1 =>
             PlacedBy(on.byStart, seen \cup {f.of}) /\ Grows(screen, on) /\ ShownOn(on, f)
    BY <2>1, <2>4, IngestedGrows
  <2>6. PICK later : later = seen \cup {f.of}
    OBVIOUS
  <2>7. screen' = on /\ seen' = later
    BY <2>2, <2>4, <2>6
  <2>8. later \subseteq 1 .. MaxSessions /\ seen \subseteq later
    BY <2>1, <2>6 DEF ViewerInv, ViewerTypes
  <2>9. ViewerTypes'
    BY <1>5, <1>8, <2>3, <2>5, <2>7, <2>8 DEF ViewerInv, ViewerTypes
  <2>10. LineRight'
    BY <1>1, <1>2, <1>5, <1>9, <1>11, <1>14, <2>3 DEF LineRight
  <2>11. EndIsFinal'
    BY <1>1, <1>2, <1>5, <1>11, <1>14, <2>3 DEF EndIsFinal
  <2>12. OneSession' => PlacedBy(on.byStart, later) /\ Grows(screen, on) /\ ShownOn(on, f)
    BY <2>5, <2>6, <2>7 DEF OneSession
  <2>13. OneSession' => OneSession
    BY <2>7, <2>8, OneSessionBefore DEF ViewerInv
  <2>14. Placing'
    BY <2>7, <2>12 DEF Placing
  <2>15. Pending'
    <3>1. SUFFICES ASSUME st = "open", NEW i \in DOMAIN air.ring,
                          ~ \E j \in DOMAIN rest : rest[j] = air.ring[i], OneSession'
                   PROVE  ShownOn(on, air.ring[i])
      BY <1>5, <2>7 DEF Pending, PageAttached
    <3>2. air.ring[i] \in LiveFrames
      BY DEF ViewerInv, ViewerTypes, AirRec
    <3>3. CASE f = air.ring[i]
      BY <2>12, <3>1, <3>3
    <3>4. CASE ~ \E j \in DOMAIN q : q[j] = air.ring[i]
      <4>1. ShownOn(screen, air.ring[i])
        BY <1>1, <2>13, <3>1, <3>4 DEF ViewerInv, Pending, PageAttached
      <4> QED BY <2>5, <2>12, <3>1, <3>2, <4>1, GrownShows DEF ViewerInv, ViewerTypes
    <3> QED BY <1>4, <3>1, <3>3, <3>4
  <2> QED BY <2>7, <2>9, <2>10, <2>11, <2>12, <2>14, <2>15 DEF ViewerInv
<1> QED BY <1>12, <1>13, <1>14

LEMMA ViewerStep ==
  ASSUME ViewerInv, NextViewer \/ UNCHANGED viewerVars
  PROVE  ViewerInv' /\ (OneSession' => Grows(screen, screen'))
<1>1. UNCHANGED screen => (OneSession' => Grows(screen, screen'))
  <2>1. screen.tally \in Nat
    BY UnitFacts DEF ViewerInv, ViewerTypes, ScreenRec
  <2> QED BY <2>1 DEF Grows
<1>2. CASE UNCHANGED viewerVars
  <2>1. UNCHANGED <<air, line, hook, screen, seen>>
    BY <1>2 DEF viewerVars
  <2>2. ViewerTypes' /\ LineRight' /\ EndIsFinal'
    BY <2>1 DEF ViewerInv, ViewerTypes, LineRight, EndIsFinal
  <2>3. Placing' /\ Pending'
    BY <2>1 DEF ViewerInv, Placing, OneSession, Pending, PageAttached
  <2> QED BY <1>1, <2>1, <2>2, <2>3 DEF ViewerInv
<1>3. CASE GoOnAir
  BY <1>1, <1>3, GoOnAirKeeps DEF GoOnAir
<1>4. CASE GoOffAir
  BY <1>1, <1>4, GoOffAirKeeps DEF GoOffAir
<1>5. CASE Interim
  BY <1>1, <1>5, InterimKeeps DEF Interim, Send
<1>6. CASE \E u \in Units, to \in 1 .. 5 : Advance(u, to)
  <2>1. PICK u \in Units, to \in 1 .. 5 : Advance(u, to)
    BY <1>6
  <2>2. UNCHANGED screen
    BY <2>1 DEF Advance, Send
  <2> QED BY <1>1, <2>1, <2>2, AdvanceKeeps
<1>7. CASE Accept
  BY <1>1, <1>7, AcceptKeeps DEF Accept
<1>8. CASE Refuse
  <2>1. OnClose(FALSE) /\ line.state # "none" /\ UNCHANGED <<air, screen, seen>>
    BY <1>8 DEF Refuse
  <2> QED BY <1>1, <2>1, CloseKeeps
<1>9. CASE Break
  <2>1. OnClose(FALSE) /\ line.state # "none" /\ UNCHANGED <<air, screen, seen>>
    BY <1>9 DEF Break
  <2> QED BY <1>1, <2>1, CloseKeeps
<1>10. CASE CloseArrives
  <2>1. PICK clean \in BOOLEAN : clean = (line.state = "ending")
    OBVIOUS
  <2>2. OnClose(clean) /\ line.state # "none" /\ UNCHANGED <<air, screen, seen>>
    BY <1>10, <2>1 DEF CloseArrives
  <2> QED BY <1>1, <2>2, CloseKeeps
<1>11. CASE Deliver
  BY <1>11, DeliverKeeps
<1>12. CASE TimerFires
  BY <1>1, <1>12, TimerKeeps DEF TimerFires
<1>13. CASE Unmount
  BY <1>1, <1>13, UnmountKeeps DEF Unmount
<1> QED BY <1>2, <1>3, <1>4, <1>5, <1>6, <1>7, <1>8, <1>9, <1>10, <1>11, <1>12, <1>13
       DEF NextViewer, HubStep, Answer

LEMMA ViewerStarts ==
  ASSUME NEW l \in {"opening", "none"}, NEW over \in BOOLEAN, over => l = "none",
         air = [on |-> FALSE, session |-> 0, ring |-> << >>, progress |-> [u \in Units |-> 0]],
         line = [state |-> l, queue |-> << >>],
         hook = [status |-> "connecting", attempts |-> 0, offAir |-> FALSE, timer |-> FALSE, disposed |-> over],
         screen = [rows |-> [u \in Units |-> NoRow], byStart |-> [b \in Buckets |-> 0],
                   claims |-> [u \in Units |-> "none"], tally |-> 0, caption |-> FALSE],
         seen = {}
  PROVE  ViewerInv
<1>1. air \in AirRec /\ Len(air.ring) <= Replay /\ ~air.on
  <2>1. << >> \in Seq(LiveFrames) /\ 0 \in 0 .. MaxSessions
    BY ViewerAssumption
  <2> QED BY <2>1, ViewerAssumption DEF AirRec
<1>2. line \in [state : LineStates, queue : Seq(Arriving)]
  BY DEF LineStates
<1>3. hook \in HookRec
  BY ViewerAssumption DEF HookRec, Statuses
<1>4. screen \in ScreenRec
  <2>1. NoRow \in Row /\ 0 \in 0 .. Cardinality(Units)
    BY ViewerAssumption, UnitFacts DEF NoRow, Row
  <2> QED BY <2>1 DEF ScreenRec
<1>5. LineRight /\ EndIsFinal
  BY ViewerAssumption DEF LineRight, EndIsFinal
<1>6. PlacedBy(screen.byStart, seen)
  BY UnitFacts DEF PlacedBy
<1>7. Pending
  BY DEF Pending
<1> QED BY <1>1, <1>2, <1>3, <1>4, <1>5, <1>6, <1>7 DEF ViewerInv, ViewerTypes, Placing

LEMMA ViewerSound == ASSUME ViewerInv PROVE PageSound
<1>1. ViewerTypeOK
  BY DEF ViewerInv, ViewerTypes, ViewerTypeOK, AirRec, LineStates, HookRec, Statuses, ScreenRec
<1>2. CaughtUp
  <2>1. SUFFICES ASSUME PageAttached, line.queue = << >>, OneSession, NEW i \in DOMAIN air.ring, NEW f, f = air.ring[i]
                 PROVE  CASE f.kind = "subtitle" -> screen.rows[f.unit].status # "none"
                          [] f.kind = "result" -> screen.rows[f.unit].status = "checked"
                          [] f.kind = "claims" -> screen.claims[f.unit] # "none"
                          [] f.kind = "claim_result" -> screen.claims[f.unit] = "verified"
                          [] f.kind = "speaker_tally" -> screen.tally >= f.n
                          [] OTHER -> TRUE
    BY DEF CaughtUp
  <2>2. ShownOn(screen, f)
    BY <2>1 DEF ViewerInv, Pending
  <2> QED BY <2>2 DEF ShownOn
<1> QED BY <1>1, <1>2 DEF ViewerInv, PageSound

-----------------------------------------------------------------------------
(* The ends and the guards together.                                           *)
EndsInv == TypeOK /\ InHand /\ Writing /\ ViewerInv /\ LimiterInv /\ TokenInv

LEMMA EndsStart == InitSockets => EndsInv
<1> SUFFICES ASSUME InitSockets PROVE EndsInv
  OBVIOUS
<1>1. TypeOK /\ InHand /\ Writing
  BY TypeInit DEF InitSockets, Init, InHand, Writing
<1>2. LimiterInv /\ TokenInv
  BY LimiterStarts, TokenStarts DEF InitSockets
<1>3. CASE InitViewer
  <2>1. line = [state |-> "opening", queue |-> << >>]
    BY <1>3 DEF InitViewer, NoLine
  <2>2. ViewerInv
    BY <1>3, <2>1, ViewerStarts DEF InitViewer
  <2> QED BY <1>1, <1>2, <2>2 DEF EndsInv
<1>4. CASE ViewerAtRest
  <2>1. line = [state |-> "none", queue |-> << >>]
    BY <1>4 DEF ViewerAtRest, NoLine
  <2>2. ViewerInv
    BY <1>4, <2>1, ViewerStarts DEF ViewerAtRest
  <2> QED BY <1>1, <1>2, <2>2 DEF EndsInv
<1> QED BY <1>3, <1>4 DEF InitSockets

\* A step moves one part and leaves the others alone.
LEMMA PartsMove ==
  ASSUME [NextSockets]_socketsVars
  PROVE  [Next]_vars /\ [NextViewer]_viewerVars /\ [NextLimiter]_limiterVars /\ [NextToken]_tokenVars
BY DEF NextSockets, socketsVars

LEMMA EndsStep ==
  EndsInv /\ [NextSockets]_socketsVars => EndsInv' /\ (OneSession' => Grows(screen, screen'))
<1> SUFFICES ASSUME EndsInv, [NextSockets]_socketsVars
             PROVE  EndsInv' /\ (OneSession' => Grows(screen, screen'))
  OBVIOUS
<1>1. TypeOK' /\ InHand' /\ Writing'
  BY PartsMove, SwitchesStep, CountsStep, PointsStep, SetsStep, WritingStep DEF EndsInv, TypeOK
<1>2. LimiterInv' /\ TokenInv'
  BY PartsMove, LimiterStep, TokenStep DEF EndsInv
<1>3. ViewerInv' /\ (OneSession' => Grows(screen, screen'))
  BY PartsMove, ViewerStep DEF EndsInv
<1> QED BY <1>1, <1>2, <1>3 DEF EndsInv

\* The handler's counters and buffers are in range; a page that received all it
\* was sent shows every frame of the backlog, however often it reconnected, and
\* one that is over has no socket, timer or caption left (use-channel-live.ts);
\* the limiter keeps its cap (RateLimiter) and a cached token is good (Token).
THEOREM EndsAreSound == SocketsSpec => []EndsSound
<1>1. EndsInv => EndsSound
  BY ViewerSound, LimiterInvSound, TokenInvSound DEF EndsInv, EndsSound
<1> QED BY <1>1, EndsStart, EndsStep, PTL DEF SocketsSpec

\* A backlog replayed over what the page shows takes back no result and no
\* verdict, and no tally shrinks.
THEOREM PageTakesNothingBack == SocketsSpec => NothingTakenBack
<1> DEFINE Kept == OneSession' => \A u \in Units :
                     /\ screen.rows[u].status = "checked" => screen'.rows[u].status = "checked"
                     /\ screen.claims[u] = "verified" => screen'.claims[u] = "verified"
                     /\ screen'.tally >= screen.tally
<1>1. EndsInv /\ [NextSockets]_socketsVars => [Kept]_viewerVars
  BY EndsStep DEF Grows
<1> QED BY <1>1, EndsStart, EndsStep, PTL DEF SocketsSpec, NothingTakenBack
==============================================================================
