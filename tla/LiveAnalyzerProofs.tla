-------------------------- MODULE LiveAnalyzerProofs -------------------------
(***************************************************************************)
(* Theorems about a live session at its two ends: the analyzer that makes  *)
(* statements out of what is said, and the browser that shows them.        *)
(*                                                                         *)
(* LiveAnalyzer, for every pool size, queue depth, cap and set of          *)
(* segments.                                                               *)
(*                                                                         *)
(* LiveSession, for any video, number of sockets and of attempts.  A       *)
(* reduction is a state and commands, so what matters is what the commands *)
(* leave behind: Between says what the hook and the sockets hold while one *)
(* runs, Agree what they hold between two.                                 *)
(***************************************************************************)
EXTENDS LiveAnalyzer, LiveSession, FiniteSetTheorems, SequenceTheorems, WellFoundedInduction, TLAPS

-----------------------------------------------------------------------------
(* Facts about the operators.                                              *)

\* A non-empty set of ids has a least element, so FirstOf picks a member.
LEMMA LeastId ==
  ASSUME NEW n \in Nat, NEW S, S \subseteq 1 .. n, S # {}
  PROVE  \E i \in S : \A j \in S : i <= j
<1> DEFINE Below(i) == {j \in S : j <= i}
           T == {Below(i) : i \in S}
           R == StrictSubsetOrdering(S)
           F == FiniteSubsetsOf(S)
<1>1. IsFiniteSet(S)
  <2>1. n \in Int /\ 1 \in Int /\ S \in SUBSET (1 .. n)
    OBVIOUS
  <2>2. IsFiniteSet(1 .. n)
    BY <2>1, FS_Interval
  <2> QED BY <2>1, <2>2, FS_Subset
<1>2. IsWellFoundedOn(R, F)
  BY FS_StrictSubsetOrderingWellFounded, Zenon
<1>3. T \subseteq F /\ T # {}
  <2>1. ASSUME NEW i \in S PROVE Below(i) \in F
    <3>1. Below(i) \subseteq S
      OBVIOUS
    <3>2. IsFiniteSet(Below(i))
      BY <3>1, <1>1, FS_Subset
    <3> QED BY <3>1, <3>2 DEF FiniteSubsetsOf
  <2> QED BY <2>1
<1>4. PICK X \in T : \A Y \in T : ~(<<Y, X>> \in R)
  <2> HIDE DEF R, F, T
  <2> QED BY <1>2, <1>3, WFMin
<1>5. PICK i \in S : X = Below(i)
  BY <1>4
<1>6. ASSUME NEW j \in S, ~(i <= j) PROVE FALSE
  <2>1. j \in Nat /\ i \in Nat /\ j < i
    BY <1>6
  <2>2. /\ Below(j) \subseteq Below(i) /\ Below(j) # Below(i)
        /\ Below(j) \subseteq S /\ Below(i) \subseteq S
    <3>1. \A k \in S : k \in Nat
      OBVIOUS
    <3>2. i \in Below(i) /\ i \notin Below(j)
      BY <2>1
    <3>3. \A k \in Below(j) : k \in Below(i)
      BY <2>1, <3>1
    <3> QED BY <3>2, <3>3
  <2>3. Below(j) \in T
    OBVIOUS
  <2>4. <<Below(j), Below(i)>> \in R
    BY <2>2, <2>3, <1>3, <1>5 DEF StrictSubsetOrdering, FiniteSubsetsOf
  <2> QED BY <2>3, <2>4, <1>4, <1>5
<1> QED BY <1>6

LEMMA FirstOfMember ==
  ASSUME NEW S, S \subseteq Ids, S # {}
  PROVE  FirstOf(S) \in S
<1>1. \E i \in S : \A j \in S : i <= j
  BY BoundsAssumption, LeastId DEF Ids
<1> QED BY <1>1, Zenon DEF FirstOf

\* Sentence counts are natural numbers, and joining two texts gives a text.
LEMMA ShapesClosed ==
  /\ \A s \in Shapes : SentenceCount(s) \in Nat
  /\ \A s, t \in Shapes : Joined(s, t) \in Shapes
  /\ NoText \in Shapes
<1>1. ASSUME NEW s \in Shapes PROVE SentenceCount(s) \in Nat
  <2>1. s.words \in Nat /\ s.stops \in Nat
    BY DEF Shapes
  <2>2. s.words + WordsPerSentence - 1 \in Nat
    BY <2>1, WordsPerSentenceAssumption
  <2>3. (s.words + WordsPerSentence - 1) \div WordsPerSentence \in Nat
    BY <2>2, WordsPerSentenceAssumption
  <2> QED BY <2>1, <2>3 DEF SentenceCount, Larger
<1>2. ASSUME NEW s \in Shapes, NEW t \in Shapes PROVE Joined(s, t) \in Shapes
  BY DEF Shapes, Joined
<1>3. NoText \in Shapes
  BY DEF NoText, Shapes
<1> QED BY <1>1, <1>2, <1>3

LEMMA AddTyped ==
  ASSUME NEW u \in LiveUnits, NEW id \in Ids, NEW seg \in Segments
  PROVE  Add(u, id, seg) \in LiveUnits
<1>1. seg.shape \in Shapes /\ seg.speaker \in Speakers \cup {Unknown}
  BY SegmentsAssumption
<1>2. u.shape \in Shapes /\ u.sentences \in Nat /\ u.members \subseteq Ids
      /\ u.speaker \in Speakers \cup {Unknown}
  BY DEF LiveUnits
<1>3. SentenceCount(seg.shape) \in Nat /\ Joined(u.shape, seg.shape) \in Shapes
  BY <1>1, <1>2, ShapesClosed
<1> QED BY <1>1, <1>2, <1>3 DEF Add, LiveUnits

LEMMA AppendTyped ==
  ASSUME NEW S, NEW q \in Seq(S), NEW x \in S
  PROVE  Append(q, x) \in Seq(S) /\ Len(Append(q, x)) = Len(q) + 1
  OBVIOUS

\* Whatever id it names, an update of results is again one.
LEMMA DeliverTyped ==
  ASSUME results \in [Ids -> Seq(ResultKinds)], NEW i, NEW kind \in ResultKinds,
         Deliver(i, kind)
  PROVE  results' \in [Ids -> Seq(ResultKinds)]
<1>1. ASSUME NEW j \in Ids PROVE results'[j] \in Seq(ResultKinds)
  <2>1. results[j] \in Seq(ResultKinds)
    OBVIOUS
  <2>2. Append(results[j], kind) \in Seq(ResultKinds)
    BY <2>1, AppendTyped
  <2> QED BY <2>1, <2>2 DEF Deliver
<1> QED BY <1>1 DEF Deliver

-----------------------------------------------------------------------------
(* Type correctness.                                                       *)

\* A segment that is about to be captioned or to join a unit has been received.
SegmentAtHand ==
  (loop \in {"subtitle", "join"} \/ (loop = "shed" /\ after = "join"))
    => segs # << >>

TypeInv == TypeOK /\ SegmentAtHand

LEMMA EmptyUnitTyped == EmptyUnit \in LiveUnits
  BY ShapesClosed DEF EmptyUnit, LiveUnits

LEMMA IdleWorkerTyped ==
  IdleWorker \in [pc : WorkerPoints, pu : PendingUnits, todo : SUBSET Ids,
                  outcome : Outcomes]
  BY DEF IdleWorker, NoUnit, WorkerPoints, PendingUnits, Outcomes

LEMMA FlushTyped ==
  ASSUME TypeInv, NEW next \in {"join", "select", "stopping"}, Flush(next),
         next = "join" => segs # << >>
  PROVE  TypeInv'
<1>1. Pending(unit) \in PendingUnits
  BY DEF TypeInv, TypeOK, Pending, PendingUnits, LiveUnits
<1>2. unit' \in LiveUnits /\ unit.members \subseteq Ids
  BY EmptyUnitTyped DEF Flush, TypeInv, TypeOK, LiveUnits
<1>3. queue' \in Seq(PendingUnits) /\ Len(queue') <= QueueDepth
  <2>1. queue \in Seq(PendingUnits) /\ Len(queue) <= QueueDepth
    BY DEF TypeInv, TypeOK
  <2>2. CASE queue' = Append(queue, Pending(unit)) /\ Len(queue) < QueueDepth
    BY <1>1, <2>1, <2>2, AppendTyped, BoundsAssumption
  <2>3. CASE queue' = queue
    BY <2>1, <2>3
  <2> QED BY <2>2, <2>3 DEF Flush
<1>4. loop' \in LoopPoints /\ after' \in {"join", "select", "stopping"}
      /\ shedding' \subseteq Ids /\ idleHolds' \in 0 .. MaxIdleHolds
      /\ timer' \in BOOLEAN
  <2>1. /\ loop \in LoopPoints /\ after \in {"join", "select", "stopping"}
        /\ shedding \subseteq Ids
    BY DEF TypeInv, TypeOK
  <2>2. 0 \in 0 .. MaxIdleHolds
    BY BoundsAssumption
  <2>3. idleHolds' = 0 /\ timer' = FALSE
    BY DEF Flush
  <2> QED BY <1>2, <2>1, <2>2, <2>3 DEF Flush, LoopPoints
<1>5. SegmentAtHand'
  BY DEF Flush, TypeInv, SegmentAtHand
<1> QED
  BY <1>2, <1>3, <1>4, <1>5 DEF Flush, TypeInv, TypeOK

LEMMA GotoTyped ==
  ASSUME TypeInv, NEW point \in LoopPoints \ {"subtitle", "join", "shed"},
         Goto(point)
  PROVE  TypeInv'
  BY DEF Goto, TypeInv, TypeOK, SegmentAtHand

LEMMA TypeInvLoop == TypeInv /\ LoopStep => TypeInv'
<1> SUFFICES ASSUME TypeInv, LoopStep PROVE TypeInv'
  OBVIOUS
<1>1. CASE SelectCancelled
  BY <1>1, GotoTyped DEF SelectCancelled, LoopPoints
<1>2. CASE IdleHold
  BY <1>2, BoundsAssumption DEF IdleHold, HoldNow, TypeInv, TypeOK, SegmentAtHand
<1>3. CASE IdleFlush
  BY <1>3, FlushTyped DEF IdleFlush
<1>4. CASE ReceiveInterim
  BY <1>4, GotoTyped DEF ReceiveInterim, LoopPoints
<1>5. CASE EmitInterim
  BY <1>5, GotoTyped DEF EmitInterim, LoopPoints
<1>6. CASE ReceiveFinal
  <2>1. PICK seg \in Segments : segs' = Append(segs, seg)
    BY <1>6 DEF ReceiveFinal
  <2>2. segs' \in Seq(Segments) /\ Len(segs') <= MaxSegments /\ segs' # << >>
    BY <1>6, <2>1, BoundsAssumption DEF ReceiveFinal, TypeInv, TypeOK
  <2> QED BY <1>6, <2>2 DEF ReceiveFinal, TypeInv, TypeOK, SegmentAtHand, LoopPoints
<1>7. CASE EmitSubtitle
  <2>1. Latest \in Ids
    BY <1>7, BoundsAssumption
    DEF EmitSubtitle, TypeInv, TypeOK, SegmentAtHand, Latest, Ids
  <2> QED BY <1>7, <2>1
      DEF EmitSubtitle, TypeInv, TypeOK, SegmentAtHand, LoopPoints
<1>8. CASE FlushBoundary
  BY <1>8, FlushTyped DEF FlushBoundary, TypeInv, SegmentAtHand
<1>9. CASE AddSegment
  <2>1. Latest \in Ids /\ segs[Latest] \in Segments
    BY <1>9, BoundsAssumption
    DEF AddSegment, TypeInv, TypeOK, SegmentAtHand, Latest, Ids
  <2>2. unit' \in LiveUnits
    BY <1>9, <2>1, AddTyped DEF AddSegment, TypeInv, TypeOK
  <2> QED BY <1>9, <2>2, BoundsAssumption
      DEF AddSegment, TypeInv, TypeOK, SegmentAtHand, LoopPoints
<1>10. CASE FlushFull
  BY <1>10, FlushTyped DEF FlushFull
<1>11. CASE EndOfStream
  BY <1>11, FlushTyped, GotoTyped DEF EndOfStream, LoopPoints
<1>12. CASE EmitShed
  <2>1. results' \in [Ids -> Seq(ResultKinds)]
    BY <1>12, DeliverTyped DEF EmitShed, TypeInv, TypeOK, ResultKinds
  <2>2. shedding' \subseteq Ids
    BY <1>12 DEF EmitShed, TypeInv, TypeOK
  <2>3. loop' \in LoopPoints /\ SegmentAtHand'
    BY <1>12 DEF EmitShed, TypeInv, TypeOK, SegmentAtHand, LoopPoints
  <2> QED BY <1>12, <2>1, <2>2, <2>3 DEF EmitShed, TypeInv, TypeOK
<1>13. CASE CloseQueue
  BY <1>13 DEF CloseQueue, TypeInv, TypeOK, SegmentAtHand, LoopPoints
<1>14. CASE CloseOut
  BY <1>14 DEF CloseOut, TypeInv, TypeOK, SegmentAtHand, LoopPoints
<1> QED
  BY <1>1, <1>2, <1>3, <1>4, <1>5, <1>6, <1>7, <1>8, <1>9, <1>10, <1>11,
     <1>12, <1>13, <1>14 DEF LoopStep

LEMMA TypeInvWorker ==
  ASSUME TypeInv, NEW w \in Workers, WorkerStep(w)
  PROVE  TypeInv'
<1> DEFINE WorkerStates == [pc : WorkerPoints, pu : PendingUnits,
                            todo : SUBSET Ids, outcome : Outcomes]
<1>1. worker \in [Workers -> WorkerStates]
  BY DEF TypeInv, TypeOK
<1>2. UNCHANGED loopVars
  BY DEF WorkerStep, Take, Exit, Judge, EmitResult, DetectConsistency
<1>3. /\ worker' \in [Workers -> WorkerStates]
      /\ queue' \in Seq(PendingUnits) /\ Len(queue') <= QueueDepth
      /\ results' \in [Ids -> Seq(ResultKinds)]
  <2>0. queue \in Seq(PendingUnits) /\ Len(queue) <= QueueDepth
        /\ results \in [Ids -> Seq(ResultKinds)]
    BY DEF TypeInv, TypeOK
  <2>1. CASE Take(w)
    <3>1. Head(queue) \in PendingUnits /\ Tail(queue) \in Seq(PendingUnits)
          /\ Len(Tail(queue)) <= QueueDepth
      BY <2>0, <2>1, BoundsAssumption DEF Take
    <3>2. Head(queue).members \subseteq Ids
      BY <3>1 DEF PendingUnits
    <3> QED BY <1>1, <2>0, <2>1, <3>1, <3>2 DEF Take, WorkerPoints, Outcomes
  <2>2. CASE Exit(w)
    BY <1>1, <2>0, <2>2 DEF Exit, WorkerPoints
  <2>3. CASE Judge(w)
    <3>1. PICK o \in Outcomes :
            worker' = [worker EXCEPT ![w].pc = "emit", ![w].outcome = o]
      BY <2>3 DEF Judge
    <3>2. [worker[w] EXCEPT !.pc = "emit", !.outcome = o] \in WorkerStates
      BY <1>1 DEF WorkerPoints
    <3> QED BY <1>1, <2>0, <2>3, <3>1, <3>2 DEF Judge
  <2>4. CASE EmitResult(w)
    <3>1. worker[w].outcome \in ResultKinds
      BY <1>1 DEF ResultKinds
    <3>2. results' \in [Ids -> Seq(ResultKinds)]
      BY <2>0, <2>4, <3>1, DeliverTyped DEF EmitResult
    <3>3. worker' \in [Workers -> WorkerStates]
      <4>1. worker[w] \in WorkerStates /\ IdleWorker \in WorkerStates
        BY <1>1, IdleWorkerTyped
      <4>2. \A i : [worker[w] EXCEPT !.todo = @ \ {i}] \in WorkerStates
        BY <4>1
      <4>3. [worker[w] EXCEPT !.todo = {}, !.pc = "consistency"] \in WorkerStates
        BY <4>1 DEF WorkerPoints
      <4>4. PICK st \in WorkerStates : worker' = [worker EXCEPT ![w] = st]
        BY <2>4, <4>1, <4>2, <4>3 DEF EmitResult
      <4> QED BY <1>1, <4>4
    <3> QED BY <2>0, <2>4, <3>2, <3>3 DEF EmitResult
  <2>5. CASE DetectConsistency(w)
    BY <1>1, <2>0, <2>5, IdleWorkerTyped DEF DetectConsistency
  <2> QED BY <2>1, <2>2, <2>3, <2>4, <2>5 DEF WorkerStep
<1> QED BY <1>2, <1>3 DEF loopVars, TypeInv, TypeOK, SegmentAtHand

LEMMA TypeInvStep == TypeInv /\ [Next]_vars => TypeInv'
<1> SUFFICES ASSUME TypeInv, [Next]_vars PROVE TypeInv'
  OBVIOUS
<1>1. CASE LoopStep
  BY <1>1, TypeInvLoop
<1>2. CASE \E w \in Workers : WorkerStep(w)
  BY <1>2, TypeInvWorker
<1>3. CASE ProviderEnds \/ Cancel
  BY <1>3 DEF ProviderEnds, Cancel, TypeInv, TypeOK, SegmentAtHand
<1>4. CASE UNCHANGED vars
  BY <1>4 DEF vars, TypeInv, TypeOK, SegmentAtHand
<1> QED BY <1>1, <1>2, <1>3, <1>4 DEF Next

LEMMA TypeInvInit == Init => TypeInv
<1> SUFFICES ASSUME Init PROVE TypeInv
  OBVIOUS
<1>1. /\ segs \in Seq(Segments) /\ Len(segs) <= MaxSegments
      /\ queue \in Seq(PendingUnits) /\ Len(queue) <= QueueDepth
  BY BoundsAssumption DEF Init
<1>2. results \in [Ids -> Seq(ResultKinds)]
  BY DEF Init
<1>3. unit \in LiveUnits
  BY EmptyUnitTyped DEF Init
<1>4. worker \in [Workers -> [pc : WorkerPoints, pu : PendingUnits,
                             todo : SUBSET Ids, outcome : Outcomes]]
  BY IdleWorkerTyped DEF Init
<1> QED
  <2>1. idleHolds \in 0 .. MaxIdleHolds /\ timer \in BOOLEAN
    <3>1. idleHolds = 0 /\ timer = FALSE
      BY DEF Init
    <3>2. MaxIdleHolds \in Nat
      BY BoundsAssumption
    <3>3. idleHolds \in 0 .. MaxIdleHolds
      BY <3>1, <3>2, SMT
    <3>4. timer \in BOOLEAN
      BY <3>1, Zenon
    <3> QED BY <3>3, <3>4
  <2>2. loop \in LoopPoints /\ after \in {"join", "select", "stopping"}
        /\ SegmentAtHand
    <3>1. loop = "select" /\ after = "select"
      BY DEF Init
    <3> QED BY <3>1 DEF LoopPoints, SegmentAtHand
  <2>3. shedding \subseteq Ids /\ subtitled \subseteq Ids
        /\ queueClosed \in BOOLEAN /\ ended \in BOOLEAN
        /\ ctxDone \in BOOLEAN /\ outClosed \in BOOLEAN
    BY DEF Init
  <2> QED BY <1>1, <1>2, <1>3, <1>4, <2>1, <2>2, <2>3 DEF TypeInv, TypeOK

\* Every variable of the session keeps its type: in particular the queue and
\* the hold counter stay within QueueDepth and MaxIdleHolds.
THEOREM TypeCorrect == Spec => []TypeOK
<1>1. TypeInv => TypeOK
  BY DEF TypeInv
<1> QED BY <1>1, TypeInvInit, TypeInvStep, PTL DEF Spec

-----------------------------------------------------------------------------
(* Every statement is in exactly one place.                                *)

\* Where an unresolved statement may be, element by element.
Place(i) == \/ i \in unit.members \/ i \in shedding \/ Queued(i) \/ Scoring(i)
            \/ i \in Joining

LEMMA HeldIsPlace == ASSUME NEW i PROVE i \in Held <=> Place(i)
  BY DEF Held, Place, InQueue, InWorkers, Queued, Scoring

LEMMA NothingLostPointwise ==
  ASSUME TypeInv
  PROVE  NothingLost <=>
           (~ctxDone => \A i \in subtitled : Place(i) \/ results[i] # << >>)
<1>1. subtitled \subseteq Ids
  BY DEF TypeInv, TypeOK
<1>2. \A i \in subtitled : i \in Resolved <=> results[i] # << >>
  BY <1>1 DEF Resolved
<1> QED BY <1>2, HeldIsPlace DEF NothingLost

LEMMA NothingLostPointwiseNext ==
  ASSUME TypeInv'
  PROVE  NothingLost' <=>
           (~ctxDone' => \A i \in subtitled' : Place(i)' \/ results'[i] # << >>)
<1>1. subtitled' \subseteq Ids
  BY DEF TypeInv, TypeOK
<1>2. \A i \in subtitled' : i \in Resolved' <=> results'[i] # << >>
  BY <1>1 DEF Resolved
<1>3. ASSUME NEW i PROVE i \in Held' <=> Place(i)'
  BY DEF Held, Place, InQueue, InWorkers, Queued, Scoring
<1> QED BY <1>2, <1>3 DEF NothingLost

\* What enqueuing the unit and dequeuing the head do to the queue.
LEMMA QueuedAppend ==
  ASSUME TypeInv, queue' = Append(queue, Pending(unit))
  PROVE  /\ Len(queue') = Len(queue) + 1
         /\ \A k \in 1 .. Len(queue) : queue'[k] = queue[k]
         /\ queue'[Len(queue) + 1] = Pending(unit)
         /\ \A i : Queued(i)' <=> Queued(i) \/ i \in unit.members
<1>1. queue \in Seq(PendingUnits) /\ Len(queue) \in Nat
  BY DEF TypeInv, TypeOK
<1>2. /\ Len(queue') = Len(queue) + 1
      /\ \A k \in 1 .. Len(queue) : queue'[k] = queue[k]
      /\ queue'[Len(queue) + 1] = Pending(unit)
  BY <1>1
<1>3. 1 .. Len(queue') = (1 .. Len(queue)) \cup {Len(queue) + 1}
  BY <1>1, <1>2
<1>4. Pending(unit).members = unit.members
  BY DEF Pending
<1> QED BY <1>2, <1>3, <1>4 DEF Queued

LEMMA QueuedTail ==
  ASSUME TypeInv, queue # << >>, queue' = Tail(queue)
  PROVE  /\ Len(queue') = Len(queue) - 1
         /\ \A k \in 1 .. Len(queue') : queue'[k] = queue[k + 1]
         /\ Len(queue) >= 1 /\ Head(queue) = queue[1]
         /\ \A i : Queued(i) <=> Queued(i)' \/ i \in Head(queue).members
<1>1. queue \in Seq(PendingUnits) /\ Len(queue) \in Nat
  BY DEF TypeInv, TypeOK
<1>2. /\ Len(queue') = Len(queue) - 1
      /\ \A k \in 1 .. Len(queue') : queue'[k] = queue[k + 1]
      /\ Len(queue) >= 1 /\ Head(queue) = queue[1]
  BY <1>1
<1>3. ASSUME NEW i, Queued(i) PROVE Queued(i)' \/ i \in Head(queue).members
  <2>1. PICK k \in 1 .. Len(queue) : i \in queue[k].members
    BY <1>3 DEF Queued
  <2>2. CASE k = 1
    BY <1>2, <2>1, <2>2
  <2>3. CASE k # 1
    <3>1. k - 1 \in 1 .. Len(queue') /\ queue'[k - 1] = queue[k]
      BY <1>1, <1>2, <2>3
    <3> QED BY <2>1, <3>1 DEF Queued
  <2> QED BY <2>2, <2>3
<1>4. ASSUME NEW i, Queued(i)' PROVE Queued(i)
  <2>1. PICK k \in 1 .. Len(queue') : i \in queue'[k].members
    BY <1>4 DEF Queued
  <2>2. k + 1 \in 1 .. Len(queue) /\ queue[k + 1] = queue'[k]
    BY <1>1, <1>2
  <2> QED BY <2>1, <2>2 DEF Queued
<1>5. ASSUME NEW i, i \in Head(queue).members PROVE Queued(i)
  BY <1>1, <1>2, <1>5 DEF Queued
<1> QED BY <1>2, <1>3, <1>4, <1>5

\* The invariant looks at nothing else.
LEMMA SessionFrame ==
  ASSUME SessionInv,
         UNCHANGED <<segs, loop, after, unit, timer, shedding, queue,
                     queueClosed, worker, subtitled, results, ctxDone, outClosed>>
  PROVE  SessionInv'
  BY DEF SessionInv, Captions, Control, OneCopy, HeldIsOpen, JoiningIsOpen,
         ResolvedOnce, NothingLost, Held, InQueue, InWorkers, Joining, Resolved,
         Queued, Scoring, Received, Latest, IsEmpty

LEMMA FlushKeepsSession ==
  ASSUME TypeInv, SessionInv, NEW next \in {"join", "select", "stopping"},
         Flush(next), ~IsEmpty(unit),
         loop \in {"select", "join", "full"}, loop = "join" <=> next = "join"
  PROVE  SessionInv'
<1>1. TypeInv'
  BY FlushTyped DEF TypeInv, SegmentAtHand
<1>2. /\ unit'.members = {} /\ IsEmpty(unit)' /\ timer' = FALSE
      /\ shedding = {} /\ ~queueClosed /\ ~outClosed
      /\ subtitled = Received /\ (loop = "join" => segs # << >>)
      /\ \A w \in Workers : worker[w].pc # "exited"
  BY DEF Flush, EmptyUnit, IsEmpty, SessionInv, Control, Captions, Joining
<1>3. UNCHANGED <<segs, queueClosed, worker, subtitled, results, ctxDone, outClosed>>
  BY DEF Flush
<1>4. \A i : Scoring(i)' <=> Scoring(i)
  BY <1>3 DEF Scoring
<1>5. \A i \in unit.members \cup subtitled : i \in Ids
  BY DEF TypeInv, TypeOK, LiveUnits
<1>6. (ctxDone <=> ctxDone') /\ ResolvedOnce'
  BY <1>3 DEF SessionInv, ResolvedOnce
<1>a. CASE /\ queue' = Append(queue, Pending(unit)) /\ loop' = next
           /\ UNCHANGED <<shedding, after>>
  <2>1. Joining' = Joining
    BY <1>a, <1>3 DEF Joining, Latest
  <2>2. Captions'
    BY <1>2, <1>3, <1>a, <2>1 DEF SessionInv, Captions, Received
  <2>3. Control'
    <3>1. ASSUME NEW k \in 1 .. Len(queue') PROVE queue'[k].members # {}
      <4>1. CASE k \in 1 .. Len(queue)
        BY <1>a, <4>1, QueuedAppend DEF SessionInv, Control
      <4>2. CASE k = Len(queue) + 1
        BY <1>a, <4>2, QueuedAppend DEF Pending, IsEmpty
      <4>3. Len(queue) \in Nat
        BY DEF TypeInv, TypeOK
      <4> QED BY <1>a, <4>1, <4>2, <4>3, QueuedAppend
    <3>2. /\ loop' \in {"join", "select", "stopping"}
          /\ loop \notin {"waiting", "closed", "stopping"}
      BY <1>a
    <3> QED BY <1>2, <1>3, <1>a, <3>1, <3>2 DEF SessionInv, Control
  <2>4. OneCopy'
    <3>1. ASSUME NEW k \in 1 .. Len(queue'), NEW l \in 1 .. Len(queue'), k # l
          PROVE  queue'[k].members \cap queue'[l].members = {}
      <4>1. Len(queue) \in Nat
        BY DEF TypeInv, TypeOK
      <4>2. \A i \in unit.members : ~Queued(i)
        BY DEF SessionInv, OneCopy
      <4>3. \A m \in 1 .. Len(queue) : queue[m].members \cap unit.members = {}
        BY <4>2 DEF Queued
      <4> QED BY <1>a, <3>1, <4>1, <4>3, QueuedAppend
          DEF SessionInv, OneCopy, Pending
    <3>2. \A i \in Ids : ~(Queued(i)' /\ Scoring(i)')
      BY <1>4, <1>a, QueuedAppend DEF SessionInv, OneCopy
    <3> QED BY <1>2, <1>3, <1>a, <3>1, <3>2 DEF SessionInv, OneCopy
  <2>5. HeldIsOpen' /\ JoiningIsOpen'
    BY <1>2, <1>3, <1>4, <1>a, <2>1, QueuedAppend
    DEF SessionInv, HeldIsOpen, JoiningIsOpen
  <2>6. NothingLost'
    BY <1>1, <1>2, <1>3, <1>4, <1>a, <2>1, QueuedAppend,
       NothingLostPointwise, NothingLostPointwiseNext
    DEF SessionInv, Place
  <2> QED BY <1>6, <2>2, <2>3, <2>4, <2>5, <2>6 DEF SessionInv
<1>b. CASE /\ ctxDone /\ loop' = "stopping"
           /\ UNCHANGED <<queue, shedding, after>>
  <2>1. Joining' = {} /\ \A i : Queued(i)' <=> Queued(i)
    BY <1>b DEF Joining, Queued
  <2>2. Captions' /\ JoiningIsOpen'
    BY <1>2, <1>3, <1>b, <2>1 DEF Captions, Received, SessionInv, JoiningIsOpen
  <2>3. Control'
    BY <1>2, <1>3, <1>b DEF SessionInv, Control
  <2>4. OneCopy'
    BY <1>2, <1>3, <1>4, <1>b, <2>1 DEF SessionInv, OneCopy
  <2>5. HeldIsOpen'
    BY <1>2, <1>3, <1>4, <1>b, <2>1 DEF SessionInv, HeldIsOpen
  <2>6. NothingLost'
    BY <1>b, <1>6 DEF NothingLost
  <2> QED BY <1>6, <2>2, <2>3, <2>4, <2>5, <2>6 DEF SessionInv
<1>c. CASE /\ shedding' = unit.members /\ after' = next /\ loop' = "shed"
           /\ UNCHANGED queue
  <2>1. Joining' = Joining /\ \A i : Queued(i)' <=> Queued(i)
    BY <1>c, <1>3 DEF Joining, Latest, Queued
  <2>2. Captions'
    BY <1>2, <1>3, <1>c, <2>1 DEF Captions, Received, SessionInv
  <2>3. Control'
    BY <1>2, <1>3, <1>c DEF SessionInv, Control, IsEmpty
  <2>4. OneCopy'
    BY <1>2, <1>3, <1>4, <1>c, <2>1 DEF SessionInv, OneCopy
  <2>5. HeldIsOpen' /\ JoiningIsOpen'
    BY <1>2, <1>3, <1>4, <1>c, <2>1 DEF SessionInv, HeldIsOpen, JoiningIsOpen
  <2>6. NothingLost'
    BY <1>1, <1>2, <1>3, <1>4, <1>c, <2>1,
       NothingLostPointwise, NothingLostPointwiseNext
    DEF SessionInv, Place
  <2> QED BY <1>6, <2>2, <2>3, <2>4, <2>5, <2>6 DEF SessionInv
<1> QED BY <1>a, <1>b, <1>c DEF Flush

\* Moving the control point between waiting places, or to the end of the loop.
LEMMA GotoKeepsSession ==
  ASSUME TypeInv, SessionInv, NEW point \in {"select", "interim", "stopping"},
         Goto(point), loop \in {"select", "interim"},
         point = "stopping" => ctxDone \/ IsEmpty(unit)
  PROVE  SessionInv'
<1>1. UNCHANGED <<segs, after, unit, timer, shedding, queue, queueClosed, worker,
                  subtitled, results, ctxDone, outClosed>>
  BY DEF Goto
<1>2. loop' = point /\ Joining = {} /\ Joining' = {}
  BY DEF Goto, Joining
<1>3. (\A i : Queued(i)' <=> Queued(i)) /\ (\A i : Scoring(i)' <=> Scoring(i))
  BY <1>1 DEF Queued, Scoring
<1>4. Captions' /\ OneCopy' /\ HeldIsOpen' /\ JoiningIsOpen' /\ ResolvedOnce'
  BY <1>1, <1>2, <1>3
  DEF SessionInv, Captions, Received, OneCopy, HeldIsOpen, JoiningIsOpen,
      ResolvedOnce
<1>5. Control'
  BY <1>1, <1>2 DEF SessionInv, Control, IsEmpty
<1>6. NothingLost'
  BY <1>1, <1>2
  DEF SessionInv, NothingLost, Held, InQueue, InWorkers, Resolved
<1> QED BY <1>4, <1>5, <1>6 DEF SessionInv

LEMMA ReceiveFinalKeepsSession ==
  ASSUME TypeInv, SessionInv, ReceiveFinal
  PROVE  SessionInv'
<1>1. UNCHANGED <<after, unit, timer, shedding, queue, queueClosed, worker,
                  subtitled, results, ctxDone, outClosed>>
  BY DEF ReceiveFinal
<1>2. loop = "select" /\ loop' = "subtitle" /\ Joining = {} /\ Joining' = {}
  BY DEF ReceiveFinal, Joining
<1>3. (\A i : Queued(i)' <=> Queued(i)) /\ (\A i : Scoring(i)' <=> Scoring(i))
  BY <1>1 DEF Queued, Scoring
<1>4. Len(segs') = Len(segs) + 1 /\ segs' # << >> /\ Len(segs) \in Nat
  <2>1. PICK seg \in Segments : segs' = Append(segs, seg)
    BY DEF ReceiveFinal
  <2>2. segs \in Seq(Segments)
    BY DEF TypeInv, TypeOK
  <2> QED BY <2>1, <2>2
<1>5. Captions'
  BY <1>1, <1>2, <1>4 DEF SessionInv, Captions, Received
<1>6. OneCopy' /\ HeldIsOpen' /\ JoiningIsOpen' /\ ResolvedOnce'
  BY <1>1, <1>2, <1>3
  DEF SessionInv, OneCopy, HeldIsOpen, JoiningIsOpen, ResolvedOnce
<1>7. Control'
  BY <1>1, <1>2 DEF SessionInv, Control, IsEmpty
<1>8. NothingLost'
  BY <1>1, <1>2
  DEF SessionInv, NothingLost, Held, InQueue, InWorkers, Resolved
<1> QED BY <1>5, <1>6, <1>7, <1>8 DEF SessionInv

LEMMA EmitSubtitleKeepsSession ==
  ASSUME TypeInv, SessionInv, EmitSubtitle
  PROVE  SessionInv'
<1>1. UNCHANGED <<segs, after, unit, timer, shedding, queue, queueClosed, worker,
                  results, ctxDone, outClosed>>
  BY DEF EmitSubtitle
<1>2. loop = "subtitle" /\ Joining = {}
  BY DEF EmitSubtitle, Joining
<1>3. (\A i : Queued(i)' <=> Queued(i)) /\ (\A i : Scoring(i)' <=> Scoring(i))
  BY <1>1 DEF Queued, Scoring
<1>4. Len(segs) \in Nat /\ Latest \in Ids /\ Latest \notin subtitled
      /\ subtitled \cup {Latest} = Received /\ segs # << >>
  <2>1. Len(segs) \in Nat /\ segs # << >> => Len(segs) \in 1 .. MaxSegments
    BY BoundsAssumption DEF TypeInv, TypeOK
  <2>2. segs # << >> /\ subtitled = 1 .. Len(segs) - 1
    BY <1>2 DEF SessionInv, Captions
  <2>3. Len(segs) \in Nat
    BY DEF TypeInv, TypeOK
  <2> QED BY <2>1, <2>2, <2>3 DEF Latest, Ids, Received
<1>5. Control'
  BY <1>1, <1>2 DEF EmitSubtitle, SessionInv, Control, IsEmpty
<1>6. results[Latest] = << >>
  BY <1>4 DEF SessionInv, ResolvedOnce
<1>a. CASE subtitled' = subtitled \cup {Latest} /\ loop' = "join"
  <2>1. Joining' = {Latest}
    BY <1>a, <1>1 DEF Joining, Latest
  <2>2. Captions'
    BY <1>1, <1>4, <1>a DEF SessionInv, Captions, Received
  <2>3. OneCopy' /\ ResolvedOnce'
    BY <1>1, <1>3, <1>a DEF SessionInv, OneCopy, ResolvedOnce
  <2>4. HeldIsOpen' /\ JoiningIsOpen'
    BY <1>1, <1>2, <1>3, <1>4, <1>6, <1>a, <2>1
    DEF SessionInv, HeldIsOpen, JoiningIsOpen
  <2>5. NothingLost'
    BY <1>1, <1>2, <1>a, <2>1
    DEF SessionInv, NothingLost, Held, InQueue, InWorkers, Resolved
  <2> QED BY <1>5, <2>2, <2>3, <2>4, <2>5 DEF SessionInv
<1>b. CASE ctxDone /\ loop' = "stopping" /\ UNCHANGED subtitled
  <2>1. Joining' = {}
    BY <1>b DEF Joining
  <2>2. Captions'
    BY <1>1, <1>b, <2>1 DEF SessionInv, Captions, Received
  <2>3. OneCopy' /\ ResolvedOnce' /\ HeldIsOpen' /\ JoiningIsOpen'
    BY <1>1, <1>2, <1>3, <1>b, <2>1
    DEF SessionInv, OneCopy, ResolvedOnce, HeldIsOpen, JoiningIsOpen
  <2>4. NothingLost'
    BY <1>1, <1>b DEF NothingLost
  <2> QED BY <1>5, <2>2, <2>3, <2>4 DEF SessionInv
<1> QED BY <1>a, <1>b DEF EmitSubtitle

LEMMA AddSegmentKeepsSession ==
  ASSUME TypeInv, SessionInv, AddSegment
  PROVE  SessionInv'
<1>1. UNCHANGED <<segs, after, shedding, queue, queueClosed, worker, subtitled,
                  results, ctxDone, outClosed>>
  BY DEF AddSegment
<1>2. /\ loop = "join" /\ loop' \in {"select", "full"} /\ timer' = TRUE
      /\ Joining = {Latest} /\ Joining' = {}
  BY DEF AddSegment, Joining
<1>3. unit'.members = unit.members \cup {Latest} /\ ~IsEmpty(unit)'
  BY DEF AddSegment, Add, IsEmpty
<1>4. (\A i : Queued(i)' <=> Queued(i)) /\ (\A i : Scoring(i)' <=> Scoring(i))
  BY <1>1 DEF Queued, Scoring
<1>5. Latest \in Ids /\ Latest \in subtitled
  <2>1. segs # << >> /\ subtitled = 1 .. Len(segs) /\ Len(segs) \in Nat
    BY <1>2 DEF SessionInv, Captions, Received, TypeInv, TypeOK
  <2>2. subtitled \subseteq Ids /\ segs \in Seq(Segments)
    BY DEF TypeInv, TypeOK
  <2> QED BY <2>1, <2>2 DEF Latest
<1>6. Captions'
  BY <1>1, <1>2 DEF SessionInv, Captions, Received
<1>7. Control'
  BY <1>1, <1>2, <1>3 DEF SessionInv, Control
<1>8. ~(Latest \in unit.members \/ Latest \in shedding \/ Queued(Latest)
        \/ Scoring(Latest)) /\ results[Latest] = << >>
  BY <1>2, <1>5 DEF SessionInv, HeldIsOpen, JoiningIsOpen
<1>9. OneCopy' /\ ResolvedOnce' /\ HeldIsOpen' /\ JoiningIsOpen'
  BY <1>1, <1>2, <1>3, <1>4, <1>5, <1>8
  DEF SessionInv, OneCopy, ResolvedOnce, HeldIsOpen, JoiningIsOpen
<1>10. NothingLost'
  BY <1>1, <1>2, <1>3
  DEF SessionInv, NothingLost, Held, InQueue, InWorkers, Resolved
<1> QED BY <1>6, <1>7, <1>9, <1>10 DEF SessionInv

\* A statement without a result gets exactly one.
LEMMA DeliverOne ==
  ASSUME TypeInv, NEW i \in Ids, NEW kind, results[i] = << >>, Deliver(i, kind)
  PROVE  /\ results'[i] # << >> /\ Len(results'[i]) = 1
         /\ \A j \in Ids : j # i => results'[j] = results[j]
<1>1. results \in [Ids -> Seq(ResultKinds)]
  BY DEF TypeInv, TypeOK
<1>2. results' = [results EXCEPT ![i] = Append(results[i], kind)]
  BY DEF Deliver
<1>3. results'[i] = Append(<< >>, kind)
  BY <1>1, <1>2
<1>4. Append(<< >>, kind) # << >> /\ Len(Append(<< >>, kind)) = 1
  OBVIOUS
<1>5. \A j \in Ids : j # i => results'[j] = results[j]
  BY <1>1, <1>2
<1> QED BY <1>3, <1>4, <1>5

LEMMA JoiningIsId ==
  ASSUME TypeInv PROVE Joining \subseteq Ids
<1>1. segs \in Seq(Segments) /\ Len(segs) <= MaxSegments /\ MaxSegments \in Nat
  BY BoundsAssumption DEF TypeInv, TypeOK
<1>2. Joining # {} => segs # << >>
  BY DEF TypeInv, SegmentAtHand, Joining
<1>3. segs # << >> => Len(segs) \in 1 .. MaxSegments
  BY <1>1
<1> QED BY <1>2, <1>3 DEF Joining, Latest, Ids

LEMMA EmitShedKeepsSession ==
  ASSUME TypeInv, SessionInv, EmitShed
  PROVE  SessionInv'
<1>1. UNCHANGED <<segs, after, unit, timer, queue, queueClosed, worker, subtitled,
                  ctxDone, outClosed>>
  BY DEF EmitShed
<1>2. (\A i : Queued(i)' <=> Queued(i)) /\ (\A i : Scoring(i)' <=> Scoring(i))
  BY <1>1 DEF Queued, Scoring
<1>3. /\ loop = "shed" /\ shedding # {} /\ shedding \subseteq Ids
      /\ unit.members = {} /\ after \in {"join", "select", "stopping"}
  BY DEF EmitShed, SessionInv, Control, IsEmpty, TypeInv, TypeOK
<1>4. PICK i \in shedding : i = FirstOf(shedding)
  BY <1>3, FirstOfMember
<1>a. CASE /\ Deliver(i, "not_checked") /\ shedding' = shedding \ {i}
           /\ loop' = IF shedding' = {} THEN after ELSE "shed"
  <2>1. i \in shedding
    BY <1>4
  <2>2. /\ i \in subtitled \ Joining /\ results[i] = << >> /\ i \in Ids
        /\ ~Queued(i) /\ ~Scoring(i)
    BY <1>3, <2>1 DEF SessionInv, HeldIsOpen, OneCopy
  <2>3. /\ results'[i] # << >> /\ Len(results'[i]) = 1
        /\ \A j \in Ids : j # i => results'[j] = results[j]
    BY <1>a, <2>2, DeliverOne
  <2>4. Joining' = Joining
    BY <1>1, <1>3, <1>a DEF Joining, Latest
  <2>5. Captions'
    BY <1>1, <1>3, <1>a, <2>4 DEF SessionInv, Captions, Received
  <2>6. Control'
    BY <1>1, <1>3, <1>a DEF SessionInv, Control, IsEmpty
  <2>7. OneCopy'
    BY <1>1, <1>2, <1>3, <1>a DEF SessionInv, OneCopy
  <2>8. HeldIsOpen' /\ JoiningIsOpen'
    <3>1. Joining \subseteq Ids
      BY JoiningIsId
    <3>2. HeldIsOpen'
      BY <1>1, <1>2, <1>3, <1>a, <2>2, <2>3, <2>4 DEF SessionInv, HeldIsOpen
    <3>3. JoiningIsOpen'
      BY <2>2, <2>3, <2>4, <3>1 DEF SessionInv, JoiningIsOpen
    <3> QED BY <3>2, <3>3
  <2>9. ResolvedOnce'
    <3>1. ASSUME NEW j \in Ids
          PROVE  Len(results'[j]) <= 1 /\ (results'[j] # << >> => j \in subtitled')
      <4>1. Len(results[j]) <= 1 /\ (results[j] # << >> => j \in subtitled)
        BY DEF SessionInv, ResolvedOnce
      <4>2. CASE j = i
        <5>1. Len(results'[i]) = 1 /\ 1 <= 1
          BY <2>3
        <5>2. i \in subtitled'
          BY <1>1, <2>2
        <5> QED BY <4>2, <5>1, <5>2
      <4>3. CASE j # i
        BY <1>1, <2>3, <4>1, <4>3
      <4> QED BY <4>2, <4>3
    <3> QED BY <3>1 DEF ResolvedOnce
  <2>10. NothingLost'
    <3>1. \A j \in subtitled : j \in Ids
      BY DEF TypeInv, TypeOK
    <3>2. TypeInv'
      BY TypeInvLoop DEF LoopStep
    <3> QED BY <1>1, <1>2, <1>3, <1>a, <2>3, <2>4, <3>1, <3>2,
            NothingLostPointwise, NothingLostPointwiseNext
        DEF SessionInv, Place
  <2> QED BY <2>5, <2>6, <2>7, <2>8, <2>9, <2>10 DEF SessionInv
<1>b. CASE ctxDone /\ shedding' = {} /\ loop' = "stopping" /\ UNCHANGED results
  <2>1. Joining' = {}
    BY <1>b DEF Joining
  <2>2. Captions'
    BY <1>1, <1>b, <2>1 DEF SessionInv, Captions, Received
  <2>3. Control'
    BY <1>1, <1>3, <1>b DEF SessionInv, Control, IsEmpty
  <2>4. OneCopy' /\ ResolvedOnce' /\ HeldIsOpen' /\ JoiningIsOpen'
    BY <1>1, <1>2, <1>3, <1>b, <2>1
    DEF SessionInv, OneCopy, ResolvedOnce, HeldIsOpen, JoiningIsOpen
  <2>5. NothingLost'
    BY <1>1, <1>b DEF NothingLost
  <2> QED BY <2>2, <2>3, <2>4, <2>5 DEF SessionInv
<1> QED BY <1>4, <1>a, <1>b DEF EmitShed

LEMMA ClosingKeepsSession ==
  ASSUME TypeInv, SessionInv, CloseQueue \/ CloseOut
  PROVE  SessionInv'
<1>1. UNCHANGED <<segs, after, unit, timer, shedding, queue, worker, subtitled,
                  results, ctxDone>>
  BY DEF CloseQueue, CloseOut
<1>2. Joining = {} /\ Joining' = {}
  BY DEF CloseQueue, CloseOut, Joining
<1>3. (\A i : Queued(i)' <=> Queued(i)) /\ (\A i : Scoring(i)' <=> Scoring(i))
  BY <1>1 DEF Queued, Scoring
<1>4. Captions'
  BY <1>1, <1>2 DEF CloseQueue, CloseOut, SessionInv, Captions, Received
<1>5. OneCopy' /\ HeldIsOpen' /\ JoiningIsOpen' /\ ResolvedOnce'
  BY <1>1, <1>2, <1>3
  DEF SessionInv, OneCopy, HeldIsOpen, JoiningIsOpen, ResolvedOnce
<1>6. Control'
  BY <1>1 DEF CloseQueue, CloseOut, SessionInv, Control, IsEmpty
<1>7. NothingLost'
  BY <1>1, <1>2
  DEF SessionInv, NothingLost, Held, InQueue, InWorkers, Resolved
<1> QED BY <1>4, <1>5, <1>6, <1>7 DEF SessionInv

\* A step that moves one worker and keeps what it has left to report.
LEMMA PacingKeepsSession ==
  ASSUME TypeInv, SessionInv, NEW w \in Workers,
         Exit(w) \/ Judge(w) \/ DetectConsistency(w)
  PROVE  SessionInv'
<1>1. UNCHANGED <<segs, loop, after, unit, timer, shedding, queue, queueClosed,
                  subtitled, results, ctxDone, outClosed>>
  BY DEF Exit, Judge, DetectConsistency, loopVars
<1>0. PICK st : /\ worker' = [worker EXCEPT ![w] = st]
                /\ st.todo = worker[w].todo
                /\ st.pc \in {"judge", "emit"} <=> worker[w].pc \in {"judge", "emit"}
                /\ st.pc = "exited" => queueClosed /\ queue = << >>
                /\ worker[w].pc # "exited"
  BY DEF Exit, Judge, DetectConsistency, IdleWorker, SessionInv, Control, TypeInv,
         TypeOK
<1>2. /\ worker'[w] = st
      /\ \A v \in Workers : v # w => worker'[v] = worker[v]
      /\ \A v \in Workers : worker'[v].todo = worker[v].todo
  BY <1>0 DEF TypeInv, TypeOK
<1>3. Joining' = Joining
  BY <1>1 DEF Joining, Latest
<1>4. (\A i : Queued(i)' <=> Queued(i)) /\ (\A i : Scoring(i)' <=> Scoring(i))
  BY <1>1, <1>2 DEF Queued, Scoring
<1>5. Captions' /\ OneCopy' /\ HeldIsOpen' /\ JoiningIsOpen' /\ ResolvedOnce'
  BY <1>1, <1>2, <1>3, <1>4
  DEF SessionInv, Captions, Received, OneCopy, HeldIsOpen, JoiningIsOpen,
      ResolvedOnce
<1>6. /\ \A v \in Workers : worker'[v].pc \in {"judge", "emit"}
                              <=> worker'[v].todo # {}
      /\ \A v \in Workers : worker'[v].pc = "exited" => queueClosed /\ queue = << >>
      /\ \A v \in Workers : worker[v].pc = "exited" => worker'[v].pc = "exited"
  <2>1. ASSUME NEW v \in Workers
        PROVE  /\ worker'[v].pc \in {"judge", "emit"} <=> worker'[v].todo # {}
               /\ worker'[v].pc = "exited" => queueClosed /\ queue = << >>
               /\ worker[v].pc = "exited" => worker'[v].pc = "exited"
    <3>1. CASE v = w
      BY <1>0, <1>2, <3>1 DEF SessionInv, Control
    <3>2. CASE v # w
      BY <1>2, <3>2 DEF SessionInv, Control
    <3> QED BY <3>1, <3>2
  <2> QED BY <2>1
<1>7. Control'
  BY <1>1, <1>6 DEF SessionInv, Control, IsEmpty
<1>8. TypeInv'
  BY TypeInvWorker DEF WorkerStep
<1>9. NothingLost'
  BY <1>1, <1>3, <1>4, <1>8, NothingLostPointwise, NothingLostPointwiseNext
  DEF SessionInv, Place
<1> QED BY <1>5, <1>7, <1>9 DEF SessionInv

LEMMA TakeKeepsSession ==
  ASSUME TypeInv, SessionInv, NEW w \in Workers, Take(w)
  PROVE  SessionInv'
<1> DEFINE h == Head(queue)
<1>1. UNCHANGED <<segs, loop, after, unit, timer, shedding, queueClosed,
                  subtitled, results, ctxDone, outClosed>>
  BY DEF Take, loopVars
<1>2. /\ worker[w].pc = "idle" /\ queue # << >> /\ queue' = Tail(queue)
      /\ worker' = [worker EXCEPT ![w] = [pc |-> "judge", pu |-> Head(queue),
                                          todo |-> Head(queue).members,
                                          outcome |-> "failed"]]
  BY DEF Take
<1>3. /\ worker'[w].pc = "judge" /\ worker'[w].todo = h.members
      /\ \A v \in Workers : v # w => worker'[v] = worker[v]
  BY <1>2 DEF TypeInv, TypeOK
<1>4. worker[w].todo = {} /\ \A v \in Workers : worker[v].pc # "exited"
  BY <1>2 DEF SessionInv, Control
<1>5. /\ Len(queue') = Len(queue) - 1 /\ Len(queue) \in Nat
      /\ \A k \in 1 .. Len(queue') : queue'[k] = queue[k + 1]
      /\ Len(queue) >= 1 /\ h = queue[1]
      /\ \A i : Queued(i) <=> Queued(i)' \/ i \in h.members
  <2>1. queue \in Seq(PendingUnits)
    BY DEF TypeInv, TypeOK
  <2> QED BY <1>2, <2>1, QueuedTail
<1>6. h.members # {} /\ \A i \in h.members : i \in Ids /\ ~Queued(i)'
  <2>1. h.members # {}
    <3>1. \A k \in 1 .. Len(queue) : queue[k].members # {}
      BY DEF SessionInv, Control
    <3>2. 1 \in 1 .. Len(queue) /\ h = queue[1]
      BY <1>5
    <3> QED BY <3>1, <3>2
  <2>2. ASSUME NEW i \in h.members PROVE ~Queued(i)'
    <3>1. ASSUME NEW k \in 1 .. Len(queue'), i \in queue'[k].members PROVE FALSE
      <4>1. k + 1 \in 1 .. Len(queue) /\ 1 \in 1 .. Len(queue) /\ k + 1 # 1
            /\ i \in queue[k + 1].members /\ i \in queue[1].members
        BY <1>5, <3>1
      <4> QED BY <4>1 DEF SessionInv, OneCopy
    <3> QED BY <3>1 DEF Queued
  <2>3. h \in PendingUnits
    BY <1>2 DEF TypeInv, TypeOK
  <2> QED BY <2>1, <2>2, <2>3 DEF PendingUnits
<1> HIDE DEF h
<1>7. \A i : Scoring(i)' <=> Scoring(i) \/ i \in h.members
  BY <1>3, <1>4 DEF Scoring
<1>8. Joining' = Joining
  BY <1>1 DEF Joining, Latest
<1>9. Captions' /\ JoiningIsOpen' /\ ResolvedOnce'
  BY <1>1, <1>8
  DEF SessionInv, Captions, Received, JoiningIsOpen, ResolvedOnce
<1>10. Control'
  <2>1. \A k \in 1 .. Len(queue') : queue'[k].members # {}
    <3>1. ASSUME NEW k \in 1 .. Len(queue') PROVE queue'[k].members # {}
      <4>1. k + 1 \in 1 .. Len(queue) /\ queue'[k] = queue[k + 1]
        BY <1>5
      <4> QED BY <4>1 DEF SessionInv, Control
    <3> QED BY <3>1
  <2>2. ASSUME NEW v \in Workers
        PROVE  /\ worker'[v].pc \in {"judge", "emit"} <=> worker'[v].todo # {}
               /\ worker'[v].pc # "exited"
    <3>1. CASE v = w
      BY <1>3, <1>6, <3>1
    <3>2. CASE v # w
      BY <1>3, <1>4, <3>2 DEF SessionInv, Control
    <3> QED BY <3>1, <3>2
  <2>3. loop # "closed"
    BY <1>4, WorkersAssumption DEF SessionInv, Control
  <2> QED BY <1>1, <2>1, <2>2, <2>3 DEF SessionInv, Control, IsEmpty
<1>11. OneCopy'
  <2>1. ASSUME NEW k \in 1 .. Len(queue'), NEW l \in 1 .. Len(queue'), k # l
        PROVE  queue'[k].members \cap queue'[l].members = {}
    <3>1. /\ k + 1 \in 1 .. Len(queue) /\ l + 1 \in 1 .. Len(queue)
          /\ k + 1 # l + 1
          /\ queue'[k] = queue[k + 1] /\ queue'[l] = queue[l + 1]
      BY <1>5, <2>1
    <3> QED BY <3>1 DEF SessionInv, OneCopy
  <2>2. ASSUME NEW u \in Workers, NEW v \in Workers, u # v
        PROVE  worker'[u].todo \cap worker'[v].todo = {}
    <3>1. \A x \in Workers : x # w => worker[x].todo \cap h.members = {}
      BY <1>5, <1>6 DEF SessionInv, OneCopy, Scoring
    <3> QED BY <1>3, <2>2, <3>1 DEF SessionInv, OneCopy
  <2>3. \A i \in unit.members \cup shedding : ~(Queued(i)' \/ Scoring(i)')
    BY <1>5, <1>7 DEF SessionInv, OneCopy
  <2>4. \A i \in Ids : ~(Queued(i)' /\ Scoring(i)')
    BY <1>5, <1>6, <1>7 DEF SessionInv, OneCopy
  <2> QED BY <1>1, <2>1, <2>2, <2>3, <2>4 DEF SessionInv, OneCopy
<1>12. HeldIsOpen'
  BY <1>1, <1>5, <1>7, <1>8 DEF SessionInv, HeldIsOpen
<1>13. NothingLost'
  <2>1. TypeInv'
    BY TypeInvWorker DEF WorkerStep
  <2> QED BY <1>1, <1>5, <1>7, <1>8, <2>1,
             NothingLostPointwise, NothingLostPointwiseNext
          DEF SessionInv, Place
<1> QED BY <1>9, <1>10, <1>11, <1>12, <1>13 DEF SessionInv

LEMMA EmitResultKeepsSession ==
  ASSUME TypeInv, SessionInv, NEW w \in Workers, EmitResult(w)
  PROVE  SessionInv'
<1>1. UNCHANGED <<segs, loop, after, unit, timer, shedding, queue, queueClosed,
                  subtitled, ctxDone, outClosed>>
  BY DEF EmitResult, loopVars
<1>2. worker[w].pc = "emit" /\ worker[w].todo # {} /\ worker[w].todo \subseteq Ids
  <2>1. worker[w].pc = "emit"
    BY DEF EmitResult
  <2> QED BY <2>1 DEF SessionInv, Control, TypeInv, TypeOK
<1>3. PICK i \in worker[w].todo : i = FirstOf(worker[w].todo)
  BY <1>2, FirstOfMember
<1>4. Joining' = Joining /\ (\A j : Queued(j)' <=> Queued(j))
  BY <1>1 DEF Joining, Latest, Queued
<1>5. /\ i \in Ids /\ i \in subtitled \ Joining /\ results[i] = << >>
      /\ ~(i \in unit.members \/ i \in shedding \/ Queued(i))
      /\ \A v \in Workers : v # w => i \notin worker[v].todo
  <2>1. i \in Ids /\ Scoring(i)
    BY <1>2, <1>3 DEF Scoring
  <2> QED BY <1>3, <2>1 DEF SessionInv, HeldIsOpen, OneCopy
<1>6. TypeInv'
  BY TypeInvWorker DEF WorkerStep
<1>a. CASE /\ Deliver(i, worker[w].outcome)
           /\ worker' = [worker EXCEPT ![w] =
                IF worker[w].todo # {i} THEN [worker[w] EXCEPT !.todo = @ \ {i}]
                ELSE IF ChecksConsistency(worker[w])
                     THEN [worker[w] EXCEPT !.todo = {}, !.pc = "consistency"]
                     ELSE IdleWorker]
  <2>1. /\ worker'[w].todo = worker[w].todo \ {i}
        /\ worker'[w].pc \in {"judge", "emit"} <=> worker'[w].todo # {}
        /\ worker'[w].pc # "exited"
        /\ \A v \in Workers : v # w => worker'[v] = worker[v]
    <3>1. PICK st : worker' = [worker EXCEPT ![w] = st]
      BY <1>a
    <3>2. worker'[w] = (IF worker[w].todo # {i}
                        THEN [worker[w] EXCEPT !.todo = @ \ {i}]
                        ELSE IF ChecksConsistency(worker[w])
                        THEN [worker[w] EXCEPT !.todo = {}, !.pc = "consistency"]
                        ELSE IdleWorker)
          /\ \A v \in Workers : v # w => worker'[v] = worker[v]
      BY <1>a DEF TypeInv, TypeOK
    <3>3. worker[w] \in [pc : WorkerPoints, pu : PendingUnits,
                         todo : SUBSET Ids, outcome : Outcomes]
      BY DEF TypeInv, TypeOK
    <3> QED BY <1>2, <1>3, <3>2, <3>3 DEF IdleWorker
  <2>2. \A j : Scoring(j)' <=> Scoring(j) /\ j # i
    BY <1>3, <1>5, <2>1 DEF Scoring
  <2>3. /\ results'[i] # << >> /\ Len(results'[i]) = 1
        /\ \A j \in Ids : j # i => results'[j] = results[j]
    BY <1>a, <1>5, DeliverOne
  <2>4. Captions'
    BY <1>1, <1>4 DEF SessionInv, Captions, Received
  <2>5. Control'
    <3>1. ASSUME NEW v \in Workers
          PROVE  /\ worker'[v].pc \in {"judge", "emit"} <=> worker'[v].todo # {}
                 /\ worker'[v].pc = "exited" => queueClosed /\ queue = << >>
                 /\ worker[v].pc = "exited" => worker'[v].pc = "exited"
      <4>1. CASE v = w
        BY <1>2, <2>1, <4>1
      <4>2. CASE v # w
        BY <2>1, <4>2 DEF SessionInv, Control
      <4> QED BY <4>1, <4>2
    <3> QED BY <1>1, <3>1 DEF SessionInv, Control, IsEmpty
  <2>6. OneCopy'
    <3>1. ASSUME NEW u \in Workers, NEW v \in Workers, u # v
          PROVE  worker'[u].todo \cap worker'[v].todo = {}
      BY <2>1, <3>1 DEF SessionInv, OneCopy
    <3> QED BY <1>1, <1>4, <2>2, <3>1 DEF SessionInv, OneCopy
  <2>7. HeldIsOpen'
    BY <1>1, <1>4, <1>5, <2>2, <2>3 DEF SessionInv, HeldIsOpen
  <2>8. JoiningIsOpen'
    BY <1>4, <1>5, <2>3, JoiningIsId DEF SessionInv, JoiningIsOpen
  <2>9. ResolvedOnce'
    <3>1. ASSUME NEW j \in Ids
          PROVE  Len(results'[j]) <= 1 /\ (results'[j] # << >> => j \in subtitled')
      <4>1. Len(results[j]) <= 1 /\ (results[j] # << >> => j \in subtitled)
        BY DEF SessionInv, ResolvedOnce
      <4>2. CASE j = i
        <5>1. Len(results'[i]) = 1 /\ 1 <= 1
          BY <2>3
        <5>2. i \in subtitled'
          BY <1>1, <1>5
        <5> QED BY <4>2, <5>1, <5>2
      <4>3. CASE j # i
        BY <1>1, <2>3, <4>1, <4>3
      <4> QED BY <4>2, <4>3
    <3> QED BY <3>1 DEF ResolvedOnce
  <2>10. NothingLost'
    <3>1. \A j \in subtitled : j \in Ids
      BY DEF TypeInv, TypeOK
    <3> QED BY <1>1, <1>4, <1>6, <2>2, <2>3, <3>1,
               NothingLostPointwise, NothingLostPointwiseNext
            DEF SessionInv, Place
  <2> QED BY <2>4, <2>5, <2>6, <2>7, <2>8, <2>9, <2>10 DEF SessionInv
<1>b. CASE /\ ctxDone /\ worker' = [worker EXCEPT ![w] = IdleWorker]
           /\ UNCHANGED results
  <2>1. /\ worker'[w] = IdleWorker
        /\ \A v \in Workers : v # w => worker'[v] = worker[v]
    BY <1>b DEF TypeInv, TypeOK
  <2>2. worker'[w].todo = {} /\ worker'[w].pc = "idle"
    BY <2>1 DEF IdleWorker
  <2>3. \A j : Scoring(j)' => Scoring(j)
    BY <2>1, <2>2 DEF Scoring
  <2>4. Captions' /\ JoiningIsOpen' /\ ResolvedOnce'
    BY <1>1, <1>4, <1>b
    DEF SessionInv, Captions, Received, JoiningIsOpen, ResolvedOnce
  <2>5. Control'
    <3>1. ASSUME NEW v \in Workers
          PROVE  /\ worker'[v].pc \in {"judge", "emit"} <=> worker'[v].todo # {}
                 /\ worker'[v].pc = "exited" => queueClosed /\ queue = << >>
                 /\ worker[v].pc = "exited" => worker'[v].pc = "exited"
      <4>1. CASE v = w
        BY <1>2, <2>2, <4>1
      <4>2. CASE v # w
        BY <2>1, <4>2 DEF SessionInv, Control
      <4> QED BY <4>1, <4>2
    <3> QED BY <1>1, <3>1 DEF SessionInv, Control, IsEmpty
  <2>6. OneCopy'
    <3>1. ASSUME NEW u \in Workers, NEW v \in Workers, u # v
          PROVE  worker'[u].todo \cap worker'[v].todo = {}
      BY <2>1, <2>2, <3>1 DEF SessionInv, OneCopy
    <3> QED BY <1>1, <1>4, <2>3, <3>1 DEF SessionInv, OneCopy
  <2>7. HeldIsOpen'
    BY <1>1, <1>4, <1>b, <2>3 DEF SessionInv, HeldIsOpen
  <2>8. NothingLost'
    BY <1>1, <1>b DEF NothingLost
  <2> QED BY <2>4, <2>5, <2>6, <2>7, <2>8 DEF SessionInv
<1> QED BY <1>3, <1>a, <1>b DEF EmitResult

LEMMA SessionInvStep ==
  ASSUME TypeInv, SessionInv, [Next]_vars
  PROVE  SessionInv'
<1>1. CASE LoopStep
  <2>1. CASE SelectCancelled
    BY <2>1, GotoKeepsSession DEF SelectCancelled
  <2>2. CASE IdleHold
    BY <2>2, SessionFrame DEF IdleHold
  <2>3. CASE IdleFlush
    <3>1. ~IsEmpty(unit)
      BY <2>3 DEF IdleFlush, SessionInv, Control
    <3> QED BY <2>3, <3>1, FlushKeepsSession DEF IdleFlush
  <2>4. CASE ReceiveInterim
    BY <2>4, GotoKeepsSession DEF ReceiveInterim
  <2>5. CASE EmitInterim
    BY <2>5, GotoKeepsSession DEF EmitInterim
  <2>6. CASE ReceiveFinal
    BY <2>6, ReceiveFinalKeepsSession
  <2>7. CASE EmitSubtitle
    BY <2>7, EmitSubtitleKeepsSession
  <2>8. CASE FlushBoundary
    BY <2>8, FlushKeepsSession DEF FlushBoundary, Boundary
  <2>9. CASE AddSegment
    BY <2>9, AddSegmentKeepsSession
  <2>10. CASE FlushFull
    <3>1. ~IsEmpty(unit)
      BY <2>10 DEF FlushFull, SessionInv, Control
    <3> QED BY <2>10, <3>1, FlushKeepsSession DEF FlushFull
  <2>11. CASE EndOfStream
    BY <2>11, FlushKeepsSession, GotoKeepsSession DEF EndOfStream
  <2>12. CASE EmitShed
    BY <2>12, EmitShedKeepsSession
  <2>13. CASE CloseQueue \/ CloseOut
    BY <2>13, ClosingKeepsSession
  <2> QED BY <1>1, <2>1, <2>2, <2>3, <2>4, <2>5, <2>6, <2>7, <2>8, <2>9, <2>10,
             <2>11, <2>12, <2>13 DEF LoopStep
<1>2. CASE \E w \in Workers : WorkerStep(w)
  <2>1. PICK w \in Workers : WorkerStep(w)
    BY <1>2
  <2> QED BY <2>1, TakeKeepsSession, EmitResultKeepsSession, PacingKeepsSession
      DEF WorkerStep
<1>3. CASE ProviderEnds
  BY <1>3, SessionFrame DEF ProviderEnds
<1>4. CASE Cancel
  <2>1. UNCHANGED <<segs, loop, after, unit, timer, shedding, queue, queueClosed,
                    worker, subtitled, results, outClosed>> /\ ctxDone' = TRUE
    BY <1>4 DEF Cancel
  <2> QED BY <2>1
      DEF SessionInv, Captions, Control, OneCopy, HeldIsOpen, JoiningIsOpen,
          ResolvedOnce, NothingLost, Joining, Queued, Scoring, Received, Latest,
          IsEmpty
<1>5. CASE UNCHANGED vars
  BY <1>5, SessionFrame DEF vars
<1> QED BY <1>1, <1>2, <1>3, <1>4, <1>5 DEF Next

LEMMA SessionInvInit == ASSUME Init PROVE SessionInv
<1>1. /\ segs = << >> /\ loop = "select" /\ unit.members = {} /\ timer = FALSE
      /\ shedding = {} /\ queue = << >> /\ ~queueClosed /\ subtitled = {}
      /\ ~outClosed /\ \A w \in Workers : worker[w] = IdleWorker
      /\ \A i \in Ids : results[i] = << >>
  BY DEF Init, EmptyUnit
<1>2. \A w \in Workers : worker[w].todo = {} /\ worker[w].pc = "idle"
  BY <1>1 DEF IdleWorker
<1>3. Len(queue) = 0 /\ Len(segs) = 0 /\ 1 .. 0 = {} /\ Joining = {}
  BY <1>1 DEF Joining
<1>4. (\A i : ~Queued(i)) /\ (\A i : ~Scoring(i))
  BY <1>2, <1>3 DEF Queued, Scoring
<1>5. Captions /\ JoiningIsOpen /\ HeldIsOpen
  BY <1>1, <1>3, <1>4 DEF Captions, Received, JoiningIsOpen, HeldIsOpen
<1>6. Control
  BY <1>1, <1>2, <1>3 DEF Control, IsEmpty
<1>7. OneCopy
  BY <1>1, <1>2, <1>3, <1>4 DEF OneCopy
<1>8. ResolvedOnce /\ NothingLost
  <2>1. Len(<< >>) <= 1
    OBVIOUS
  <2> QED BY <1>1, <2>1 DEF ResolvedOnce, NothingLost
<1> QED BY <1>5, <1>6, <1>7, <1>8 DEF SessionInv

\* The bookkeeping of the loop, the queue and the pool never loses or copies a
\* statement: the inductive invariant holds in every session.
THEOREM SessionCorrect == Spec => [](TypeInv /\ SessionInv)
<1>1. Init => TypeInv /\ SessionInv
  BY TypeInvInit, SessionInvInit
<1>2. TypeInv /\ SessionInv /\ [Next]_vars => (TypeInv /\ SessionInv)'
  BY TypeInvStep, SessionInvStep
<1> QED BY <1>1, <1>2, PTL DEF Spec

\* No statement is resolved twice, and none before its subtitle, whatever the
\* pool, the queue and the cap are.
THEOREM StatementsResolvedOnce == Spec => []ResolvedOnce
<1>1. SessionInv => ResolvedOnce
  BY DEF SessionInv
<1> QED BY <1>1, SessionCorrect, PTL

\* Until it is cancelled, a session of any size loses no captioned statement.
THEOREM StatementsNeverLost == Spec => []NothingLost
<1>1. SessionInv => NothingLost
  BY DEF SessionInv
<1> QED BY <1>1, SessionCorrect, PTL

\* The loop never waits on a buffered unit without a timer to flush it.
THEOREM TimerAlwaysGuards == Spec => []TimerGuardsUnit
<1>1. SessionInv => TimerGuardsUnit
  BY DEF SessionInv, Control, TimerGuardsUnit
<1> QED BY <1>1, SessionCorrect, PTL

-----------------------------------------------------------------------------
(* The session implements its promise to the consumer.                     *)

\* A step that sends nothing stutters.
LEMMA SilentStep ==
  ASSUME UNCHANGED <<subtitled, results, ctxDone, outClosed>>
  PROVE  UNCHANGED Promise!svars
  BY DEF Promise!svars, Resolved

\* Delivering a result to an open statement resolves it.
LEMMA DeliverResolves ==
  ASSUME TypeInv, SessionInv, NEW i \in subtitled, NEW kind,
         results[i] = << >>, Deliver(i, kind), ~outClosed,
         UNCHANGED <<subtitled, ctxDone, outClosed>>
  PROVE  Promise!Next
<1>1. i \in Ids
  BY DEF TypeInv, TypeOK
<1>2. /\ results'[i] # << >>
      /\ \A j \in Ids : j # i => results'[j] = results[j]
  BY <1>1, DeliverOne
<1>3. Resolved' = Resolved \cup {i} /\ i \notin Resolved
  BY <1>1, <1>2 DEF Resolved
<1>4. Promise!Resolve(i)
  BY <1>3 DEF Promise!Resolve
<1>5. i \in Promise!StatementIds
  BY <1>1 DEF Promise!StatementIds, Ids
<1> QED BY <1>4, <1>5 DEF Promise!Next

\* When the loop and every worker are done, nothing is held any more.
LEMMA DrainedIsResolved ==
  ASSUME TypeInv, SessionInv, loop = "waiting",
         \A w \in Workers : worker[w].pc = "exited", ~ctxDone
  PROVE  subtitled = Resolved
<1>1. unit.members = {} /\ shedding = {} /\ queue = << >>
      /\ \A w \in Workers : worker[w].todo = {}
  BY WorkersAssumption DEF SessionInv, Control, IsEmpty
<1>2. Held = {}
  <2>1. Joining = {}
    BY DEF Joining
  <2>2. \A i : ~Queued(i)
    <3>1. Len(queue) = 0
      BY <1>1
    <3> QED BY <3>1 DEF Queued
  <2> QED BY <1>1, <2>1, <2>2, HeldIsPlace DEF Place, Scoring
<1>3. subtitled \subseteq Resolved
  BY <1>2 DEF SessionInv, NothingLost
<1>4. Resolved \subseteq subtitled
  BY DEF SessionInv, ResolvedOnce, Resolved
<1> QED BY <1>3, <1>4

LEMMA StepKeepsPromise ==
  ASSUME TypeInv, SessionInv, [Next]_vars
  PROVE  [Promise!Next]_Promise!svars
<1>1. CASE LoopStep
  <2>1. CASE SelectCancelled \/ IdleHold \/ IdleFlush \/ ReceiveInterim
             \/ EmitInterim \/ ReceiveFinal \/ FlushBoundary \/ AddSegment
             \/ FlushFull \/ EndOfStream \/ CloseQueue
    <3>1. UNCHANGED <<subtitled, results, ctxDone, outClosed>>
      BY <2>1 DEF SelectCancelled, IdleHold, IdleFlush, ReceiveInterim,
                  EmitInterim, ReceiveFinal, FlushBoundary, AddSegment,
                  FlushFull, EndOfStream, CloseQueue, Goto, Flush
    <3> QED BY <3>1, SilentStep
  <2>2. CASE EmitSubtitle
    <3>1. UNCHANGED <<results, ctxDone, outClosed>> /\ ~outClosed
      BY <2>2 DEF EmitSubtitle, SessionInv, Control
    <3>2. Resolved' = Resolved
      BY <3>1 DEF Resolved
    <3>3. CASE subtitled' = subtitled \cup {Latest}
      <4>1. subtitled = 1 .. Latest - 1 /\ segs # << >>
        BY <2>2 DEF EmitSubtitle, SessionInv, Captions, Latest
      <4>2. Latest \in Promise!StatementIds
        BY <4>1, BoundsAssumption
        DEF TypeInv, TypeOK, Latest, Promise!StatementIds
      <4>3. Promise!Caption(Latest)
        BY <3>1, <3>2, <3>3, <4>1 DEF Promise!Caption
      <4> QED BY <4>2, <4>3 DEF Promise!Next
    <3>4. CASE UNCHANGED subtitled
      BY <3>1, <3>4, SilentStep
    <3> QED BY <2>2, <3>3, <3>4 DEF EmitSubtitle
  <2>3. CASE EmitShed
    <3>1. UNCHANGED <<subtitled, ctxDone, outClosed>> /\ ~outClosed
      BY <2>3 DEF EmitShed, SessionInv, Control
    <3>2. shedding # {} /\ shedding \subseteq Ids
      BY <2>3 DEF EmitShed, SessionInv, Control, TypeInv, TypeOK
    <3>3. PICK i \in shedding : i = FirstOf(shedding)
      BY <3>2, FirstOfMember
    <3>4. i \in subtitled /\ results[i] = << >>
      BY <3>2, <3>3 DEF SessionInv, HeldIsOpen
    <3>5. CASE Deliver(i, "not_checked")
      BY <3>1, <3>4, <3>5, DeliverResolves
    <3>6. CASE UNCHANGED results
      BY <3>1, <3>6, SilentStep
    <3> QED BY <2>3, <3>3, <3>5, <3>6 DEF EmitShed
  <2>4. CASE CloseOut
    <3>1. /\ UNCHANGED <<subtitled, results, ctxDone>> /\ ~outClosed
          /\ outClosed' = TRUE /\ loop = "waiting"
          /\ \A w \in Workers : worker[w].pc = "exited"
      BY <2>4 DEF CloseOut, SessionInv, Control
    <3>2. Resolved' = Resolved
      BY <3>1 DEF Resolved
    <3>3. ctxDone \/ subtitled = Resolved
      BY <3>1, DrainedIsResolved
    <3>4. Promise!Close
      BY <3>1, <3>2, <3>3 DEF Promise!Close
    <3> QED BY <3>4 DEF Promise!Next
  <2> QED BY <1>1, <2>1, <2>2, <2>3, <2>4 DEF LoopStep
<1>2. CASE \E w \in Workers : WorkerStep(w)
  <2>1. PICK w \in Workers : WorkerStep(w)
    BY <1>2
  <2>2. CASE Take(w) \/ Exit(w) \/ Judge(w) \/ DetectConsistency(w)
    <3>1. UNCHANGED <<subtitled, results, ctxDone, outClosed>>
      BY <2>2 DEF Take, Exit, Judge, DetectConsistency, loopVars
    <3> QED BY <3>1, SilentStep
  <2>3. CASE EmitResult(w)
    <3>1. UNCHANGED <<subtitled, ctxDone, outClosed>> /\ worker[w].pc = "emit"
      BY <2>3 DEF EmitResult, loopVars
    <3>2. ~outClosed /\ worker[w].todo # {} /\ worker[w].todo \subseteq Ids
      <4>1. worker[w].todo # {} /\ (outClosed => worker[w].pc = "exited")
        BY <3>1 DEF SessionInv, Control
      <4>2. worker[w].todo \subseteq Ids
        BY DEF TypeInv, TypeOK
      <4> QED BY <3>1, <4>1, <4>2
    <3>3. PICK i \in worker[w].todo : i = FirstOf(worker[w].todo)
      BY <3>2, FirstOfMember
    <3>4. i \in subtitled /\ results[i] = << >>
      <4>1. i \in Ids /\ Scoring(i)
        BY <3>2, <3>3 DEF Scoring
      <4> QED BY <4>1 DEF SessionInv, HeldIsOpen
    <3>5. CASE Deliver(i, worker[w].outcome)
      BY <3>1, <3>2, <3>4, <3>5, DeliverResolves
    <3>6. CASE UNCHANGED results
      BY <3>1, <3>6, SilentStep
    <3> QED BY <2>3, <3>3, <3>5, <3>6 DEF EmitResult
  <2> QED BY <2>1, <2>2, <2>3 DEF WorkerStep
<1>3. CASE ProviderEnds
  BY <1>3, SilentStep DEF ProviderEnds
<1>4. CASE Cancel
  <2>1. Resolved' = Resolved
    BY <1>4 DEF Cancel, Resolved
  <2>2. Promise!CancelSession
    BY <1>4, <2>1 DEF Cancel, Promise!CancelSession, TypeInv, TypeOK
  <2> QED BY <2>2 DEF Promise!Next
<1>5. CASE UNCHANGED vars
  BY <1>5, SilentStep DEF vars
<1> QED BY <1>1, <1>2, <1>3, <1>4, <1>5 DEF Next

\* A live session implements Statements: captions come in order, a result
\* follows its caption and comes once, and a stream that closes without having
\* been cancelled left no captioned statement unresolved.
THEOREM SessionKeepsPromise == Spec => ImplementsStatements
<1>1. Init => Promise!Init
  BY DEF Init, Promise!Init, Resolved
<1>2. TypeInv /\ SessionInv /\ [Next]_vars => [Promise!Next]_Promise!svars
  BY StepKeepsPromise
<1> QED BY <1>1, <1>2, SessionCorrect, PTL
        DEF Spec, ImplementsStatements, Promise!Spec

-----------------------------------------------------------------------------
(* What a unit holds: one speaker's segments, within the sentence cap.     *)

\* A unit's members are received segments that its label may speak for.
Fits(u) == /\ u.members \subseteq Received
           /\ \A i \in u.members : segs[i].speaker \in {Unknown, u.speaker}

\* A unit without members is the blank one: no label outlives a flush.
BlankIsBlank == IsEmpty(unit) => unit = EmptyUnit

\* Where the loop is, or is about to be, in its select.
Capped ==
  /\ unit.sentences > MaxSentences => Cardinality(unit.members) = 1
  /\ loop \in {"select", "interim"} => unit.sentences < MaxSentences

UnitInv == BlankIsBlank /\ Capped /\ \A u \in Units : Fits(u)

LEMMA BlankFits == Fits(NoUnit) /\ Fits(Pending(EmptyUnit))
BY DEF Fits, NoUnit, Pending, EmptyUnit

LEMMA BlankIsCapped ==
  /\ EmptyUnit.sentences = 0 /\ ~(EmptyUnit.sentences > MaxSentences)
  /\ EmptyUnit.sentences < MaxSentences
BY BoundsAssumption DEF EmptyUnit

\* Units that only move between places, or are dropped, still fit.
LEMMA UnitsMove ==
  ASSUME UnitInv, segs' = segs,
         \A u \in Units' : u \in Units \/ u = NoUnit \/ u = Pending(EmptyUnit)
  PROVE  \A u \in Units' : Fits(u)'
<1>1. \A u : Fits(u)' <=> Fits(u)
  BY DEF Fits, Received
<1> QED BY <1>1, BlankFits DEF UnitInv

LEMMA FlushKeepsUnits ==
  ASSUME TypeInv, UnitInv, NEW next, Flush(next)
  PROVE  UnitInv'
<1>1. unit' = EmptyUnit /\ segs' = segs /\ worker' = worker
  BY DEF Flush
<1>2. queue \in Seq(PendingUnits)
  BY DEF TypeInv, TypeOK
<1>3. ASSUME NEW k \in 1 .. Len(queue')
      PROVE  queue'[k] \in Units
  <2>1. CASE queue' = queue
    BY <1>3, <2>1 DEF Units
  <2>2. CASE queue' = Append(queue, Pending(unit))
    <3>1. k \in 1 .. Len(queue) \/ k = Len(queue) + 1
      BY <1>2, <1>3, <2>2
    <3>2. /\ k \in 1 .. Len(queue) => queue'[k] = queue[k]
          /\ k = Len(queue) + 1 => queue'[k] = Pending(unit)
      BY <1>2, <2>2
    <3> QED BY <3>1, <3>2 DEF Units
  <2> QED BY <2>1, <2>2 DEF Flush
<1>4. Pending(unit)' = Pending(EmptyUnit)
  BY <1>1 DEF Pending
<1>5. \A u \in Units' : u \in Units \/ u = Pending(EmptyUnit)
  BY <1>1, <1>3, <1>4 DEF Units
<1>6. BlankIsBlank' /\ Capped'
  BY <1>1, BlankIsCapped DEF BlankIsBlank, Capped
<1> QED BY <1>1, <1>5, <1>6, UnitsMove DEF UnitInv

\* The loop moves on with its unit, its queue and its workers as they are.
LEMMA StillKeepsUnits ==
  ASSUME UnitInv, UNCHANGED <<segs, unit, queue>>,
         \A w \in Workers : worker'[w].pu = worker[w].pu,
         loop' \in {"select", "interim"} =>
           loop \in {"select", "interim"} \/ IsEmpty(unit)
  PROVE  UnitInv'
<1>1. \A u \in Units' : u \in Units
  BY DEF Units, Pending
<1>2. BlankIsBlank'
  BY DEF UnitInv, BlankIsBlank, IsEmpty
<1>3. Capped'
  BY BlankIsCapped DEF UnitInv, BlankIsBlank, Capped
<1> QED BY <1>1, <1>2, <1>3, UnitsMove DEF UnitInv

LEMMA ReceiveFinalKeepsUnits ==
  ASSUME TypeInv, UnitInv, ReceiveFinal
  PROVE  UnitInv'
<1>1. PICK seg \in Segments : segs' = Append(segs, seg)
  BY DEF ReceiveFinal
<1>2. segs \in Seq(Segments)
  BY DEF TypeInv, TypeOK
<1>3. /\ Received \subseteq Received'
      /\ \A i \in Received : segs'[i] = segs[i]
  BY <1>1, <1>2 DEF Received
<1>4. UNCHANGED <<unit, queue, worker>> /\ loop' = "subtitle"
  BY DEF ReceiveFinal
<1>5. Units' = Units
  BY <1>4 DEF Units, Pending
<1>6. ASSUME NEW u \in Units PROVE Fits(u)'
  <2>1. Fits(u)
    BY <1>6 DEF UnitInv
  <2> QED BY <1>3, <2>1 DEF Fits
<1>7. BlankIsBlank' /\ Capped'
  BY <1>4 DEF UnitInv, BlankIsBlank, Capped, IsEmpty
<1> QED BY <1>5, <1>6, <1>7 DEF UnitInv

\* A segment joins only where Boundary lets it.
LEMMA AddSegmentKeepsUnits ==
  ASSUME TypeInv, UnitInv, AddSegment
  PROVE  UnitInv'
<1> DEFINE seg == segs[Latest]
<1>1. /\ ~Boundary(seg) /\ unit' = Add(unit, Latest, seg)
      /\ UNCHANGED <<segs, queue, worker>>
      /\ loop' = IF unit'.sentences >= MaxSentences THEN "full" ELSE "select"
  BY DEF AddSegment
<1>2. Latest \in Received /\ seg \in Segments
  BY DEF AddSegment, TypeInv, TypeOK, SegmentAtHand, Latest, Received
<1>3. unit'.sentences \in Nat /\ unit'.members = unit.members \cup {Latest}
  <2>1. unit' \in LiveUnits
    BY <1>1, <1>2, BoundsAssumption, AddTyped
       DEF TypeInv, TypeOK, Ids, Received
  <2> QED BY <1>1, <2>1 DEF LiveUnits, Add
<1>4. Capped'
  <2>1. unit'.sentences > MaxSentences => Cardinality(unit'.members) = 1
    <3>1. CASE IsEmpty(unit)
      <4>1. unit'.members = {Latest}
        BY <1>3, <3>1 DEF IsEmpty
      <4> QED BY <4>1, FS_Singleton
    <3>2. CASE ~IsEmpty(unit)
      <4>1. unit'.sentences = unit.sentences + SentenceCount(seg.shape)
        BY <1>1 DEF Add
      <4>2. ~(unit.sentences + SentenceCount(seg.shape) > MaxSentences)
        BY <1>1, <3>2 DEF Boundary
      <4> QED BY <4>1, <4>2
    <3> QED BY <3>1, <3>2
  <2>2. loop' \in {"select", "interim"} => unit'.sentences < MaxSentences
    BY <1>1, <1>3, BoundsAssumption
  <2> QED BY <2>1, <2>2 DEF Capped
<1>5. BlankIsBlank'
  BY <1>3 DEF BlankIsBlank, IsEmpty
<1>6. Fits(Pending(unit))'
  <2>1. Fits(Pending(unit))
    BY DEF UnitInv, Units
  <2>2. /\ unit'.speaker = IF unit.speaker = Unknown THEN seg.speaker ELSE unit.speaker
        /\ Pending(unit)'.members = unit.members \cup {Latest}
        /\ Pending(unit)'.speaker = unit'.speaker
    BY <1>1, <1>3 DEF Add, Pending
  <2>3. \A i \in unit.members : segs[i].speaker \in {Unknown, unit.speaker}
    BY <2>1 DEF Fits, Pending
  <2>4. seg.speaker \in {Unknown, unit'.speaker}
    <3>1. CASE IsEmpty(unit)
      <4>1. unit.speaker = Unknown
        BY <3>1 DEF UnitInv, BlankIsBlank, EmptyUnit
      <4> QED BY <2>2, <4>1
    <3>2. CASE ~IsEmpty(unit)
      BY <1>1, <2>2, <3>2 DEF Boundary, SameSpeaker
    <3> QED BY <3>1, <3>2
  <2>5. unit.members \subseteq Received
    BY <2>1 DEF Fits, Pending
  <2>6. \A u : Fits(u)' <=> Fits(u)
    BY <1>1 DEF Fits, Received
  <2>7. Fits(Pending(unit)')
    BY <1>2, <2>2, <2>3, <2>4, <2>5 DEF Fits
  <2> QED BY <2>6, <2>7
<1>7. ASSUME NEW u \in Units', u # Pending(unit)' PROVE Fits(u)'
  <2>1. u \in Units
    BY <1>1, <1>7 DEF Units, Pending
  <2> QED BY <1>1, <2>1 DEF UnitInv, Fits, Received
<1> QED BY <1>4, <1>5, <1>6, <1>7 DEF UnitInv

\* A worker takes the queue's head, keeps what it has or drops it.
LEMMA WorkerKeepsUnits ==
  ASSUME TypeInv, UnitInv, NEW w \in Workers, WorkerStep(w)
  PROVE  UnitInv'
<1>1. UNCHANGED <<segs, unit, loop>>
  BY DEF WorkerStep, Take, Exit, Judge, EmitResult, DetectConsistency, loopVars
<1>2. BlankIsBlank' /\ Capped'
  BY <1>1 DEF UnitInv, BlankIsBlank, Capped, IsEmpty
<1>3. /\ queue \in Seq(PendingUnits)
      /\ worker \in [Workers -> [pc : WorkerPoints, pu : PendingUnits,
                                 todo : SUBSET Ids, outcome : Outcomes]]
  BY DEF TypeInv, TypeOK
<1>4. CASE Take(w)
  <2>1. Head(queue) \in Units
    <3>1. Head(queue) = queue[1] /\ 1 \in 1 .. Len(queue)
      BY <1>3, <1>4 DEF Take
    <3> QED BY <3>1 DEF Units
  <2>2. \A k \in 1 .. Len(queue') : queue'[k] \in Units
    <3>1. \A k \in 1 .. Len(Tail(queue)) : /\ Tail(queue)[k] = queue[k + 1]
                                           /\ k + 1 \in 1 .. Len(queue)
      BY <1>3, <1>4 DEF Take
    <3> QED BY <1>4, <3>1 DEF Take, Units
  <2>3. \A v \in Workers : worker'[v].pu = worker[v].pu \/ worker'[v].pu = Head(queue)
    BY <1>3, <1>4 DEF Take
  <2>4. Pending(unit)' = Pending(unit)
    BY <1>1 DEF Pending
  <2>5. \A u \in Units' : u \in Units
    BY <2>1, <2>2, <2>3, <2>4 DEF Units
  <2> QED BY <1>1, <1>2, <2>5, UnitsMove DEF UnitInv
<1>5. CASE Exit(w) \/ Judge(w) \/ EmitResult(w) \/ DetectConsistency(w)
  <2>1. queue' = queue
    BY <1>5 DEF Exit, Judge, EmitResult, DetectConsistency
  <2>2. \A v \in Workers : worker'[v].pu = worker[v].pu \/ worker'[v].pu = NoUnit
    <3>1. IdleWorker.pu = NoUnit
      BY DEF IdleWorker
    <3>2. CASE Exit(w)
      BY <1>3, <3>2 DEF Exit
    <3>3. CASE Judge(w)
      BY <1>3, <3>3 DEF Judge
    <3>4. CASE EmitResult(w)
      <4>1. \A i : [worker[w] EXCEPT !.todo = @ \ {i}].pu = worker[w].pu
        BY <1>3
      <4>2. [worker[w] EXCEPT !.todo = {}, !.pc = "consistency"].pu = worker[w].pu
        BY <1>3
      <4>3. PICK st : worker' = [worker EXCEPT ![w] = st]
                      /\ st.pu \in {worker[w].pu, NoUnit}
        BY <3>1, <3>4, <4>1, <4>2 DEF EmitResult
      <4> QED BY <1>3, <4>3
    <3>5. CASE DetectConsistency(w)
      BY <1>3, <3>1, <3>5 DEF DetectConsistency
    <3> QED BY <1>5, <3>2, <3>3, <3>4, <3>5
  <2>3. Pending(unit)' = Pending(unit)
    BY <1>1 DEF Pending
  <2>4. \A u \in Units' : u \in Units \/ u = NoUnit
    BY <2>1, <2>2, <2>3 DEF Units
  <2> QED BY <1>1, <1>2, <2>4, UnitsMove DEF UnitInv
<1> QED BY <1>4, <1>5 DEF WorkerStep

LEMMA UnitInvInit == Init => UnitInv
<1> SUFFICES ASSUME Init PROVE UnitInv
  OBVIOUS
<1>1. unit = EmptyUnit /\ Len(queue) = 0 /\ \A w \in Workers : worker[w].pu = NoUnit
  BY DEF Init, IdleWorker
<1>2. \A u \in Units : u = NoUnit \/ u = Pending(EmptyUnit)
  BY <1>1 DEF Units
<1> QED BY <1>1, <1>2, BlankFits, BlankIsCapped DEF UnitInv, BlankIsBlank, Capped

LEMMA UnitInvStep == TypeInv /\ SessionInv /\ UnitInv /\ [Next]_vars => UnitInv'
<1> SUFFICES ASSUME TypeInv, SessionInv, UnitInv, [Next]_vars PROVE UnitInv'
  OBVIOUS
<1>1. CASE SelectCancelled \/ EmitInterim \/ ReceiveInterim \/ IdleHold \/ EmitSubtitle
  <2>1. /\ UNCHANGED <<segs, unit, queue, worker>>
        /\ loop' \in {"select", "interim"} => loop \in {"select", "interim"}
    BY <1>1 DEF SelectCancelled, EmitInterim, ReceiveInterim, IdleHold, EmitSubtitle,
                Goto
  <2> QED BY <2>1, StillKeepsUnits
<1>2. CASE EmitShed \/ CloseQueue \/ CloseOut
  <2>1. /\ UNCHANGED <<segs, unit, queue, worker>>
        /\ loop' \in {"select", "interim"} => loop = "shed"
    BY <1>2 DEF EmitShed, CloseQueue, CloseOut
  <2>2. loop = "shed" => IsEmpty(unit)
    BY DEF SessionInv, Control
  <2> QED BY <2>1, <2>2, StillKeepsUnits
<1>3. CASE IdleFlush \/ FlushBoundary \/ FlushFull
  BY <1>3, FlushKeepsUnits DEF IdleFlush, FlushBoundary, FlushFull
<1>4. CASE EndOfStream
  <2>1. CASE Goto("stopping")
    BY <2>1, StillKeepsUnits DEF Goto
  <2>2. CASE Flush("stopping")
    BY <2>2, FlushKeepsUnits
  <2> QED BY <1>4, <2>1, <2>2 DEF EndOfStream
<1>5. CASE ReceiveFinal
  BY <1>5, ReceiveFinalKeepsUnits
<1>6. CASE AddSegment
  BY <1>6, AddSegmentKeepsUnits
<1>7. ASSUME NEW w \in Workers, WorkerStep(w) PROVE UnitInv'
  BY <1>7, WorkerKeepsUnits
<1>8. CASE ProviderEnds \/ Cancel \/ UNCHANGED vars
  <2>1. UNCHANGED <<segs, unit, queue, worker, loop>>
    BY <1>8 DEF ProviderEnds, Cancel, vars
  <2> QED BY <2>1, StillKeepsUnits
<1> QED BY <1>1, <1>2, <1>3, <1>4, <1>5, <1>6, <1>7, <1>8 DEF Next, LoopStep

LEMMA UnitsInvariant == Spec => []UnitInv
<1>1. Init => UnitInv
  BY UnitInvInit
<1>2. TypeInv /\ SessionInv /\ UnitInv /\ [Next]_vars => UnitInv'
  BY UnitInvStep
<1> QED BY <1>1, <1>2, SessionCorrect, PTL DEF Spec

-----------------------------------------------------------------------------

\* No unit blends two known speakers, wherever it is: being accumulated, in the
\* queue or with a worker (Boundary, SameSpeaker and liveUnit.add together).
THEOREM UnitsHaveOneVoice == Spec => []OneVoice
<1>1. UnitInv => OneVoice
  BY DEF UnitInv, Fits, OneVoice
<1> QED BY <1>1, UnitsInvariant, PTL

\* A unit exceeds the sentence cap only as a single segment, and the loop never
\* waits with a unit that has reached it.
THEOREM UnitsKeepTheCap == Spec => []WithinCap
<1>1. UnitInv => WithinCap
  BY DEF UnitInv, Capped, WithinCap
<1> QED BY <1>1, UnitsInvariant, PTL

\* Everything the bookkeeping of a session promises at once: types, one place
\* for every open statement, units of one voice within the cap, and a timer for
\* whatever waits (analyzeLoop, dispatch and scoreUnit together).
THEOREM SessionIsSound == Spec => []SessionSound
<1>1. TypeOK /\ SessionInv /\ OneVoice /\ WithinCap /\ TimerGuardsUnit => SessionSound
  BY DEF SessionSound
<1> QED
  BY <1>1, TypeCorrect, SessionCorrect, UnitsHaveOneVoice, UnitsKeepTheCap,
     TimerAlwaysGuards, PTL

-----------------------------------------------------------------------------
(* The browser's live session.                                             *)

SocketIds == 1 .. MaxSeq
Alive == {"connecting", "streaming", "paused"}
SocketStates == {"unused", "connecting", "open", "closing", "closed"}
SocketRec == [state : SocketStates, replay : BOOLEAN, heard : Seq(Utterances), captions : Nat, results : SUBSET Nat]
MachineRec == [phase : Phases, attempts : 0 .. MaxAttempts + 1, wantsPlay : BOOLEAN]
HookRec == [seq : 0 .. MaxSeq + 1, base : 0 .. Length, capture : {"none", "gated", "forwarding"}, timer : BOOLEAN]

\* A socket has captioned no more than it heard, and answered no more than that.
SocketFits(k) == Len(k.heard) <= Length /\ k.captions <= Len(k.heard) /\ k.results \subseteq 1 .. k.captions

\* What the hook's dispatch works on.
BrowserTyped(h, socks, list, units) ==
  /\ h \in HookRec
  /\ socks \in [SocketIds -> SocketRec] /\ \A s \in SocketIds : SocketFits(socks[s])
  /\ list \in [Times -> Statements \cup {NoStatement}]
  /\ units \subseteq SocketIds \X Utterances

SocketLives(k) == k.state \in {"connecting", "open"}

\* Attempts are used up only by a session that failed, and a connection that
\* was made starts them again.
Attempted(m) ==
  /\ m.attempts = MaxAttempts + 1 => m.phase = "failed"
  /\ m.phase \in {"streaming", "paused"} => m.attempts = 0

\* Which socket is alive, and at what, by the phase.
SocketsAgree(m, h, socks) ==
  /\ \A s \in SocketIds : SocketLives(socks[s]) => s = h.seq /\ m.phase \in Alive
  /\ m.phase \in Alive => h.seq \in SocketIds
  /\ m.phase = "connecting" => socks[h.seq].state = "connecting"
  /\ m.phase \in {"streaming", "paused"} => socks[h.seq].state = "open"

HookAgrees(m, h) ==
  /\ h.timer <=> m.phase = "reconnecting"
  /\ h.capture = "forwarding" <=> m.phase = "streaming"

\* Where the present session's statements stand, and that there is none of a
\* session yet to come.
StandsInPlace(h, list) ==
  \A t \in Times : list[t] # NoStatement =>
    /\ list[t].session <= h.seq
    /\ list[t].session = h.seq => t = h.base + list[t].rel - 1

\* A statement being analysed without claims.
Waits(t, list, units) == list[t].status = "analysing" /\ <<list[t].session, list[t].rel>> \notin units

\* It awaits the present socket's answer.
Awaited(h, socks, list, units) ==
  \A t \in Times : Waits(t, list, units) =>
    /\ list[t].session = h.seq /\ h.seq \in SocketIds /\ socks[h.seq].state = "open"
    /\ list[t].rel \in 1 .. socks[h.seq].captions \ socks[h.seq].results

Agree(m, h, socks, list, units) ==
  /\ m \in MachineRec /\ BrowserTyped(h, socks, list, units)
  /\ Attempted(m) /\ SocketsAgree(m, h, socks) /\ HookAgrees(m, h)
  /\ StandsInPlace(h, list)

\* Between two sessions: no socket is alive, nothing waits.
Between(h, socks, list, units) ==
  /\ BrowserTyped(h, socks, list, units) /\ StandsInPlace(h, list) /\ h.capture # "forwarding"
  /\ \A s \in SocketIds : ~SocketLives(socks[s])
  /\ \A t \in Times : ~Waits(t, list, units)

PlayerOK == player \in [position : 0 .. Length, paused : BOOLEAN]
StoredOK == stored \in Seq(Utterances) /\ Len(stored) <= Length

BrowserInv ==
  /\ PlayerOK /\ StoredOK /\ Agree(machine, hook, sockets, shown, claims)
  /\ mounted \in BOOLEAN /\ (mounted => Awaited(hook, sockets, shown, claims)) /\ (~mounted => machine.phase = "idle")

-----------------------------------------------------------------------------
(* What the commands do.                                                   *)

Ctx(h, socks, list, units, p) ==
  [hook |-> h, sockets |-> socks, shown |-> list, claims |-> units, position |-> p]

OpenedHook(h, p) == [h EXCEPT !.seq = @ + 1, !.base = p]
OpenedSocks(h, socks) == [socks EXCEPT ![h.seq + 1] = [Unused EXCEPT !.state = "connecting"]]
ClosedHook(h) == [h EXCEPT !.seq = @ + 1]
Shut(k) == [k EXCEPT !.state = "closing"]
ClosedSocks(h, socks) ==
  [s \in SocketIds |-> IF s = h.seq /\ SocketLives(socks[s]) THEN Shut(socks[s]) ELSE socks[s]]
Captures(h, how) == [h EXCEPT !.capture = how]
Suspended(h) == [h EXCEPT !.capture = IF @ = "none" THEN @ ELSE "gated"]
Armed(h) == [h EXCEPT !.timer = TRUE]
Disarmed(h) == [h EXCEPT !.timer = FALSE]

LEMMA CommandEffects ==
  ASSUME NEW h, NEW socks, NEW list, NEW units, NEW p
  PROVE  LET c == Ctx(h, socks, list, units, p)
         IN /\ RunCommand(c, "openSocket") = Ctx(OpenedHook(h, p), OpenedSocks(h, socks), list, units, p)
            /\ RunCommand(c, "closeSocket") = Ctx(ClosedHook(h), ClosedSocks(h, socks), list, units, p)
            /\ RunCommand(c, "startCapture") = Ctx(Captures(h, "forwarding"), socks, list, units, p)
            /\ RunCommand(c, "resumeCapture") = Ctx(Captures(h, "forwarding"), socks, list, units, p)
            /\ RunCommand(c, "suspendCapture") = Ctx(Suspended(h), socks, list, units, p)
            /\ RunCommand(c, "stopCapture") = Ctx(Captures(h, "none"), socks, list, units, p)
            /\ RunCommand(c, "clearAnalysing") = Ctx(h, socks, ClearAnalysing(list), DropUnits(units, list), p)
            /\ RunCommand(c, "scheduleReconnect") = Ctx(Armed(h), socks, list, units, p)
            /\ RunCommand(c, "cancelReconnect") = Ctx(Disarmed(h), socks, list, units, p)
<1>. DEFINE c == Ctx(h, socks, list, units, p)
<1>1. RunCommand(c, "openSocket") = Ctx(OpenedHook(h, p), OpenedSocks(h, socks), list, units, p)
  <2>1. RunCommand(c, "openSocket") = OpenSocket(c)
    BY DEF RunCommand
  <2>2. OpenSocket(c) = [c EXCEPT !.hook = OpenedHook(h, p), !.sockets = OpenedSocks(h, socks)]
    BY DEF OpenSocket, Ctx, OpenedHook, OpenedSocks
  <2> QED BY <2>1, <2>2 DEF Ctx
<1>2. RunCommand(c, "closeSocket") = Ctx(ClosedHook(h), ClosedSocks(h, socks), list, units, p)
  <2>1. ClosedSocks(h, socks) =
          [s \in 1 .. MaxSeq |-> IF s = h.seq /\ socks[s].state \in {"connecting", "open"}
                                THEN [socks[s] EXCEPT !.state = "closing"] ELSE socks[s]]
    BY DEF ClosedSocks, SocketLives, SocketIds, Shut
  <2>2. RunCommand(c, "closeSocket") = CloseSocket(c)
    BY DEF RunCommand
  <2>3. CloseSocket(c) = [c EXCEPT !.hook.seq = @ + 1, !.sockets = ClosedSocks(h, socks)]
    BY <2>1 DEF CloseSocket, Ctx
  <2> QED BY <2>2, <2>3 DEF Ctx, ClosedHook
<1>3. RunCommand(c, "startCapture") = Ctx(Captures(h, "forwarding"), socks, list, units, p)
  BY DEF RunCommand, Ctx, Captures
<1>4. RunCommand(c, "resumeCapture") = Ctx(Captures(h, "forwarding"), socks, list, units, p)
  BY DEF RunCommand, Ctx, Captures
<1>5. RunCommand(c, "suspendCapture") = Ctx(Suspended(h), socks, list, units, p)
  BY DEF RunCommand, Ctx, Suspended
<1>6. RunCommand(c, "stopCapture") = Ctx(Captures(h, "none"), socks, list, units, p)
  BY DEF RunCommand, Ctx, Captures
<1>7. RunCommand(c, "clearAnalysing") = Ctx(h, socks, ClearAnalysing(list), DropUnits(units, list), p)
  BY DEF RunCommand, Ctx
<1>8. RunCommand(c, "scheduleReconnect") = Ctx(Armed(h), socks, list, units, p)
  BY DEF RunCommand, Ctx, Armed
<1>9. RunCommand(c, "cancelReconnect") = Ctx(Disarmed(h), socks, list, units, p)
  BY DEF RunCommand, Ctx, Disarmed
<1> QED BY <1>1, <1>2, <1>3, <1>4, <1>5, <1>6, <1>7, <1>8, <1>9

\* The commands one after the other.
LEMMA RunNone == ASSUME NEW c PROVE RunCommands(c, << >>) = c
BY DEF RunCommands

LEMMA RunOne == ASSUME NEW c, NEW i PROVE RunCommands(c, <<i>>) = RunCommand(c, i)
BY DEF RunCommands

LEMMA RunTwo == ASSUME NEW c, NEW i, NEW j PROVE RunCommands(c, <<i, j>>) = RunCommand(RunCommand(c, i), j)
BY DEF RunCommands

LEMMA RunThree ==
  ASSUME NEW c, NEW i, NEW j, NEW k
  PROVE  RunCommands(c, <<i, j, k>>) = RunCommand(RunCommand(RunCommand(c, i), j), k)
BY DEF RunCommands

LEMMA RunFour ==
  ASSUME NEW c, NEW i, NEW j, NEW k, NEW l
  PROVE  RunCommands(c, <<i, j, k, l>>) = RunCommand(RunCommand(RunCommand(RunCommand(c, i), j), k), l)
BY DEF RunCommands

\* What the reductions' lists of commands come to.
LEMMA ListEffects ==
  ASSUME NEW h, NEW socks, NEW list, NEW units, NEW p
  PROVE  LET c == Ctx(h, socks, list, units, p)
             clear == ClearAnalysing(list)
             kept == DropUnits(units, list)
             left == Captures(ClosedHook(h), "none")
             so == ClosedSocks(h, socks)
             still == Disarmed(h)
         IN /\ RunCommands(c, << >>) = c
            /\ RunCommands(c, <<"openSocket">>) = Ctx(OpenedHook(h, p), OpenedSocks(h, socks), list, units, p)
            /\ RunCommands(c, <<"startCapture">>) = Ctx(Captures(h, "forwarding"), socks, list, units, p)
            /\ RunCommands(c, <<"resumeCapture">>) = Ctx(Captures(h, "forwarding"), socks, list, units, p)
            /\ RunCommands(c, <<"suspendCapture">>) = Ctx(Suspended(h), socks, list, units, p)
            /\ RunCommands(c, <<"stopCapture">>) = Ctx(Captures(h, "none"), socks, list, units, p)
            /\ RunCommands(c, <<"cancelReconnect">>) = Ctx(still, socks, list, units, p)
            /\ RunCommands(c, <<"stopCapture", "clearAnalysing">>) = Ctx(Captures(h, "none"), socks, clear, kept, p)
            /\ RunCommands(c, <<"stopCapture", "clearAnalysing", "scheduleReconnect">>)
                 = Ctx(Armed(Captures(h, "none")), socks, clear, kept, p)
            /\ RunCommands(c, <<"cancelReconnect", "clearAnalysing">>) = Ctx(still, socks, clear, kept, p)
            /\ RunCommands(c, <<"cancelReconnect", "clearAnalysing", "openSocket">>)
                 = Ctx(OpenedHook(still, p), OpenedSocks(still, socks), clear, kept, p)
            /\ RunCommands(c, <<"closeSocket", "stopCapture", "cancelReconnect">>) = Ctx(Disarmed(left), so, list, units, p)
            /\ RunCommands(c, <<"closeSocket", "stopCapture", "clearAnalysing">>) = Ctx(left, so, clear, kept, p)
            /\ RunCommands(c, <<"closeSocket", "stopCapture", "clearAnalysing", "openSocket">>)
                 = Ctx(OpenedHook(left, p), OpenedSocks(left, so), clear, kept, p)
<1>. DEFINE c == Ctx(h, socks, list, units, p)
            clear == ClearAnalysing(list)
            kept == DropUnits(units, list)
            quiet == Captures(h, "none")
            closed == ClosedHook(h)
            left == Captures(closed, "none")
            so == ClosedSocks(h, socks)
            still == Disarmed(h)
<1>1. /\ RunCommands(c, << >>) = c
      /\ RunCommands(c, <<"openSocket">>) = Ctx(OpenedHook(h, p), OpenedSocks(h, socks), list, units, p)
      /\ RunCommands(c, <<"startCapture">>) = Ctx(Captures(h, "forwarding"), socks, list, units, p)
      /\ RunCommands(c, <<"resumeCapture">>) = Ctx(Captures(h, "forwarding"), socks, list, units, p)
      /\ RunCommands(c, <<"suspendCapture">>) = Ctx(Suspended(h), socks, list, units, p)
      /\ RunCommands(c, <<"stopCapture">>) = Ctx(quiet, socks, list, units, p)
      /\ RunCommands(c, <<"cancelReconnect">>) = Ctx(still, socks, list, units, p)
  BY RunNone, RunOne, CommandEffects
<1>2. RunCommand(c, "stopCapture") = Ctx(quiet, socks, list, units, p)
  BY CommandEffects
<1>3. RunCommand(Ctx(quiet, socks, list, units, p), "clearAnalysing") = Ctx(quiet, socks, clear, kept, p)
  BY CommandEffects
<1>4. RunCommand(Ctx(quiet, socks, clear, kept, p), "scheduleReconnect") = Ctx(Armed(quiet), socks, clear, kept, p)
  BY CommandEffects
<1>5. RunCommand(c, "cancelReconnect") = Ctx(still, socks, list, units, p)
  BY CommandEffects
<1>6. RunCommand(Ctx(still, socks, list, units, p), "clearAnalysing") = Ctx(still, socks, clear, kept, p)
  BY CommandEffects
<1>7. RunCommand(Ctx(still, socks, clear, kept, p), "openSocket") = Ctx(OpenedHook(still, p), OpenedSocks(still, socks), clear, kept, p)
  BY CommandEffects
<1>8. RunCommand(c, "closeSocket") = Ctx(closed, so, list, units, p)
  BY CommandEffects
<1>9. RunCommand(Ctx(closed, so, list, units, p), "stopCapture") = Ctx(left, so, list, units, p)
  BY CommandEffects
<1>10. RunCommand(Ctx(left, so, list, units, p), "clearAnalysing") = Ctx(left, so, clear, kept, p)
  BY CommandEffects
<1>11. RunCommand(Ctx(left, so, clear, kept, p), "openSocket") = Ctx(OpenedHook(left, p), OpenedSocks(left, so), clear, kept, p)
  BY CommandEffects
<1>12. RunCommand(Ctx(left, so, list, units, p), "cancelReconnect") = Ctx(Disarmed(left), so, list, units, p)
  BY CommandEffects
<1>13. /\ RunCommands(c, <<"stopCapture", "clearAnalysing">>) = Ctx(quiet, socks, clear, kept, p)
       /\ RunCommands(c, <<"cancelReconnect", "clearAnalysing">>) = Ctx(still, socks, clear, kept, p)
  BY <1>2, <1>3, <1>5, <1>6, RunTwo
<1>14. /\ RunCommands(c, <<"stopCapture", "clearAnalysing", "scheduleReconnect">>) = Ctx(Armed(quiet), socks, clear, kept, p)
       /\ RunCommands(c, <<"cancelReconnect", "clearAnalysing", "openSocket">>)
            = Ctx(OpenedHook(still, p), OpenedSocks(still, socks), clear, kept, p)
  BY <1>2, <1>3, <1>4, <1>5, <1>6, <1>7, RunThree
<1>15. /\ RunCommands(c, <<"closeSocket", "stopCapture", "cancelReconnect">>) = Ctx(Disarmed(left), so, list, units, p)
       /\ RunCommands(c, <<"closeSocket", "stopCapture", "clearAnalysing">>) = Ctx(left, so, clear, kept, p)
  BY <1>8, <1>9, <1>10, <1>12, RunThree
<1>16. RunCommands(c, <<"closeSocket", "stopCapture", "clearAnalysing", "openSocket">>)
         = Ctx(OpenedHook(left, p), OpenedSocks(left, so), clear, kept, p)
  BY <1>8, <1>9, <1>10, <1>11, RunFour
<1>. HIDE DEF c, clear, kept, quiet, closed, left, so, still
<1> QED BY <1>1, <1>13, <1>14, <1>15, <1>16 DEF c, clear, kept, quiet, closed, left, so, still

-----------------------------------------------------------------------------
(* From one session to the next.                                           *)

LEMMA BrowserLengths == MaxSeq \in Nat \ {0} /\ Length \in Nat \ {0} /\ MaxAttempts \in Nat \ {0}
BY SessionAssumption

LEMMA HookUpdates ==
  ASSUME NEW h \in HookRec
  PROVE  /\ \A how \in {"none", "gated", "forwarding"} :
              /\ Captures(h, how) \in HookRec /\ Captures(h, how).capture = how /\ Captures(h, how).seq = h.seq
              /\ Captures(h, how).base = h.base /\ Captures(h, how).timer = h.timer
         /\ Armed(h) \in HookRec /\ Armed(h).timer /\ Armed(h).seq = h.seq
         /\ Armed(h).base = h.base /\ Armed(h).capture = h.capture
         /\ Disarmed(h) \in HookRec /\ ~Disarmed(h).timer /\ Disarmed(h).seq = h.seq
         /\ Disarmed(h).base = h.base /\ Disarmed(h).capture = h.capture
         /\ Suspended(h) \in HookRec /\ Suspended(h).capture \in {"none", "gated"} /\ Suspended(h).seq = h.seq
         /\ Suspended(h).base = h.base /\ Suspended(h).timer = h.timer
         /\ h.seq + 1 \in 0 .. MaxSeq + 1 =>
              /\ ClosedHook(h) \in HookRec /\ ClosedHook(h).seq = h.seq + 1 /\ ClosedHook(h).base = h.base
              /\ ClosedHook(h).capture = h.capture /\ ClosedHook(h).timer = h.timer
              /\ \A p \in 0 .. Length :
                   /\ OpenedHook(h, p) \in HookRec /\ OpenedHook(h, p).seq = h.seq + 1 /\ OpenedHook(h, p).base = p
                   /\ OpenedHook(h, p).capture = h.capture /\ OpenedHook(h, p).timer = h.timer
BY DEF HookRec, Captures, Armed, Disarmed, Suspended, ClosedHook, OpenedHook

LEMMA FreshSocket ==
  /\ [Unused EXCEPT !.state = "connecting"] \in SocketRec
  /\ [Unused EXCEPT !.state = "connecting"].state = "connecting"
  /\ SocketFits([Unused EXCEPT !.state = "connecting"])
<1>1. << >> \in Seq(Utterances) /\ Len(<< >>) = 0
  BY EmptySeq
<1>2. Unused \in SocketRec
  BY <1>1 DEF Unused, SocketRec, SocketStates
<1>3. \A k \in SocketRec :
        LET c == [k EXCEPT !.state = "connecting"]
        IN /\ c \in SocketRec /\ c.state = "connecting"
           /\ c.heard = k.heard /\ c.captions = k.captions /\ c.results = k.results
  BY DEF SocketRec, SocketStates
<1>4. Unused.heard = << >> /\ Unused.captions = 0 /\ Unused.results = {}
  BY DEF Unused
<1>. DEFINE c == [Unused EXCEPT !.state = "connecting"]
<1>5. c \in SocketRec /\ c.state = "connecting" /\ c.heard = << >> /\ c.captions = 0 /\ c.results = {}
  BY <1>2, <1>3, <1>4
<1>. HIDE DEF c
<1>6. SocketFits(c)
  BY <1>1, <1>5, BrowserLengths DEF SocketFits
<1> QED BY <1>5, <1>6 DEF c

\* A statement is what its status says.
LEMMA StatementTyped ==
  ASSUME NEW list \in [Times -> Statements \cup {NoStatement}], NEW t \in Times
  PROVE  /\ list[t] # NoStatement => list[t] \in Statements
         /\ list[t] \in Statements => /\ list[t].session \in SocketIds /\ list[t].rel \in 0 .. Length
                                     /\ list[t].status \in {"analysing", "checked"}
         /\ list[t].status \in {"analysing", "checked"} => list[t] \in Statements /\ list[t] # NoStatement
<1>1. list[t] \in Statements \cup {NoStatement}
  OBVIOUS
<1> QED BY <1>1 DEF Statements, NoStatement, SocketIds

LEMMA BetweenOpens ==
  ASSUME NEW h, NEW socks, NEW list, NEW units, Between(h, socks, list, units), ~h.timer, h.seq + 1 \in SocketIds,
         NEW p \in 0 .. Length, NEW m \in MachineRec, m.phase = "connecting", m.attempts <= MaxAttempts
  PROVE  /\ Agree(m, OpenedHook(h, p), OpenedSocks(h, socks), list, units)
         /\ Awaited(OpenedHook(h, p), OpenedSocks(h, socks), list, units)
<1>. DEFINE h2 == OpenedHook(h, p)
            so == OpenedSocks(h, socks)
<1>1. /\ h \in HookRec /\ socks \in [SocketIds -> SocketRec] /\ \A s \in SocketIds : SocketFits(socks[s])
      /\ list \in [Times -> Statements \cup {NoStatement}] /\ units \subseteq SocketIds \X Utterances
  BY DEF Between, BrowserTyped
<1>2. h2 \in HookRec /\ h2.seq = h.seq + 1 /\ h2.base = p /\ h2.capture = h.capture /\ h2.timer = h.timer
  BY <1>1, HookUpdates, BrowserLengths DEF SocketIds
<1>3. so \in [SocketIds -> SocketRec] /\ \A s \in SocketIds : SocketFits(so[s])
  BY <1>1, FreshSocket DEF OpenedSocks
<1>4. so[h.seq + 1].state = "connecting" /\ \A s \in SocketIds : s # h.seq + 1 => so[s] = socks[s]
  BY <1>1, FreshSocket DEF OpenedSocks
<1>5. Attempted(m)
  BY BrowserLengths DEF Attempted
<1>6. SocketsAgree(m, h2, so)
  BY <1>2, <1>4 DEF SocketsAgree, Between, SocketLives, Alive
<1>7. HookAgrees(m, h2)
  BY <1>2 DEF HookAgrees, Between
<1>8. StandsInPlace(h2, list)
  <2> SUFFICES ASSUME NEW t \in Times, list[t] # NoStatement
               PROVE list[t].session <= h2.seq /\ list[t].session # h2.seq
    BY DEF StandsInPlace
  <2>1. list[t].session <= h.seq /\ list[t].session \in Nat /\ h.seq \in Nat
    BY <1>1, StatementTyped, BrowserLengths DEF Between, StandsInPlace, HookRec, SocketIds
  <2> QED BY <2>1, <1>2
<1>9. Awaited(h2, so, list, units)
  BY DEF Awaited, Between
<1>10. BrowserTyped(h2, so, list, units)
  BY <1>1, <1>2, <1>3 DEF BrowserTyped
<1> QED BY <1>5, <1>6, <1>7, <1>8, <1>9, <1>10 DEF Agree

LEMMA BetweenSettles ==
  ASSUME NEW h, NEW socks, NEW list, NEW units, Between(h, socks, list, units),
         NEW m \in MachineRec, Attempted(m), m.phase \notin Alive, h.timer <=> m.phase = "reconnecting"
  PROVE  Agree(m, h, socks, list, units) /\ Awaited(h, socks, list, units)
<1>1. SocketsAgree(m, h, socks)
  BY DEF SocketsAgree, Between, Alive
<1>2. HookAgrees(m, h)
  BY DEF HookAgrees, Between, Alive
<1>3. Awaited(h, socks, list, units)
  BY DEF Awaited, Between
<1> QED BY <1>1, <1>2, <1>3 DEF Agree, Between

LEMMA RestIsBetween ==
  ASSUME NEW m, NEW h, NEW socks, NEW list, NEW units, Agree(m, h, socks, list, units), Awaited(h, socks, list, units), m.phase \notin Alive
  PROVE  Between(h, socks, list, units)
<1>1. \A s \in SocketIds : ~SocketLives(socks[s])
  BY DEF Agree, SocketsAgree
<1>2. h.capture # "forwarding"
  BY DEF Agree, HookAgrees, Alive
<1>3. \A t \in Times : ~Waits(t, list, units)
  BY <1>1 DEF Agree, Awaited, SocketLives
<1> QED BY <1>1, <1>2, <1>3 DEF Between, Agree

LEMMA BetweenKeeps ==
  ASSUME NEW h, NEW socks, NEW list, NEW units, Between(h, socks, list, units)
  PROVE  /\ Between(Captures(h, "none"), socks, list, units)
         /\ Between(Armed(h), socks, list, units) /\ Between(Disarmed(h), socks, list, units)
<1>1. h \in HookRec
  BY DEF Between, BrowserTyped
<1>2. \A h2 \in HookRec : h2.seq = h.seq /\ h2.base = h.base => StandsInPlace(h2, list)
  BY DEF Between, StandsInPlace
<1> QED BY <1>1, <1>2, HookUpdates DEF Between, BrowserTyped

\* clearAnalysing and dropUnits.
LEMMA Clears ==
  ASSUME NEW h, NEW socks, NEW list, NEW units, BrowserTyped(h, socks, list, units), StandsInPlace(h, list)
  PROVE  /\ BrowserTyped(h, socks, ClearAnalysing(list), DropUnits(units, list)) /\ StandsInPlace(h, ClearAnalysing(list))
         /\ \A t \in Times : ~Waits(t, ClearAnalysing(list), DropUnits(units, list))
         /\ \A t \in Times : list[t].status = "checked" => ClearAnalysing(list)[t] = list[t]
<1>. DEFINE new == ClearAnalysing(list)
<1>1. list \in [Times -> Statements \cup {NoStatement}]
  BY DEF BrowserTyped
<1>2. \A t \in Times : new[t] = IF list[t].status = "checked" THEN list[t] ELSE NoStatement
  BY DEF ClearAnalysing
<1>3. new \in [Times -> Statements \cup {NoStatement}]
  BY <1>1 DEF ClearAnalysing
<1>4. DropUnits(units, list) \subseteq units
  BY DEF DropUnits
<1>5. NoStatement.status = "none"
  BY DEF NoStatement
<1>6. StandsInPlace(h, new)
  BY <1>2 DEF StandsInPlace
<1>7. \A t \in Times : new[t].status # "analysing"
  BY <1>2, <1>5
<1> QED BY <1>2, <1>3, <1>4, <1>6, <1>7 DEF BrowserTyped, Waits

LEMMA LeavesBetween ==
  ASSUME NEW m, NEW h, NEW socks, NEW list, NEW units, Agree(m, h, socks, list, units), h.seq + 1 \in 0 .. MaxSeq + 1
  PROVE  /\ BrowserTyped(ClosedHook(h), ClosedSocks(h, socks), list, units) /\ StandsInPlace(ClosedHook(h), list)
         /\ ClosedHook(h).seq = h.seq + 1 /\ ClosedHook(h).timer = h.timer
         /\ \A s \in SocketIds : ~SocketLives(ClosedSocks(h, socks)[s])
<1>. DEFINE so == ClosedSocks(h, socks)
<1>1. /\ h \in HookRec /\ socks \in [SocketIds -> SocketRec] /\ \A s \in SocketIds : SocketFits(socks[s])
      /\ list \in [Times -> Statements \cup {NoStatement}] /\ units \subseteq SocketIds \X Utterances
  BY DEF Agree, BrowserTyped
<1>2. \A k \in SocketRec : SocketFits(k) =>
        Shut(k) \in SocketRec /\ SocketFits(Shut(k)) /\ ~SocketLives(Shut(k))
  BY DEF SocketRec, SocketStates, SocketFits, SocketLives, Shut
<1>3. \A s \in SocketIds : so[s] = IF s = h.seq /\ SocketLives(socks[s]) THEN Shut(socks[s]) ELSE socks[s]
  BY DEF ClosedSocks
<1>4. \A s \in SocketIds : so[s] \in SocketRec /\ SocketFits(so[s])
  BY <1>1, <1>2, <1>3
<1>5. so \in [SocketIds -> SocketRec]
  BY <1>4 DEF ClosedSocks
<1>6. \A s \in SocketIds : SocketLives(socks[s]) => s = h.seq
  BY DEF Agree, SocketsAgree
<1>7. \A s \in SocketIds : ~SocketLives(so[s])
  BY <1>1, <1>2, <1>3, <1>6
<1>8. ClosedHook(h) \in HookRec /\ ClosedHook(h).seq = h.seq + 1 /\ ClosedHook(h).timer = h.timer
  BY <1>1, HookUpdates
<1>9. StandsInPlace(ClosedHook(h), list)
  <2> SUFFICES ASSUME NEW t \in Times, list[t] # NoStatement
               PROVE list[t].session <= h.seq + 1 /\ list[t].session # h.seq + 1
    BY <1>8 DEF StandsInPlace
  <2>1. list[t].session <= h.seq /\ list[t].session \in Nat /\ h.seq \in Nat
    BY <1>1, StatementTyped, BrowserLengths DEF Agree, StandsInPlace, HookRec, SocketIds
  <2> QED BY <2>1
<1> QED BY <1>1, <1>4, <1>5, <1>7, <1>8, <1>9 DEF BrowserTyped

\* A socket that was alive is lost.
LEMMA LossIsBetween ==
  ASSUME NEW m, NEW h, NEW socks, NEW list, NEW units, Agree(m, h, socks, list, units),
         NEW s \in SocketIds, SocketLives(socks[s]), NEW k \in SocketRec, SocketFits(k), ~SocketLives(k)
  PROVE  LET so == [socks EXCEPT ![s] = k]
         IN /\ Between(Captures(h, "none"), so, ClearAnalysing(list), DropUnits(units, list))
            /\ (\A t \in Times : ~Waits(t, list, units)) => Between(Captures(h, "none"), so, list, units)
<1>. DEFINE so == [socks EXCEPT ![s] = k]
            h2 == Captures(h, "none")
<1>1. /\ h \in HookRec /\ socks \in [SocketIds -> SocketRec] /\ \A i \in SocketIds : SocketFits(socks[i])
      /\ list \in [Times -> Statements \cup {NoStatement}] /\ units \subseteq SocketIds \X Utterances
  BY DEF Agree, BrowserTyped
<1>2. so \in [SocketIds -> SocketRec] /\ \A i \in SocketIds : SocketFits(so[i])
  BY <1>1
<1>3. \A i \in SocketIds : ~SocketLives(so[i])
  BY <1>1 DEF Agree, SocketsAgree
<1>4. h2 \in HookRec /\ h2.capture # "forwarding" /\ h2.seq = h.seq /\ h2.base = h.base
  BY <1>1, HookUpdates
<1>5. StandsInPlace(h2, list)
  BY <1>4 DEF Agree, StandsInPlace
<1>6. BrowserTyped(h2, so, list, units)
  BY <1>1, <1>2, <1>4 DEF BrowserTyped
<1> QED BY <1>3, <1>4, <1>5, <1>6, Clears DEF Between

-----------------------------------------------------------------------------
(* The steps: what each dispatch leaves.                                   *)

\* A verdict stays, or another session's statement takes its place.
Survive(list, next) ==
  \A t \in Times : list[t].status = "checked" =>
    \/ next[t].status = "checked"
    \/ next[t].status = "analysing" /\ next[t].session # list[t].session

BrowserNext ==
  /\ Agree(machine', hook', sockets', shown', claims')
  /\ mounted' \in BOOLEAN /\ (mounted' => Awaited(hook', sockets', shown', claims')) /\ (~mounted' => machine'.phase = "idle")

\* What each step does, but for the player and the stored analysis.
BrowserStep == BrowserNext /\ Survive(shown, shown')

LEMMA NextAgrees == BrowserNext /\ PlayerOK' /\ StoredOK' => BrowserInv'
BY DEF BrowserInv, BrowserNext, Agree, BrowserTyped, Attempted, SocketsAgree, HookAgrees, StandsInPlace, Awaited, Waits, SocketFits, SocketLives

\* After a dispatch the variables are what its commands end in.
LEMMA Lands ==
  ASSUME NEW r, NEW p, NEW h, NEW socks, NEW m, NEW commands, NEW h2, NEW socks2, NEW list2, NEW units2,
         r.commands = commands, r.state = m,
         RunCommands(Ctx(h, socks, shown, claims, p), commands) = Ctx(h2, socks2, list2, units2, p)
  PROVE  Dispatch(r, p, h, socks) =>
           machine' = m /\ hook' = h2 /\ sockets' = socks2 /\ shown' = list2 /\ claims' = units2
BY DEF Dispatch, Ctx

LEMMA Stays ==
  ASSUME BrowserInv, shown' = shown \/ shown' = ClearAnalysing(shown)
  PROVE  Survive(shown, shown')
<1>1. \A t \in Times : shown[t].status = "checked" => ClearAnalysing(shown)[t] = shown[t]
  BY Clears DEF BrowserInv, Agree
<1>2. \A t \in Times : shown[t].status = "checked" => shown'[t] = shown[t]
  BY <1>1
<1> QED BY <1>2 DEF Survive

LEMMA PlaySteps == ASSUME BrowserInv, Play PROVE BrowserStep
<1>. DEFINE p == player.position
            c == Ctx(hook, sockets, shown, claims, p)
            r == OnPlay(machine)
            now == Agree(machine, hook, sockets, shown, claims)
<1>1. now /\ Awaited(hook, sockets, shown, claims) /\ mounted' /\ mounted' \in BOOLEAN /\ Room /\ Dispatch(r, p, hook, sockets)
  BY DEF BrowserInv, Play
<1>2. machine \in MachineRec /\ hook \in HookRec /\ p \in 0 .. Length
  BY <1>1 DEF Agree, BrowserTyped, BrowserInv, PlayerOK
<1>3. hook.seq + 1 \in SocketIds
  BY <1>1, <1>2, BrowserLengths DEF Room, HookRec, SocketIds
<1>4. CASE machine.phase \in {"idle", "ended", "failed"}
  <2>1. r = To("connecting", 0, TRUE, <<"openSocket">>)
    BY <1>4 DEF OnPlay
  <2>2. /\ machine' = r.state /\ hook' = OpenedHook(hook, p) /\ sockets' = OpenedSocks(hook, sockets)
        /\ shown' = shown /\ claims' = claims
    <3>1. r.commands = <<"openSocket">>
      BY <2>1 DEF To
    <3>2. RunCommands(c, <<"openSocket">>) = Ctx(OpenedHook(hook, p), OpenedSocks(hook, sockets), shown, claims, p)
      BY ListEffects
    <3> HIDE DEF r, p
    <3> QED BY <1>1, <3>1, <3>2, Lands
  <2>3. machine' \in MachineRec /\ machine'.phase = "connecting" /\ machine'.attempts <= MaxAttempts
    BY <2>1, <2>2, BrowserLengths DEF To, MachineRec, Phases
  <2>4. Between(hook, sockets, shown, claims) /\ ~hook.timer
    BY <1>1, <1>2, <1>4, RestIsBetween DEF Agree, HookAgrees, Alive
  <2>5. Agree(machine', hook', sockets', shown', claims') /\ Awaited(hook', sockets', shown', claims')
    BY <2>2, <2>3, <2>4, <1>2, <1>3, BetweenOpens
  <2> QED BY <1>1, <2>2, <2>5, Stays DEF BrowserStep, BrowserNext
<1>5. CASE machine.phase \in {"connecting", "reconnecting", "streaming"}
  <2>1. r.commands = << >> /\ r.state \in MachineRec /\ r.state.phase = machine.phase /\ r.state.attempts = machine.attempts
    BY <1>2, <1>5 DEF OnPlay, Stay, To, MachineRec
  <2>2. machine' = r.state /\ hook' = hook /\ sockets' = sockets /\ shown' = shown /\ claims' = claims
    <3>1. RunCommands(c, << >>) = Ctx(hook, sockets, shown, claims, p)
      BY ListEffects
    <3> HIDE DEF r, p
    <3> QED BY <1>1, <2>1, <3>1, Lands
  <2>3. Agree(machine', hook', sockets', shown', claims') /\ Awaited(hook', sockets', shown', claims')
    BY <1>1, <2>1, <2>2 DEF Agree, Attempted, SocketsAgree, HookAgrees
  <2> QED BY <1>1, <2>2, <2>3, Stays DEF BrowserStep, BrowserNext
<1>6. CASE machine.phase = "paused"
  <2>. DEFINE h == Captures(hook, "forwarding")
  <2>1. r = To("streaming", machine.attempts, TRUE, <<"resumeCapture">>)
    BY <1>6 DEF OnPlay
  <2>2. machine' = r.state /\ hook' = h /\ sockets' = sockets /\ shown' = shown /\ claims' = claims
    <3>1. r.commands = <<"resumeCapture">>
      BY <2>1 DEF To
    <3>2. RunCommands(c, <<"resumeCapture">>) = Ctx(h, sockets, shown, claims, p)
      BY ListEffects
    <3> HIDE DEF r, p, h
    <3> QED BY <1>1, <3>1, <3>2, Lands
  <2>3. machine' \in MachineRec /\ machine'.phase = "streaming" /\ machine'.attempts = machine.attempts
    BY <1>2, <2>1, <2>2 DEF To, MachineRec, Phases
  <2>4. /\ h \in HookRec /\ h.capture = "forwarding" /\ h.seq = hook.seq /\ h.base = hook.base /\ h.timer = hook.timer
    BY <1>2, HookUpdates
  <2>. HIDE DEF h
  <2>5. Attempted(machine') /\ SocketsAgree(machine', h, sockets) /\ HookAgrees(machine', h)
    BY <1>1, <1>6, <2>3, <2>4, BrowserLengths DEF Agree, Attempted, SocketsAgree, HookAgrees, Alive
  <2>6. StandsInPlace(h, shown) /\ Awaited(h, sockets, shown, claims) /\ BrowserTyped(h, sockets, shown, claims)
    BY <1>1, <2>4 DEF Agree, StandsInPlace, Awaited, BrowserTyped
  <2>7. Agree(machine', hook', sockets', shown', claims') /\ Awaited(hook', sockets', shown', claims')
    BY <2>2, <2>3, <2>5, <2>6 DEF Agree
  <2> QED BY <1>1, <2>2, <2>7, Stays DEF BrowserStep, BrowserNext
<1> QED BY <1>2, <1>4, <1>5, <1>6 DEF MachineRec, Phases

LEMMA PauseSteps == ASSUME BrowserInv, Pause PROVE BrowserStep
<1>. DEFINE p == player.position
            c == Ctx(hook, sockets, shown, claims, p)
            r == OnPause(machine)
<1>1. /\ Agree(machine, hook, sockets, shown, claims) /\ Awaited(hook, sockets, shown, claims)
      /\ mounted /\ mounted' /\ mounted' \in BOOLEAN /\ Dispatch(r, p, hook, sockets)
  BY DEF BrowserInv, Pause
<1>2. machine \in MachineRec /\ hook \in HookRec
  BY <1>1 DEF Agree, BrowserTyped
<1>3. CASE machine.phase = "streaming"
  <2>. DEFINE h == Suspended(hook)
  <2>1. r = To("paused", machine.attempts, FALSE, <<"suspendCapture">>)
    BY <1>3 DEF OnPause
  <2>2. machine' = r.state /\ hook' = h /\ sockets' = sockets /\ shown' = shown /\ claims' = claims
    <3>1. r.commands = <<"suspendCapture">>
      BY <2>1 DEF To
    <3>2. RunCommands(c, <<"suspendCapture">>) = Ctx(h, sockets, shown, claims, p)
      BY ListEffects
    <3> HIDE DEF r, p, h
    <3> QED BY <1>1, <3>1, <3>2, Lands
  <2>3. machine' \in MachineRec /\ machine'.phase = "paused" /\ machine'.attempts = machine.attempts
    BY <1>2, <2>1, <2>2 DEF To, MachineRec, Phases
  <2>4. /\ h \in HookRec /\ h.capture \in {"none", "gated"} /\ h.seq = hook.seq /\ h.base = hook.base /\ h.timer = hook.timer
    BY <1>2, HookUpdates
  <2>. HIDE DEF h
  <2>5. Attempted(machine') /\ SocketsAgree(machine', h, sockets) /\ HookAgrees(machine', h)
    BY <1>1, <1>3, <2>3, <2>4, BrowserLengths DEF Agree, Attempted, SocketsAgree, HookAgrees, Alive
  <2>6. StandsInPlace(h, shown) /\ Awaited(h, sockets, shown, claims) /\ BrowserTyped(h, sockets, shown, claims)
    BY <1>1, <2>4 DEF Agree, StandsInPlace, Awaited, BrowserTyped
  <2>7. Agree(machine', hook', sockets', shown', claims') /\ Awaited(hook', sockets', shown', claims')
    BY <2>2, <2>3, <2>5, <2>6 DEF Agree
  <2> QED BY <1>1, <2>2, <2>7, Stays DEF BrowserStep, BrowserNext
<1>4. CASE machine.phase = "reconnecting"
  <2>1. r = To("idle", 0, FALSE, <<"cancelReconnect">>)
    BY <1>4 DEF OnPause
  <2>2. machine' = r.state /\ hook' = Disarmed(hook) /\ sockets' = sockets /\ shown' = shown /\ claims' = claims
    <3>1. r.commands = <<"cancelReconnect">>
      BY <2>1 DEF To
    <3>2. RunCommands(c, <<"cancelReconnect">>) = Ctx(Disarmed(hook), sockets, shown, claims, p)
      BY ListEffects
    <3> HIDE DEF r, p
    <3> QED BY <1>1, <3>1, <3>2, Lands
  <2>3. machine' \in MachineRec /\ machine'.phase = "idle" /\ machine'.attempts = 0
    BY <2>1, <2>2, BrowserLengths DEF To, MachineRec, Phases
  <2>4. Between(Disarmed(hook), sockets, shown, claims) /\ ~Disarmed(hook).timer
    BY <1>1, <1>2, <1>4, RestIsBetween, BetweenKeeps, HookUpdates DEF Alive
  <2>5. Agree(machine', hook', sockets', shown', claims') /\ Awaited(hook', sockets', shown', claims')
    BY <2>2, <2>3, <2>4, BetweenSettles, BrowserLengths DEF Attempted, Alive
  <2> QED BY <1>1, <2>2, <2>5, Stays DEF BrowserStep, BrowserNext
<1>5. CASE machine.phase \notin {"streaming", "reconnecting"}
  <2>1. r.commands = << >> /\ r.state \in MachineRec /\ r.state.phase = machine.phase /\ r.state.attempts = machine.attempts
    BY <1>2, <1>5 DEF OnPause, Stay, To, MachineRec
  <2>2. machine' = r.state /\ hook' = hook /\ sockets' = sockets /\ shown' = shown /\ claims' = claims
    <3>1. RunCommands(c, << >>) = Ctx(hook, sockets, shown, claims, p)
      BY ListEffects
    <3> HIDE DEF r, p
    <3> QED BY <1>1, <2>1, <3>1, Lands
  <2>3. Agree(machine', hook', sockets', shown', claims') /\ Awaited(hook', sockets', shown', claims')
    BY <1>1, <2>1, <2>2 DEF Agree, Attempted, SocketsAgree, HookAgrees
  <2> QED BY <1>1, <2>2, <2>3, Stays DEF BrowserStep, BrowserNext
<1> QED BY <1>3, <1>4, <1>5

LEMMA AppendTwo == ASSUME NEW a, NEW b, NEW c PROVE Append(<<a, b>>, c) = <<a, b, c>>
<1>. DEFINE S == {a, b, c}
<1>1. <<a, b>> \in Seq(S) /\ c \in S /\ <<a, b, c>> \in Seq(S)
  OBVIOUS
<1>2. Append(<<a, b>>, c) \in Seq(S) /\ Len(Append(<<a, b>>, c)) = 3
  BY <1>1, AppendProperties
<1>3. \A i \in 1 .. 3 : Append(<<a, b>>, c)[i] = <<a, b, c>>[i]
  BY <1>1, AppendProperties
<1> QED BY <1>1, <1>2, <1>3, SeqEqual

LEMMA AppendThree == ASSUME NEW a, NEW b, NEW c, NEW d PROVE Append(<<a, b, c>>, d) = <<a, b, c, d>>
<1>. DEFINE S == {a, b, c, d}
<1>1. <<a, b, c>> \in Seq(S) /\ d \in S /\ <<a, b, c, d>> \in Seq(S)
  OBVIOUS
<1>2. Append(<<a, b, c>>, d) \in Seq(S) /\ Len(Append(<<a, b, c>>, d)) = 4
  BY <1>1, AppendProperties
<1>3. \A i \in 1 .. 4 : Append(<<a, b, c>>, d)[i] = <<a, b, c, d>>[i]
  BY <1>1, AppendProperties
<1> QED BY <1>1, <1>2, <1>3, SeqEqual

LEMMA SeekSteps == ASSUME BrowserInv, NEW p \in 0 .. Length, Seek(p) PROVE BrowserStep
<1>. DEFINE c == Ctx(hook, sockets, shown, claims, p)
            r == OnSeek(machine)
            clear == ClearAnalysing(shown)
            kept == DropUnits(claims, shown)
            still == Disarmed(hook)
            left == Captures(ClosedHook(hook), "none")
            so == ClosedSocks(hook, sockets)
            w == machine.wantsPlay
<1>1. /\ Agree(machine, hook, sockets, shown, claims) /\ Awaited(hook, sockets, shown, claims)
      /\ mounted /\ mounted' /\ mounted' \in BOOLEAN /\ Room /\ Dispatch(r, p, hook, sockets)
  BY DEF BrowserInv, Seek
<1>2. machine \in MachineRec /\ hook \in HookRec /\ w \in BOOLEAN
  BY <1>1 DEF Agree, BrowserTyped, MachineRec
<1>3. hook.seq \in Nat /\ hook.seq + 2 \in SocketIds /\ hook.seq + 1 \in SocketIds /\ hook.seq + 1 \in 0 .. MaxSeq + 1
  BY <1>1, <1>2, BrowserLengths DEF Room, HookRec, SocketIds
<1>4. CASE machine.phase = "idle"
  <2>1. r = To("idle", 0, w, << >>)
    BY <1>4 DEF OnSeek
  <2>2. machine' = r.state /\ hook' = hook /\ sockets' = sockets /\ shown' = shown /\ claims' = claims
    <3>1. r.commands = << >>
      BY <2>1 DEF To
    <3>2. RunCommands(c, << >>) = Ctx(hook, sockets, shown, claims, p)
      BY ListEffects
    <3> HIDE DEF r
    <3> QED BY <1>1, <3>1, <3>2, Lands
  <2>3. machine' \in MachineRec /\ machine'.phase = "idle" /\ machine'.attempts = 0
    BY <1>2, <2>1, <2>2, BrowserLengths DEF To, MachineRec, Phases
  <2>4. Agree(machine', hook', sockets', shown', claims') /\ Awaited(hook', sockets', shown', claims')
    BY <1>1, <1>4, <2>2, <2>3, BrowserLengths DEF Agree, Attempted, SocketsAgree, HookAgrees
  <2> QED BY <1>1, <2>2, <2>4, Stays DEF BrowserStep, BrowserNext
<1>5. CASE machine.phase = "reconnecting"
  <2>1. Between(still, sockets, clear, kept) /\ ~still.timer /\ still.seq = hook.seq
    <3>1. Between(still, sockets, shown, claims) /\ ~still.timer /\ still.seq = hook.seq
      BY <1>1, <1>2, <1>5, RestIsBetween, BetweenKeeps, HookUpdates DEF Alive
    <3> HIDE DEF still, clear, kept
    <3>2. BrowserTyped(still, sockets, clear, kept) /\ StandsInPlace(still, clear) /\ \A t \in Times : ~Waits(t, clear, kept)
      BY <3>1, Clears DEF Between, clear, kept
    <3> QED BY <3>1, <3>2 DEF Between
  <2>2. CASE w
    <3>1. r = To("connecting", 0, TRUE, <<"cancelReconnect", "clearAnalysing", "openSocket">>)
      <4>1. Append(<<"cancelReconnect", "clearAnalysing">>, "openSocket") = <<"cancelReconnect", "clearAnalysing", "openSocket">>
        BY AppendTwo
      <4> QED BY <1>5, <2>2, <4>1 DEF OnSeek
    <3>2. /\ machine' = r.state /\ hook' = OpenedHook(still, p) /\ sockets' = OpenedSocks(still, sockets)
          /\ shown' = clear /\ claims' = kept
      <4>1. r.commands = <<"cancelReconnect", "clearAnalysing", "openSocket">>
        BY <3>1 DEF To
      <4>2. RunCommands(c, <<"cancelReconnect", "clearAnalysing", "openSocket">>)
              = Ctx(OpenedHook(still, p), OpenedSocks(still, sockets), clear, kept, p)
        BY ListEffects
      <4> HIDE DEF r, still, clear, kept
      <4> QED BY <1>1, <4>1, <4>2, Lands
    <3>3. machine' \in MachineRec /\ machine'.phase = "connecting" /\ machine'.attempts <= MaxAttempts
      BY <3>1, <3>2, BrowserLengths DEF To, MachineRec, Phases
    <3> HIDE DEF r, still, clear, kept
    <3>4. Agree(machine', hook', sockets', shown', claims') /\ Awaited(hook', sockets', shown', claims')
      BY <1>3, <2>1, <3>2, <3>3, BetweenOpens
    <3> QED BY <1>1, <3>2, <3>4, Stays DEF BrowserStep, BrowserNext, clear
  <2>3. CASE ~w
    <3>1. r = To("idle", 0, FALSE, <<"cancelReconnect", "clearAnalysing">>)
      BY <1>5, <2>3 DEF OnSeek
    <3>2. machine' = r.state /\ hook' = still /\ sockets' = sockets /\ shown' = clear /\ claims' = kept
      <4>1. r.commands = <<"cancelReconnect", "clearAnalysing">>
        BY <3>1 DEF To
      <4>2. RunCommands(c, <<"cancelReconnect", "clearAnalysing">>) = Ctx(still, sockets, clear, kept, p)
        BY ListEffects
      <4> HIDE DEF r, still, clear, kept
      <4> QED BY <1>1, <4>1, <4>2, Lands
    <3>3. machine' \in MachineRec /\ machine'.phase = "idle" /\ machine'.attempts = 0
      BY <3>1, <3>2, BrowserLengths DEF To, MachineRec, Phases
    <3> HIDE DEF r, still, clear, kept
    <3>4. Agree(machine', hook', sockets', shown', claims') /\ Awaited(hook', sockets', shown', claims')
      BY <2>1, <3>2, <3>3, BetweenSettles, BrowserLengths DEF Attempted, Alive
    <3> QED BY <1>1, <3>2, <3>4, Stays DEF BrowserStep, BrowserNext, clear
  <2> QED BY <2>2, <2>3
<1>6. CASE machine.phase \notin {"idle", "reconnecting"}
  <2>1. Between(left, so, clear, kept) /\ ~left.timer /\ left.seq = hook.seq + 1
    <3>. DEFINE closed == ClosedHook(hook)
    <3>1. /\ BrowserTyped(closed, so, shown, claims) /\ StandsInPlace(closed, shown)
          /\ closed.seq = hook.seq + 1 /\ closed.timer = hook.timer /\ \A s \in SocketIds : ~SocketLives(so[s])
      BY <1>1, <1>3, LeavesBetween
    <3>2. closed \in HookRec
      BY <3>1 DEF BrowserTyped
    <3>3. ~hook.timer
      BY <1>1, <1>2, <1>6 DEF Agree, HookAgrees
    <3> HIDE DEF closed, so
    <3>4. left \in HookRec /\ left.capture = "none" /\ left.seq = hook.seq + 1 /\ left.base = closed.base /\ ~left.timer
      BY <3>1, <3>2, <3>3, HookUpdates DEF closed
    <3> HIDE DEF left, clear, kept
    <3>5. BrowserTyped(left, so, shown, claims) /\ StandsInPlace(left, shown)
      BY <3>1, <3>4 DEF BrowserTyped, StandsInPlace
    <3>6. BrowserTyped(left, so, clear, kept) /\ StandsInPlace(left, clear) /\ \A t \in Times : ~Waits(t, clear, kept)
      BY <3>5, Clears DEF clear, kept
    <3> QED BY <3>1, <3>4, <3>6 DEF Between
  <2>2. CASE w
    <3>1. r = To("connecting", 0, TRUE, <<"closeSocket", "stopCapture", "clearAnalysing", "openSocket">>)
      <4>1. Append(<<"closeSocket", "stopCapture", "clearAnalysing">>, "openSocket")
              = <<"closeSocket", "stopCapture", "clearAnalysing", "openSocket">>
        BY AppendThree
      <4> QED BY <1>6, <2>2, <4>1 DEF OnSeek
    <3>2. /\ machine' = r.state /\ hook' = OpenedHook(left, p) /\ sockets' = OpenedSocks(left, so)
          /\ shown' = clear /\ claims' = kept
      <4>1. r.commands = <<"closeSocket", "stopCapture", "clearAnalysing", "openSocket">>
        BY <3>1 DEF To
      <4>2. RunCommands(c, <<"closeSocket", "stopCapture", "clearAnalysing", "openSocket">>)
              = Ctx(OpenedHook(left, p), OpenedSocks(left, so), clear, kept, p)
        BY ListEffects
      <4> HIDE DEF r, left, so, clear, kept
      <4> QED BY <1>1, <4>1, <4>2, Lands
    <3>3. machine' \in MachineRec /\ machine'.phase = "connecting" /\ machine'.attempts <= MaxAttempts
      BY <3>1, <3>2, BrowserLengths DEF To, MachineRec, Phases
    <3> HIDE DEF r, left, so, clear, kept
    <3>4. left.seq + 1 \in SocketIds
      BY <1>3, <2>1
    <3>5. Agree(machine', hook', sockets', shown', claims') /\ Awaited(hook', sockets', shown', claims')
      BY <2>1, <3>2, <3>3, <3>4, BetweenOpens
    <3> QED BY <1>1, <3>2, <3>5, Stays DEF BrowserStep, BrowserNext, clear
  <2>3. CASE ~w
    <3>1. r = To("idle", 0, FALSE, <<"closeSocket", "stopCapture", "clearAnalysing">>)
      BY <1>6, <2>3 DEF OnSeek
    <3>2. machine' = r.state /\ hook' = left /\ sockets' = so /\ shown' = clear /\ claims' = kept
      <4>1. r.commands = <<"closeSocket", "stopCapture", "clearAnalysing">>
        BY <3>1 DEF To
      <4>2. RunCommands(c, <<"closeSocket", "stopCapture", "clearAnalysing">>) = Ctx(left, so, clear, kept, p)
        BY ListEffects
      <4> HIDE DEF r, left, so, clear, kept
      <4> QED BY <1>1, <4>1, <4>2, Lands
    <3>3. machine' \in MachineRec /\ machine'.phase = "idle" /\ machine'.attempts = 0
      BY <3>1, <3>2, BrowserLengths DEF To, MachineRec, Phases
    <3> HIDE DEF r, left, so, clear, kept
    <3>4. Agree(machine', hook', sockets', shown', claims') /\ Awaited(hook', sockets', shown', claims')
      BY <2>1, <3>2, <3>3, BetweenSettles, BrowserLengths DEF Attempted, Alive
    <3> QED BY <1>1, <3>2, <3>4, Stays DEF BrowserStep, BrowserNext, clear
  <2> QED BY <2>2, <2>3
<1> QED BY <1>4, <1>5, <1>6

LEMMA UnmountSteps == ASSUME BrowserInv, Unmount PROVE BrowserStep
<1>. DEFINE p == player.position
            c == Ctx(hook, sockets, shown, claims, p)
            r == OnStop
            closed == ClosedHook(hook)
            left == Captures(closed, "none")
            h == Disarmed(left)
            so == ClosedSocks(hook, sockets)
<1>1. /\ Agree(machine, hook, sockets, shown, claims) /\ ~mounted' /\ mounted' \in BOOLEAN /\ Room
      /\ Dispatch(r, p, hook, sockets)
  BY DEF BrowserInv, Unmount
<1>2. hook \in HookRec
  BY <1>1 DEF Agree, BrowserTyped
<1>3. hook.seq + 1 \in 0 .. MaxSeq + 1
  BY <1>1, <1>2, BrowserLengths DEF Room, HookRec
<1>4. machine' = r.state /\ hook' = h /\ sockets' = so /\ shown' = shown /\ claims' = claims
  <2>1. r.commands = <<"closeSocket", "stopCapture", "cancelReconnect">>
    BY DEF OnStop, To
  <2>2. RunCommands(c, <<"closeSocket", "stopCapture", "cancelReconnect">>) = Ctx(h, so, shown, claims, p)
    BY ListEffects
  <2> HIDE DEF r, p, h, so
  <2> QED BY <1>1, <2>1, <2>2, Lands
<1>5. machine' \in MachineRec /\ machine'.phase = "idle" /\ machine'.attempts = 0
  BY <1>4, BrowserLengths DEF OnStop, To, MachineRec, Phases
<1>6. /\ BrowserTyped(closed, so, shown, claims) /\ StandsInPlace(closed, shown) /\ \A i \in SocketIds : ~SocketLives(so[i])
  BY <1>1, <1>3, LeavesBetween
<1>7. closed \in HookRec
  BY <1>6 DEF BrowserTyped
<1>. HIDE DEF closed, so
<1>8. h \in HookRec /\ h.capture = "none" /\ ~h.timer /\ h.seq = closed.seq /\ h.base = closed.base
  BY <1>7, HookUpdates
<1>. HIDE DEF h
<1>9. BrowserTyped(h, so, shown, claims) /\ StandsInPlace(h, shown)
  BY <1>6, <1>8 DEF BrowserTyped, StandsInPlace
<1>10. Attempted(machine') /\ SocketsAgree(machine', h, so) /\ HookAgrees(machine', h)
  BY <1>5, <1>6, <1>8, BrowserLengths DEF Attempted, SocketsAgree, HookAgrees, Alive
<1>11. Agree(machine', hook', sockets', shown', claims')
  BY <1>4, <1>5, <1>9, <1>10 DEF Agree
<1> QED BY <1>1, <1>4, <1>5, <1>11, Stays DEF BrowserStep, BrowserNext

LEMMA TimerSteps == ASSUME BrowserInv, TimerFires PROVE BrowserStep
<1>. DEFINE p == player.position
            h == Disarmed(hook)
            c == Ctx(h, sockets, shown, claims, p)
            r == OnReconnect(machine)
<1>1. /\ Agree(machine, hook, sockets, shown, claims) /\ hook.timer /\ Room /\ mounted' = mounted
      /\ Dispatch(r, p, h, sockets)
  BY DEF BrowserInv, TimerFires, Disarmed
<1>2. machine \in MachineRec /\ hook \in HookRec /\ p \in 0 .. Length
  BY <1>1 DEF Agree, BrowserTyped, BrowserInv, PlayerOK
<1>3. machine.phase = "reconnecting" /\ machine.attempts <= MaxAttempts
  BY <1>1, <1>2, BrowserLengths DEF Agree, HookAgrees, Attempted, MachineRec
<1>4. mounted /\ mounted' /\ mounted' \in BOOLEAN /\ Awaited(hook, sockets, shown, claims)
  BY <1>1, <1>3 DEF BrowserInv
<1>5. r = To("connecting", machine.attempts, machine.wantsPlay, <<"openSocket">>)
  BY <1>3 DEF OnReconnect
<1>6. /\ machine' = r.state /\ hook' = OpenedHook(h, p) /\ sockets' = OpenedSocks(h, sockets)
      /\ shown' = shown /\ claims' = claims
  <2>1. r.commands = <<"openSocket">>
    BY <1>5 DEF To
  <2>2. RunCommands(c, <<"openSocket">>) = Ctx(OpenedHook(h, p), OpenedSocks(h, sockets), shown, claims, p)
    BY ListEffects
  <2> HIDE DEF r, p, h
  <2> QED BY <1>1, <2>1, <2>2, Lands
<1>7. machine' \in MachineRec /\ machine'.phase = "connecting" /\ machine'.attempts <= MaxAttempts
  BY <1>2, <1>3, <1>5, <1>6 DEF To, MachineRec, Phases
<1>8. Between(h, sockets, shown, claims) /\ ~h.timer /\ h.seq = hook.seq
  BY <1>1, <1>2, <1>3, <1>4, RestIsBetween, BetweenKeeps, HookUpdates DEF Alive
<1>9. h.seq + 1 \in SocketIds
  BY <1>1, <1>2, <1>8, BrowserLengths DEF Room, HookRec, SocketIds
<1>. HIDE DEF h
<1>10. Agree(machine', hook', sockets', shown', claims') /\ Awaited(hook', sockets', shown', claims')
  BY <1>2, <1>6, <1>7, <1>8, <1>9, BetweenOpens
<1> QED BY <1>4, <1>6, <1>10, Stays DEF BrowserStep, BrowserNext

-----------------------------------------------------------------------------
(* The sockets.                                                            *)

\* A socket that is alive is the current one, of a hook that is mounted.
LEMMA LiveIsCurrent ==
  ASSUME BrowserInv, NEW s \in SocketIds, SocketLives(sockets[s])
  PROVE  /\ s = hook.seq /\ machine.phase \in Alive /\ mounted /\ Awaited(hook, sockets, shown, claims)
         /\ sockets[s].state = "connecting" <=> machine.phase = "connecting"
<1>1. s = hook.seq /\ machine.phase \in Alive
  BY DEF BrowserInv, Agree, SocketsAgree
<1>2. mounted
  BY <1>1 DEF BrowserInv, Alive
<1>3. sockets[s].state = "connecting" <=> machine.phase = "connecting"
  BY <1>1 DEF BrowserInv, Agree, SocketsAgree, Alive
<1> QED BY <1>1, <1>2, <1>3 DEF BrowserInv

LEMMA ClosedFits ==
  ASSUME BrowserInv, NEW s \in SocketIds
  PROVE  Closed(s) \in SocketRec /\ SocketFits(Closed(s)) /\ ~SocketLives(Closed(s))
<1>1. << >> \in Seq(Utterances) /\ Len(<< >>) = 0
  BY EmptySeq
<1>2. sockets[s].replay \in BOOLEAN
  BY DEF BrowserInv, Agree, BrowserTyped, SocketRec
<1>3. \A k \in SocketRec :
        LET c == [k EXCEPT !.state = "closed", !.replay = sockets[s].replay]
        IN /\ c \in SocketRec /\ c.state = "closed"
           /\ c.heard = k.heard /\ c.captions = k.captions /\ c.results = k.results
  BY <1>2 DEF SocketRec, SocketStates
<1>4. Unused \in SocketRec /\ Unused.heard = << >> /\ Unused.captions = 0 /\ Unused.results = {}
  BY <1>1 DEF Unused, SocketRec, SocketStates
<1>5. /\ Closed(s) \in SocketRec /\ Closed(s).state = "closed"
      /\ Closed(s).heard = << >> /\ Closed(s).captions = 0 /\ Closed(s).results = {}
  BY <1>3, <1>4 DEF Closed
<1> QED BY <1>1, <1>5, BrowserLengths DEF SocketFits, SocketLives

\* What the loss of the current socket leaves, whatever the reducer makes of it.
LEMMA LossSteps ==
  ASSUME BrowserInv, mounted' = mounted, NEW s \in SocketIds, SocketLives(sockets[s]),
         NEW r, Dispatch(r, player.position, hook, [sockets EXCEPT ![s] = Closed(s)]),
         r.state \in MachineRec, r.state.phase \notin Alive, Attempted(r.state),
         \/ /\ r.commands = <<"stopCapture">> /\ r.state.phase # "reconnecting"
            /\ \A t \in Times : ~Waits(t, shown, claims)
         \/ r.commands = <<"stopCapture", "clearAnalysing">> /\ r.state.phase # "reconnecting"
         \/ r.commands = <<"stopCapture", "clearAnalysing", "scheduleReconnect">> /\ r.state.phase = "reconnecting"
  PROVE  BrowserStep
<1>. DEFINE p == player.position
            so == [sockets EXCEPT ![s] = Closed(s)]
            c == Ctx(hook, so, shown, claims, p)
            h == Captures(hook, "none")
            clear == ClearAnalysing(shown)
            kept == DropUnits(claims, shown)
<1>1. /\ Agree(machine, hook, sockets, shown, claims) /\ machine.phase \in Alive
      /\ mounted /\ mounted' /\ mounted' \in BOOLEAN
  BY LiveIsCurrent DEF BrowserInv
<1>2. hook \in HookRec /\ ~hook.timer
  BY <1>1 DEF Agree, BrowserTyped, HookAgrees, Alive
<1>3. h \in HookRec /\ ~h.timer
  BY <1>2, HookUpdates
<1>4. Between(h, so, clear, kept) /\ ((\A t \in Times : ~Waits(t, shown, claims)) => Between(h, so, shown, claims))
  BY <1>1, ClosedFits, LossIsBetween
<1>5. CASE r.commands = <<"stopCapture">> /\ r.state.phase # "reconnecting" /\ \A t \in Times : ~Waits(t, shown, claims)
  <2>1. RunCommands(c, <<"stopCapture">>) = Ctx(h, so, shown, claims, p)
    BY ListEffects
  <2> HIDE DEF p, so, h
  <2>2. machine' = r.state /\ hook' = h /\ sockets' = so /\ shown' = shown /\ claims' = claims
    BY <1>5, <2>1, Lands DEF p, so
  <2>3. Agree(machine', hook', sockets', shown', claims') /\ Awaited(hook', sockets', shown', claims')
    BY <1>3, <1>4, <1>5, <2>2, BetweenSettles
  <2> QED BY <1>1, <2>2, <2>3, Stays DEF BrowserStep, BrowserNext
<1>6. CASE r.commands = <<"stopCapture", "clearAnalysing">> /\ r.state.phase # "reconnecting"
  <2>1. RunCommands(c, <<"stopCapture", "clearAnalysing">>) = Ctx(h, so, clear, kept, p)
    BY ListEffects
  <2> HIDE DEF p, so, h, clear, kept
  <2>2. machine' = r.state /\ hook' = h /\ sockets' = so /\ shown' = clear /\ claims' = kept
    BY <1>6, <2>1, Lands DEF p, so
  <2>3. Agree(machine', hook', sockets', shown', claims') /\ Awaited(hook', sockets', shown', claims')
    BY <1>3, <1>4, <1>6, <2>2, BetweenSettles
  <2> QED BY <1>1, <2>2, <2>3, Stays DEF BrowserStep, BrowserNext, clear
<1>7. CASE r.commands = <<"stopCapture", "clearAnalysing", "scheduleReconnect">> /\ r.state.phase = "reconnecting"
  <2>1. RunCommands(c, <<"stopCapture", "clearAnalysing", "scheduleReconnect">>) = Ctx(Armed(h), so, clear, kept, p)
    BY ListEffects
  <2> HIDE DEF p, so, h, clear, kept
  <2>2. machine' = r.state /\ hook' = Armed(h) /\ sockets' = so /\ shown' = clear /\ claims' = kept
    BY <1>7, <2>1, Lands DEF p, so
  <2>3. Between(Armed(h), so, clear, kept) /\ Armed(h).timer
    BY <1>3, <1>4, BetweenKeeps, HookUpdates
  <2>4. Agree(machine', hook', sockets', shown', claims') /\ Awaited(hook', sockets', shown', claims')
    BY <1>7, <2>2, <2>3, BetweenSettles
  <2> QED BY <1>1, <2>2, <2>4, Stays DEF BrowserStep, BrowserNext, clear
<1> QED BY <1>5, <1>6, <1>7

\* A socket that fails: a session that was never heard of gives up after the
\* last attempt with nothing on screen, since a connection resets them.
LEMMA DropSteps == ASSUME BrowserInv, NEW s \in SocketIds, Drop(s) PROVE BrowserStep
<1>. DEFINE r == OnSocketClose(machine, FALSE)
<1>1. SocketLives(sockets[s]) /\ mounted' = mounted
  BY DEF Drop, SocketLives
<1>2. s = hook.seq /\ machine.phase \in Alive /\ machine \in MachineRec /\ Attempted(machine)
  BY <1>1, LiveIsCurrent DEF BrowserInv, Agree
<1>3. Dispatch(r, player.position, hook, [sockets EXCEPT ![s] = Closed(s)])
  BY <1>2 DEF Drop, SocketEvent, IsCurrent
<1>4. CASE machine.phase = "paused"
  <2>1. r = To("idle", 0, FALSE, <<"stopCapture", "clearAnalysing">>)
    BY <1>4 DEF OnSocketClose
  <2> HIDE DEF r
  <2>2. r.state \in MachineRec /\ r.state.phase = "idle" /\ r.state.attempts = 0 /\ r.commands = <<"stopCapture", "clearAnalysing">>
    BY <2>1, BrowserLengths DEF To, MachineRec, Phases
  <2> QED BY <1>1, <1>3, <2>2, LossSteps, BrowserLengths DEF Attempted, Alive
<1>5. CASE machine.phase # "paused" /\ machine.attempts + 1 > MaxAttempts
  <2>1. machine.phase = "connecting" /\ machine.attempts = MaxAttempts
    BY <1>2, <1>5, BrowserLengths DEF Attempted, Alive, MachineRec
  <2>2. r = To("failed", machine.attempts + 1, machine.wantsPlay, <<"stopCapture">>)
    BY <1>5, <2>1 DEF OnSocketClose, OnClose, OnUncleanClose
  <2> HIDE DEF r
  <2>3. r.state \in MachineRec /\ r.state.phase = "failed" /\ r.commands = <<"stopCapture">>
    BY <1>2, <2>1, <2>2, BrowserLengths DEF To, MachineRec, Phases
  <2>4. \A t \in Times : ~Waits(t, shown, claims)
    BY <1>1, <1>2, <2>1, LiveIsCurrent DEF Awaited
  <2> QED BY <1>1, <1>3, <2>3, <2>4, LossSteps DEF Attempted, Alive
<1>6. CASE machine.phase # "paused" /\ ~(machine.attempts + 1 > MaxAttempts)
  <2>1. machine.phase \in {"connecting", "streaming"}
    BY <1>2, <1>6 DEF Alive
  <2>2. r = To("reconnecting", machine.attempts + 1, machine.wantsPlay, <<"stopCapture", "clearAnalysing", "scheduleReconnect">>)
    BY <1>6, <2>1 DEF OnSocketClose, OnClose, OnUncleanClose
  <2> HIDE DEF r
  <2>3. /\ r.state \in MachineRec /\ r.state.phase = "reconnecting" /\ r.state.attempts <= MaxAttempts
        /\ r.commands = <<"stopCapture", "clearAnalysing", "scheduleReconnect">>
    BY <1>2, <1>6, <2>2, BrowserLengths DEF To, MachineRec, Phases
  <2> QED BY <1>1, <1>3, <2>3, LossSteps, BrowserLengths DEF Attempted, Alive, MachineRec
<1> QED BY <1>4, <1>5, <1>6

\* A socket the server closes with a handshake, with nothing left to answer.
LEMMA CleanSteps ==
  ASSUME BrowserInv, NEW s \in SocketIds, SocketLives(sockets[s]), mounted' = mounted,
         SocketEvent(s, Closed(s), OnSocketClose(machine, TRUE)), \A t \in Times : ~Waits(t, shown, claims)
  PROVE  BrowserStep
<1>. DEFINE r == OnSocketClose(machine, TRUE)
<1>2. s = hook.seq /\ machine.phase \in Alive /\ machine \in MachineRec
  BY LiveIsCurrent DEF BrowserInv, Agree
<1>3. Dispatch(r, player.position, hook, [sockets EXCEPT ![s] = Closed(s)])
  BY <1>2 DEF SocketEvent, IsCurrent
<1>4. CASE machine.phase = "paused"
  <2>1. r = To("idle", 0, FALSE, <<"stopCapture", "clearAnalysing">>)
    BY <1>4 DEF OnSocketClose
  <2> HIDE DEF r
  <2>2. r.state \in MachineRec /\ r.state.phase = "idle" /\ r.state.attempts = 0 /\ r.commands = <<"stopCapture", "clearAnalysing">>
    BY <2>1, BrowserLengths DEF To, MachineRec, Phases
  <2> QED BY <1>3, <2>2, LossSteps, BrowserLengths DEF Attempted, Alive
<1>5. CASE machine.phase \in {"connecting", "streaming"}
  <2>1. r = To("ended", 0, machine.wantsPlay, <<"stopCapture">>)
    BY <1>5 DEF OnSocketClose, OnClose
  <2> HIDE DEF r
  <2>2. r.state \in MachineRec /\ r.state.phase = "ended" /\ r.state.attempts = 0 /\ r.commands = <<"stopCapture">>
    BY <1>2, <2>1, BrowserLengths DEF To, MachineRec, Phases
  <2> QED BY <1>3, <2>2, LossSteps, BrowserLengths DEF Attempted, Alive
<1> QED BY <1>2, <1>4, <1>5 DEF Alive

LEMMA RefuseSteps == ASSUME BrowserInv, NEW s \in SocketIds, Refuse(s) PROVE BrowserStep
<1>1. SocketLives(sockets[s]) /\ mounted' = mounted /\ sockets[s].captions = 0 /\ SocketEvent(s, Closed(s), OnSocketClose(machine, TRUE))
  BY DEF Refuse, SocketLives
<1>2. \A t \in Times : ~Waits(t, shown, claims)
  BY <1>1, LiveIsCurrent DEF Awaited
<1> QED BY <1>1, <1>2, CleanSteps

LEMMA EndSteps == ASSUME BrowserInv, NEW s \in SocketIds, End(s) PROVE BrowserStep
<1>1. /\ SocketLives(sockets[s]) /\ mounted' = mounted /\ sockets[s].results = 1 .. Len(sockets[s].heard)
      /\ SocketEvent(s, Closed(s), OnSocketClose(machine, TRUE))
  BY DEF End, SocketLives
<1>2. sockets[s].captions \in Nat /\ Len(sockets[s].heard) \in Nat /\ sockets[s].captions <= Len(sockets[s].heard)
  BY LenProperties DEF BrowserInv, Agree, BrowserTyped, SocketFits, SocketRec
<1>3. \A t \in Times : ~Waits(t, shown, claims)
  <2>1. \A t \in Times : Waits(t, shown, claims) => shown[t].rel \in 1 .. sockets[s].captions \ sockets[s].results
    BY <1>1, LiveIsCurrent DEF Awaited
  <2>2. 1 .. sockets[s].captions \subseteq sockets[s].results
    BY <1>1, <1>2
  <2> QED BY <2>1, <2>2
<1> QED BY <1>1, <1>3, CleanSteps

\* A close the hook asked for moves nothing but the socket it closed.
LEMMA CloseSteps == ASSUME BrowserInv, NEW s \in SocketIds, CloseCompletes(s) PROVE BrowserStep
<1>. DEFINE so == [sockets EXCEPT ![s] = Closed(s)]
<1>1. ~SocketLives(sockets[s]) /\ mounted' = mounted
  BY DEF CloseCompletes, SocketLives
<1>2. /\ machine \in MachineRec /\ Agree(machine, hook, sockets, shown, claims)
      /\ sockets \in [SocketIds -> SocketRec] /\ (machine.phase \in Alive => hook.seq \in SocketIds /\ SocketLives(sockets[hook.seq]))
  BY DEF BrowserInv, Agree, BrowserTyped, SocketsAgree, Alive, SocketLives
<1>3. machine' = machine /\ hook' = hook /\ sockets' = so /\ shown' = shown /\ claims' = claims
  <2>1. PICK clean \in BOOLEAN : SocketEvent(s, Closed(s), OnSocketClose(machine, clean))
    BY DEF CloseCompletes
  <2>2. CASE s # hook.seq
    BY <2>1, <2>2 DEF SocketEvent, IsCurrent
  <2>3. CASE s = hook.seq
    <3>. DEFINE r == OnSocketClose(machine, clean)
                c == Ctx(hook, so, shown, claims, player.position)
    <3>1. machine.phase \notin Alive
      BY <1>1, <1>2, <2>3
    <3>2. r = Stay(machine)
      BY <3>1 DEF OnSocketClose, Alive
    <3>3. Dispatch(r, player.position, hook, so)
      BY <2>1, <2>3 DEF SocketEvent, IsCurrent
    <3> HIDE DEF r
    <3>4. r.state = machine /\ r.commands = << >>
      BY <3>2 DEF Stay
    <3>5. RunCommands(c, << >>) = Ctx(hook, so, shown, claims, player.position)
      BY ListEffects
    <3> HIDE DEF so
    <3> QED BY <3>3, <3>4, <3>5, Lands
  <2> QED BY <2>2, <2>3
<1>4. so \in [SocketIds -> SocketRec] /\ \A i \in SocketIds : SocketFits(so[i])
  BY <1>2, ClosedFits DEF Agree, BrowserTyped
<1>5. \A i \in SocketIds : SocketLives(so[i]) \/ SocketLives(sockets[i]) => so[i] = sockets[i]
  BY <1>1, <1>2, ClosedFits
<1>6. machine.phase \in Alive => so[hook.seq] = sockets[hook.seq]
  BY <1>2, <1>5
<1>. HIDE DEF so
<1>7. SocketsAgree(machine, hook, so)
  BY <1>2, <1>5, <1>6 DEF Agree, SocketsAgree, Alive
<1>8. BrowserTyped(hook, so, shown, claims)
  BY <1>2, <1>4 DEF Agree, BrowserTyped
<1>9. mounted => Awaited(hook, so, shown, claims)
  BY <1>5 DEF BrowserInv, Awaited, SocketLives
<1>10. Agree(machine', hook', sockets', shown', claims') /\ (mounted' => Awaited(hook', sockets', shown', claims'))
  BY <1>1, <1>2, <1>3, <1>7, <1>8, <1>9 DEF Agree
<1> QED BY <1>1, <1>3, <1>10, Stays DEF BrowserStep, BrowserNext, BrowserInv

\* A connection that is made: nothing waits for it yet.
LEMMA AcceptSteps == ASSUME BrowserInv, NEW s \in SocketIds, Accept(s) PROVE BrowserStep
<1>. DEFINE r == OnSocketOpen(machine)
            p == player.position
<1>1. sockets[s].state = "connecting" /\ SocketLives(sockets[s]) /\ mounted' = mounted
  BY DEF Accept, SocketLives
<1>2. /\ s = hook.seq /\ machine.phase = "connecting" /\ machine \in MachineRec /\ hook \in HookRec
      /\ mounted /\ mounted' /\ mounted' \in BOOLEAN /\ Awaited(hook, sockets, shown, claims)
      /\ Agree(machine, hook, sockets, shown, claims) /\ sockets \in [SocketIds -> SocketRec]
  BY <1>1, LiveIsCurrent DEF BrowserInv, Agree, BrowserTyped
<1>3. PICK k : /\ k \in SocketRec /\ SocketFits(k) /\ k.state = "open"
               /\ Dispatch(r, p, hook, [sockets EXCEPT ![s] = k])
  <2>1. PICK replay \in {FALSE} \cup {stored # << >>} :
          SocketEvent(s, [Unused EXCEPT !.state = "open", !.replay = replay, !.heard = IF replay THEN stored ELSE << >>], r)
    BY DEF Accept
  <2>. DEFINE heard == IF replay THEN stored ELSE << >>
              k == [Unused EXCEPT !.state = "open", !.replay = replay, !.heard = heard]
  <2>2. << >> \in Seq(Utterances) /\ Len(<< >>) = 0
    BY EmptySeq
  <2>3. heard \in Seq(Utterances) /\ Len(heard) <= Length /\ Len(heard) \in Nat
    BY <2>2, BrowserLengths, LenProperties DEF BrowserInv, StoredOK
  <2>4. replay \in BOOLEAN
    OBVIOUS
  <2>5. Unused \in SocketRec /\ Unused.captions = 0 /\ Unused.results = {}
    BY <2>2 DEF Unused, SocketRec, SocketStates
  <2> HIDE DEF heard
  <2>6. \A u \in SocketRec :
          LET v == [u EXCEPT !.state = "open", !.replay = replay, !.heard = heard]
          IN v \in SocketRec /\ v.state = "open" /\ v.heard = heard /\ v.captions = u.captions /\ v.results = u.results
    BY <2>3, <2>4 DEF SocketRec, SocketStates
  <2>7. k \in SocketRec /\ k.state = "open" /\ k.heard = heard /\ k.captions = 0 /\ k.results = {}
    BY <2>5, <2>6
  <2>8. Dispatch(r, p, hook, [sockets EXCEPT ![s] = k])
    BY <1>2, <2>1 DEF SocketEvent, IsCurrent, heard
  <2> HIDE DEF k
  <2>9. SocketFits(k)
    BY <2>3, <2>7 DEF SocketFits
  <2> QED BY <2>7, <2>8, <2>9
<1>. DEFINE so == [sockets EXCEPT ![s] = k]
            c == Ctx(hook, so, shown, claims, p)
            w == machine.wantsPlay
            h == IF w THEN Captures(hook, "forwarding") ELSE hook
<1>4. /\ machine' \in MachineRec /\ machine'.phase = (IF w THEN "streaming" ELSE "paused") /\ machine'.attempts = 0
      /\ hook' = h /\ sockets' = so /\ shown' = shown /\ claims' = claims
  <2>1. CASE w
    <3>1. r = To("streaming", 0, TRUE, <<"startCapture">>)
      BY <1>2, <2>1 DEF OnSocketOpen
    <3>2. r.state \in MachineRec /\ r.state.phase = "streaming" /\ r.state.attempts = 0 /\ r.commands = <<"startCapture">>
      BY <3>1, BrowserLengths DEF To, MachineRec, Phases
    <3>3. RunCommands(c, <<"startCapture">>) = Ctx(Captures(hook, "forwarding"), so, shown, claims, p)
      BY ListEffects
    <3> HIDE DEF r, p, so
    <3>4. machine' = r.state /\ hook' = Captures(hook, "forwarding") /\ sockets' = so /\ shown' = shown /\ claims' = claims
      BY <1>3, <3>2, <3>3, Lands DEF so
    <3> QED BY <2>1, <3>2, <3>4
  <2>2. CASE ~w
    <3>1. r = To("paused", 0, FALSE, << >>)
      BY <1>2, <2>2 DEF OnSocketOpen
    <3>2. r.state \in MachineRec /\ r.state.phase = "paused" /\ r.state.attempts = 0 /\ r.commands = << >>
      BY <3>1, BrowserLengths DEF To, MachineRec, Phases
    <3>3. RunCommands(c, << >>) = Ctx(hook, so, shown, claims, p)
      BY ListEffects
    <3> HIDE DEF r, p, so
    <3>4. machine' = r.state /\ hook' = hook /\ sockets' = so /\ shown' = shown /\ claims' = claims
      BY <1>3, <3>2, <3>3, Lands DEF so
    <3> QED BY <2>2, <3>2, <3>4
  <2> QED BY <2>1, <2>2
<1>5. h \in HookRec /\ (h.capture = "forwarding" <=> w) /\ h.seq = hook.seq /\ h.base = hook.base /\ ~h.timer
  <2>1. hook.capture # "forwarding" /\ ~hook.timer
    BY <1>2 DEF Agree, HookAgrees
  <2> QED BY <1>2, <2>1, HookUpdates
<1>. HIDE DEF h
<1>6. so \in [SocketIds -> SocketRec] /\ \A i \in SocketIds : SocketFits(so[i])
  BY <1>2, <1>3 DEF Agree, BrowserTyped
<1>7. so[s].state = "open" /\ \A i \in SocketIds : i # s => so[i] = sockets[i]
  BY <1>2, <1>3
<1>. HIDE DEF so
<1>8. BrowserTyped(h, so, shown, claims) /\ StandsInPlace(h, shown) /\ Awaited(h, so, shown, claims)
  <2>1. \A t \in Times : ~Waits(t, shown, claims)
    BY <1>1, <1>2 DEF Awaited
  <2> QED BY <1>2, <1>5, <1>6, <2>1 DEF Agree, BrowserTyped, StandsInPlace, Awaited
<1>9. Attempted(machine') /\ SocketsAgree(machine', h, so) /\ HookAgrees(machine', h)
  BY <1>2, <1>4, <1>5, <1>7, BrowserLengths DEF Attempted, Agree, SocketsAgree, HookAgrees, Alive
<1>10. Agree(machine', hook', sockets', shown', claims') /\ Awaited(hook', sockets', shown', claims')
  BY <1>4, <1>8, <1>9 DEF Agree
<1> QED BY <1>2, <1>4, <1>10, Stays DEF BrowserStep, BrowserNext

\* What a socket heard grows; nothing else of it changes.
LEMMA TickSteps == ASSUME BrowserInv, Tick PROVE BrowserStep
<1>. DEFINE n == player.position + 1
<1>1. /\ Agree(machine, hook, sockets, shown, claims) /\ sockets \in [SocketIds -> SocketRec] /\ \A i \in SocketIds : SocketFits(sockets[i])
      /\ machine' = machine /\ hook' = hook /\ shown' = shown /\ claims' = claims /\ mounted' = mounted
  BY DEF Tick, BrowserInv, Agree, BrowserTyped
<1>2. n \in Utterances
  BY BrowserLengths DEF Tick, BrowserInv, PlayerOK, Utterances
<1>3. sockets' \in [SocketIds -> SocketRec]
        /\ \A i \in SocketIds : /\ SocketFits(sockets'[i]) /\ sockets'[i].state = sockets[i].state
                               /\ sockets'[i].captions = sockets[i].captions /\ sockets'[i].results = sockets[i].results
  <2>1. DOMAIN sockets' = SocketIds /\ sockets' = [i \in SocketIds |-> sockets'[i]]
    BY DEF Tick, SocketIds
  <2> SUFFICES ASSUME NEW i \in SocketIds
               PROVE /\ sockets'[i] \in SocketRec /\ SocketFits(sockets'[i]) /\ sockets'[i].state = sockets[i].state
                     /\ sockets'[i].captions = sockets[i].captions /\ sockets'[i].results = sockets[i].results
    BY <2>1
  <2>2. \/ sockets'[i] = sockets[i]
        \/ sockets'[i] = [sockets[i] EXCEPT !.heard = Append(@, n)] /\ Len(sockets[i].heard) < Length
    BY DEF Tick, SocketIds
  <2>3. /\ sockets[i] \in SocketRec /\ SocketFits(sockets[i]) /\ sockets[i].heard \in Seq(Utterances)
        /\ Len(sockets[i].heard) \in Nat /\ sockets[i].captions \in Nat
    BY <1>1, LenProperties DEF SocketRec
  <2>. DEFINE new == Append(sockets[i].heard, n)
  <2>4. new \in Seq(Utterances) /\ Len(new) = Len(sockets[i].heard) + 1
    BY <1>2, <2>3, AppendProperties
  <2> HIDE DEF new
  <2>5. CASE sockets'[i] = sockets[i]
    BY <2>3, <2>5
  <2>6. CASE sockets'[i] = [sockets[i] EXCEPT !.heard = new] /\ Len(sockets[i].heard) < Length
    <3>1. \A k \in SocketRec :
            LET v == [k EXCEPT !.heard = new]
            IN v \in SocketRec /\ v.heard = new /\ v.state = k.state /\ v.captions = k.captions /\ v.results = k.results
      BY <2>4 DEF SocketRec
    <3>2. /\ sockets'[i] \in SocketRec /\ sockets'[i].heard = new /\ sockets'[i].state = sockets[i].state
          /\ sockets'[i].captions = sockets[i].captions /\ sockets'[i].results = sockets[i].results
      BY <2>3, <2>6, <3>1
    <3>3. SocketFits(sockets'[i])
      BY <2>3, <2>4, <2>6, <3>2, BrowserLengths DEF SocketFits
    <3> QED BY <3>2, <3>3
  <2> QED BY <2>2, <2>5, <2>6 DEF new
<1>4. BrowserTyped(hook, sockets', shown, claims)
  BY <1>1, <1>3 DEF Agree, BrowserTyped
<1>5. SocketsAgree(machine, hook, sockets')
  BY <1>1, <1>3 DEF Agree, SocketsAgree, SocketLives, Alive
<1>6. mounted => Awaited(hook, sockets', shown, claims)
  BY <1>3 DEF BrowserInv, Awaited
<1>7. Agree(machine', hook', sockets', shown', claims') /\ (mounted' => Awaited(hook', sockets', shown', claims'))
  BY <1>1, <1>4, <1>5, <1>6 DEF Agree
<1> QED BY <1>1, <1>7, Stays DEF BrowserStep, BrowserNext, BrowserInv

\* A frame lands on its own place: what stood there of this session is kept if
\* it is the frame's own verdict.
LEMMA FrameLands ==
  ASSUME BrowserInv, NEW s \in SocketIds, s = hook.seq, NEW rel \in 1 .. Len(sockets[s].heard),
         NEW status \in {"analysing", "checked"}, ApplyFrame(s, rel, status)
  PROVE  /\ shown' \in [Times -> Statements \cup {NoStatement}] /\ StandsInPlace(hook, shown') /\ Survive(shown, shown')
         /\ \E t \in Times :
              /\ \A i \in Times : i # t => shown'[i] = shown[i]
              /\ t = hook.base + rel - 1 /\ shown'[t] # NoStatement
              /\ shown'[t].session = s /\ shown'[t].rel = rel /\ shown'[t].status \in {status, "checked"}
<1>. DEFINE t == hook.base + rel - 1
            new == [status |-> status, session |-> s, rel |-> rel, utterance |-> sockets[s].heard[rel]]
            own == shown[t].status = "checked" /\ shown[t].session = s /\ shown[t].rel = rel
<1>1. /\ Agree(machine, hook, sockets, shown, claims) /\ hook \in HookRec /\ SocketFits(sockets[s])
      /\ sockets[s] \in SocketRec /\ shown \in [Times -> Statements \cup {NoStatement}]
  BY DEF BrowserInv, Agree, BrowserTyped
<1>2. Len(sockets[s].heard) \in Nat /\ Len(sockets[s].heard) <= Length /\ sockets[s].heard[rel] \in Utterances
  BY <1>1, LenProperties, ElementOfSeq DEF SocketRec, SocketFits
<1>3. t \in Times /\ rel \in 0 .. Length
  BY <1>1, <1>2, BrowserLengths DEF Times, HookRec
<1>4. new \in Statements /\ new.status = status /\ new.session = s /\ new.rel = rel
  BY <1>2, <1>3 DEF Statements, SocketIds
<1>. HIDE DEF new
<1>5. shown' = [shown EXCEPT ![t] = IF own THEN shown[t] ELSE new]
  BY DEF ApplyFrame, new
<1>6. shown' \in [Times -> Statements \cup {NoStatement}]
  BY <1>1, <1>3, <1>4, <1>5
<1>7. /\ \A i \in Times : i # t => shown'[i] = shown[i]
      /\ shown'[t] = IF own THEN shown[t] ELSE new
  BY <1>1, <1>3, <1>5
<1>8. shown'[t].session = s /\ shown'[t].rel = rel /\ shown'[t].status \in {status, "checked"}
  BY <1>4, <1>7
<1>9. shown'[t] # NoStatement
  BY <1>3, <1>6, <1>8, StatementTyped
<1>10. s \in Nat /\ hook.seq \in Nat /\ hook.base \in Nat /\ rel \in Nat
  BY <1>1, <1>3, BrowserLengths DEF SocketIds, HookRec
<1>11. StandsInPlace(hook, shown')
  <2> SUFFICES ASSUME NEW i \in Times, shown'[i] # NoStatement
               PROVE /\ shown'[i].session <= hook.seq
                     /\ shown'[i].session = hook.seq => i = hook.base + shown'[i].rel - 1
    BY DEF StandsInPlace
  <2>1. CASE i = t
    BY <1>8, <1>10, <2>1
  <2>2. CASE i # t
    BY <1>1, <1>7, <2>2 DEF Agree, StandsInPlace
  <2> QED BY <2>1, <2>2
<1>12. Survive(shown, shown')
  <2> SUFFICES ASSUME NEW i \in Times, shown[i].status = "checked"
               PROVE shown'[i].status = "checked" \/ (shown'[i].status = "analysing" /\ shown'[i].session # shown[i].session)
    BY DEF Survive
  <2>1. CASE i # t
    BY <1>7, <2>1
  <2>2. CASE i = t /\ own
    BY <1>7, <2>2
  <2>3. CASE i = t /\ ~own
    <3>1. shown[t] \in Statements /\ shown[t] # NoStatement /\ shown[t].rel \in 0 .. Length
      BY <1>1, <1>3, <2>3, StatementTyped
    <3>2. shown[t].session # s
      <4> SUFFICES ASSUME shown[t].session = s PROVE FALSE
        OBVIOUS
      <4>1. t = hook.base + shown[t].rel - 1
        BY <1>1, <1>3, <3>1 DEF Agree, StandsInPlace
      <4>2. shown[t].rel = rel
        BY <1>10, <3>1, <4>1
      <4> QED BY <2>3, <4>2
    <3>3. shown'[t].status = status
      BY <1>4, <1>7, <2>3
    <3> QED BY <1>8, <2>3, <3>2, <3>3
  <2> QED BY <2>1, <2>2, <2>3
<1> QED BY <1>3, <1>6, <1>7, <1>8, <1>9, <1>11, <1>12

\* What a socket captions or answers more.
LEMMA SocketGrows ==
  ASSUME BrowserInv, NEW s \in SocketIds, NEW k \in SocketRec, SocketFits(k), k.state = sockets[s].state,
         sockets' = [sockets EXCEPT ![s] = k], machine' = machine, hook' = hook,
         shown' \in [Times -> Statements \cup {NoStatement}], StandsInPlace(hook, shown'), claims' \subseteq SocketIds \X Utterances
  PROVE  Agree(machine', hook', sockets', shown', claims')
<1>1. /\ Agree(machine, hook, sockets, shown, claims) /\ sockets \in [SocketIds -> SocketRec] /\ \A i \in SocketIds : SocketFits(sockets[i])
  BY DEF BrowserInv, Agree, BrowserTyped
<1>2. sockets' \in [SocketIds -> SocketRec] /\ \A i \in SocketIds : SocketFits(sockets'[i]) /\ sockets'[i].state = sockets[i].state
  BY <1>1
<1>3. BrowserTyped(hook, sockets', shown', claims')
  BY <1>1, <1>2 DEF Agree, BrowserTyped
<1>4. SocketsAgree(machine, hook, sockets')
  BY <1>1, <1>2 DEF Agree, SocketsAgree, SocketLives, Alive
<1> QED BY <1>1, <1>3, <1>4 DEF Agree

LEMMA CaptionSteps == ASSUME BrowserInv, NEW s \in SocketIds, Caption(s) PROVE BrowserStep
<1>. DEFINE rel == sockets[s].captions + 1
            k == [sockets[s] EXCEPT !.captions = rel]
<1>1. /\ sockets[s].state = "open" /\ s = hook.seq /\ sockets[s].captions < Len(sockets[s].heard)
      /\ sockets' = [sockets EXCEPT ![s] = k] /\ ApplyFrame(s, rel, "analysing")
      /\ machine' = machine /\ hook' = hook /\ claims' = claims /\ mounted' = mounted
  BY DEF Caption, IsCurrent
<1>2. /\ mounted /\ Awaited(hook, sockets, shown, claims) /\ sockets[s] \in SocketRec /\ SocketFits(sockets[s])
      /\ sockets \in [SocketIds -> SocketRec] /\ claims \subseteq SocketIds \X Utterances
  BY <1>1, LiveIsCurrent DEF BrowserInv, Agree, BrowserTyped, SocketLives
<1>3. sockets[s].captions \in Nat /\ Len(sockets[s].heard) \in Nat /\ sockets[s].results \subseteq 1 .. sockets[s].captions
  BY <1>2, LenProperties DEF SocketRec, SocketFits
<1>4. rel \in 1 .. Len(sockets[s].heard)
  BY <1>1, <1>3
<1>11. rel \in Nat
  BY <1>3
<1>. HIDE DEF rel
<1>5. \A u \in SocketRec :
        LET v == [u EXCEPT !.captions = rel]
        IN v \in SocketRec /\ v.captions = rel /\ v.state = u.state /\ v.heard = u.heard /\ v.results = u.results
  BY <1>11 DEF SocketRec
<1>6. /\ k \in SocketRec /\ k.captions = rel /\ k.state = sockets[s].state /\ k.heard = sockets[s].heard
      /\ k.results = sockets[s].results
  BY <1>2, <1>5
<1>. HIDE DEF k
<1>7. SocketFits(k)
  BY <1>2, <1>3, <1>4, <1>6 DEF SocketFits, rel
<1>8. /\ shown' \in [Times -> Statements \cup {NoStatement}] /\ StandsInPlace(hook, shown') /\ Survive(shown, shown')
      /\ \E t \in Times :
           /\ \A i \in Times : i # t => shown'[i] = shown[i]
           /\ shown'[t].session = s /\ shown'[t].rel = rel
  BY <1>1, <1>4, FrameLands
<1>9. Agree(machine', hook', sockets', shown', claims')
  BY <1>1, <1>2, <1>6, <1>7, <1>8, SocketGrows
<1>10. Awaited(hook', sockets', shown', claims')
  <2> SUFFICES ASSUME NEW i \in Times, Waits(i, shown', claims)
               PROVE /\ shown'[i].session = s /\ s \in SocketIds /\ sockets'[s].state = "open"
                     /\ shown'[i].rel \in 1 .. sockets'[s].captions \ sockets'[s].results
    BY <1>1 DEF Awaited
  <2>1. sockets'[s] = k
    BY <1>1, <1>2
  <2>2. CASE shown'[i] = shown[i]
    <3>1. Waits(i, shown, claims)
      BY <2>2 DEF Waits
    <3>2. shown[i].session = s /\ shown[i].rel \in 1 .. sockets[s].captions \ sockets[s].results
      BY <1>1, <1>2, <3>1 DEF Awaited
    <3> QED BY <1>1, <1>3, <1>6, <2>1, <2>2, <3>2 DEF rel
  <2>3. CASE shown'[i].session = s /\ shown'[i].rel = rel
    BY <1>1, <1>3, <1>4, <1>6, <2>1, <2>3 DEF rel
  <2> QED BY <1>8, <2>2, <2>3
<1> QED BY <1>1, <1>2, <1>8, <1>9, <1>10 DEF BrowserStep, BrowserNext, BrowserInv

LEMMA ResultSteps == ASSUME BrowserInv, NEW s \in SocketIds, NEW rel \in Utterances, Result(s, rel) \/ ClaimResult(s, rel) PROVE BrowserStep
<1>. DEFINE k == [sockets[s] EXCEPT !.results = @ \cup {rel}]
<1>1. /\ sockets[s].state = "open" /\ s = hook.seq /\ rel \in 1 .. sockets[s].captions
      /\ sockets' = [sockets EXCEPT ![s] = k] /\ machine' = machine /\ hook' = hook /\ mounted' = mounted
      /\ \/ ApplyFrame(s, rel, "checked") /\ claims' = claims
         \/ shown' = shown /\ claims' = claims \cup {<<s, rel>>}
  BY DEF Result, ClaimResult, IsCurrent
<1>2. /\ mounted /\ Awaited(hook, sockets, shown, claims) /\ sockets[s] \in SocketRec /\ SocketFits(sockets[s])
      /\ sockets \in [SocketIds -> SocketRec] /\ claims \subseteq SocketIds \X Utterances
      /\ shown \in [Times -> Statements \cup {NoStatement}] /\ StandsInPlace(hook, shown)
  BY <1>1, LiveIsCurrent DEF BrowserInv, Agree, BrowserTyped, SocketLives
<1>3. sockets[s].captions \in Nat /\ Len(sockets[s].heard) \in Nat /\ sockets[s].results \subseteq 1 .. sockets[s].captions
      /\ sockets[s].captions <= Len(sockets[s].heard)
  BY <1>2, LenProperties DEF SocketRec, SocketFits
<1>4. rel \in 1 .. Len(sockets[s].heard) /\ rel \in Nat
  BY <1>1, <1>3
<1>5. \A u \in SocketRec :
        LET v == [u EXCEPT !.results = @ \cup {rel}]
        IN v \in SocketRec /\ v.captions = u.captions /\ v.state = u.state /\ v.heard = u.heard /\ v.results = u.results \cup {rel}
  BY <1>4 DEF SocketRec
<1>6. /\ k \in SocketRec /\ k.captions = sockets[s].captions /\ k.state = sockets[s].state /\ k.heard = sockets[s].heard
      /\ k.results = sockets[s].results \cup {rel}
  BY <1>2, <1>5
<1>. HIDE DEF k
<1>7. SocketFits(k)
  BY <1>1, <1>2, <1>3, <1>6 DEF SocketFits
<1>8. sockets'[s] = k
  BY <1>1, <1>2
<1>9. CASE ApplyFrame(s, rel, "checked") /\ claims' = claims
  <2>1. /\ shown' \in [Times -> Statements \cup {NoStatement}] /\ StandsInPlace(hook, shown') /\ Survive(shown, shown')
        /\ \E t \in Times :
             /\ \A i \in Times : i # t => shown'[i] = shown[i]
             /\ t = hook.base + rel - 1 /\ shown'[t].status = "checked"
    BY <1>1, <1>4, <1>9, FrameLands
  <2>2. Agree(machine', hook', sockets', shown', claims')
    BY <1>1, <1>2, <1>6, <1>7, <1>9, <2>1, SocketGrows
  <2>3. Awaited(hook', sockets', shown', claims')
    <3> SUFFICES ASSUME NEW i \in Times, Waits(i, shown', claims)
                 PROVE /\ shown'[i].session = s /\ s \in SocketIds /\ sockets'[s].state = "open"
                       /\ shown'[i].rel \in 1 .. sockets'[s].captions \ sockets'[s].results
      BY <1>1, <1>9 DEF Awaited
    <3>1. shown'[i] = shown[i] /\ i # hook.base + rel - 1
      BY <2>1 DEF Waits
    <3>2. Waits(i, shown, claims)
      BY <3>1 DEF Waits
    <3>3. shown[i].session = s /\ shown[i].rel \in 1 .. sockets[s].captions \ sockets[s].results
      BY <1>1, <1>2, <3>2 DEF Awaited
    <3>4. shown[i] # NoStatement
      BY <1>2, <3>2, StatementTyped DEF Waits
    <3>5. i = hook.base + shown[i].rel - 1
      BY <1>1, <1>2, <3>3, <3>4 DEF StandsInPlace
    <3> QED BY <1>1, <1>6, <1>8, <3>1, <3>3, <3>5
  <2> QED BY <1>1, <1>2, <2>1, <2>2, <2>3 DEF BrowserStep, BrowserNext, BrowserInv
<1>10. CASE shown' = shown /\ claims' = claims \cup {<<s, rel>>}
  <2>1. claims' \subseteq SocketIds \X Utterances
    BY <1>2, <1>10
  <2>2. Agree(machine', hook', sockets', shown', claims')
    BY <1>1, <1>2, <1>6, <1>7, <1>10, <2>1, SocketGrows
  <2>3. Awaited(hook', sockets', shown', claims')
    <3> SUFFICES ASSUME NEW i \in Times, Waits(i, shown, claims')
                 PROVE /\ shown[i].session = s /\ s \in SocketIds /\ sockets'[s].state = "open"
                       /\ shown[i].rel \in 1 .. sockets'[s].captions \ sockets'[s].results
      BY <1>1, <1>10 DEF Awaited
    <3>1. Waits(i, shown, claims) /\ <<shown[i].session, shown[i].rel>> # <<s, rel>>
      BY <1>10 DEF Waits
    <3>2. shown[i].session = s /\ shown[i].rel \in 1 .. sockets[s].captions \ sockets[s].results
      BY <1>1, <1>2, <3>1 DEF Awaited
    <3> QED BY <1>1, <1>6, <1>8, <3>1, <3>2
  <2> QED BY <1>1, <1>2, <1>10, <2>2, <2>3, Stays DEF BrowserStep, BrowserNext, BrowserInv
<1> QED BY <1>1, <1>9, <1>10

-----------------------------------------------------------------------------
(* All steps, and the theorems.                                            *)

LEMMA BrowserInit == InitBrowser => BrowserInv
<1> SUFFICES ASSUME InitBrowser PROVE BrowserInv
  OBVIOUS
<1>1. << >> \in Seq(Utterances) /\ Len(<< >>) = 0
  BY EmptySeq
<1>2. Unused \in SocketRec /\ Unused.state = "unused" /\ Unused.heard = << >> /\ Unused.captions = 0 /\ Unused.results = {}
  BY <1>1 DEF Unused, SocketRec, SocketStates
<1>3. SocketFits(Unused)
  BY <1>1, <1>2, BrowserLengths DEF SocketFits
<1>4. NoStatement.status = "none"
  BY DEF NoStatement
<1>5. PlayerOK /\ StoredOK
  BY <1>1, BrowserLengths DEF InitBrowser, PlayerOK, StoredOK
<1>6. machine \in MachineRec /\ machine.phase = "idle" /\ machine.attempts = 0
  BY BrowserLengths DEF InitBrowser, MachineRec, Phases
<1>7. hook \in HookRec /\ hook.capture = "none" /\ ~hook.timer
  BY BrowserLengths DEF InitBrowser, HookRec
<1>8. BrowserTyped(hook, sockets, shown, claims)
  BY <1>2, <1>3, <1>7 DEF InitBrowser, BrowserTyped, SocketIds
<1>9. Attempted(machine) /\ HookAgrees(machine, hook)
  BY <1>6, <1>7, BrowserLengths DEF Attempted, HookAgrees
<1>10. SocketsAgree(machine, hook, sockets)
  BY <1>2, <1>6 DEF InitBrowser, SocketsAgree, SocketLives, Alive, SocketIds
<1>11. StandsInPlace(hook, shown) /\ Awaited(hook, sockets, shown, claims)
  BY <1>4 DEF InitBrowser, StandsInPlace, Awaited, Waits
<1>12. mounted
  BY DEF InitBrowser
<1> QED BY <1>5, <1>6, <1>8, <1>9, <1>10, <1>11, <1>12 DEF BrowserInv, Agree, InitBrowser

LEMMA BrowserSteps == ASSUME BrowserInv, NextBrowser PROVE BrowserStep
<1>1. CASE Play
  BY <1>1, PlaySteps
<1>2. CASE Pause
  BY <1>2, PauseSteps
<1>3. CASE Tick
  BY <1>3, TickSteps
<1>4. CASE Unmount
  BY <1>4, UnmountSteps
<1>5. CASE TimerFires
  BY <1>5, TimerSteps
<1>6. CASE \E position \in 0 .. Length : Seek(position)
  BY <1>6, SeekSteps
<1>7. ASSUME NEW s \in SocketIds, Accept(s) \/ Drop(s) \/ Refuse(s) \/ End(s) \/ CloseCompletes(s) \/ Caption(s) PROVE BrowserStep
  BY <1>7, AcceptSteps, DropSteps, RefuseSteps, EndSteps, CloseSteps, CaptionSteps
<1>8. ASSUME NEW s \in SocketIds, NEW rel \in Utterances, Result(s, rel) \/ ClaimResult(s, rel) PROVE BrowserStep
  BY <1>8, ResultSteps
<1> QED BY <1>1, <1>2, <1>3, <1>4, <1>5, <1>6, <1>7, <1>8 DEF NextBrowser, SocketIds

\* The player stays in the video; a stored analysis is what one socket heard.
LEMMA OutsideKeeps == ASSUME BrowserInv, NextBrowser PROVE PlayerOK' /\ StoredOK'
<1>1. PlayerOK'
  <2>a. player \in [position : 0 .. Length, paused : BOOLEAN]
    BY DEF BrowserInv, PlayerOK
  <2>b. \A pos \in 0 .. Length : [player EXCEPT !.position = pos] \in [position : 0 .. Length, paused : BOOLEAN]
    BY <2>a
  <2>c. CASE Play
    BY <2>a, <2>c DEF PlayerOK, Play
  <2>d. CASE Pause
    BY <2>a, <2>d DEF PlayerOK, Pause
  <2>e. CASE Tick
    <3>1. player.position \in 0 .. Length /\ player.position < Length
      BY <2>a, <2>e DEF Tick
    <3>2. player.position + 1 \in 0 .. Length
      BY <3>1, BrowserLengths
    <3>3. player' = [player EXCEPT !.position = player.position + 1]
      BY <2>e DEF Tick
    <3> QED BY <2>b, <3>2, <3>3 DEF PlayerOK
  <2>f. ASSUME NEW position \in 0 .. Length, Seek(position) PROVE PlayerOK'
    BY <2>b, <2>f DEF PlayerOK, Seek
  <2>1. CASE Play \/ Pause \/ Tick \/ \E position \in 0 .. Length : Seek(position)
    BY <2>1, <2>c, <2>d, <2>e, <2>f
  <2>2. CASE player' = player
    BY <2>2 DEF BrowserInv, PlayerOK
  <2> QED BY <2>1, <2>2 DEF NextBrowser, Unmount, TimerFires, Accept, Drop, Refuse, End, CloseCompletes, Caption, Result, ClaimResult
<1>2. StoredOK'
  <2>1. CASE stored' = stored
    BY <2>1 DEF BrowserInv, StoredOK
  <2>2. ASSUME NEW s \in SocketIds, stored' = sockets[s].heard PROVE StoredOK'
    BY <2>2 DEF BrowserInv, StoredOK, Agree, BrowserTyped, SocketFits, SocketRec
  <2>3. stored' = stored \/ \E s \in SocketIds : stored' = sockets[s].heard
    BY DEF NextBrowser, SocketIds, Play, Pause, Tick, Seek, Unmount, TimerFires, Accept, Drop, Refuse, End, CloseCompletes, Caption, Result, ClaimResult
  <2> QED BY <2>1, <2>2, <2>3
<1> QED BY <1>1, <1>2

LEMMA BrowserKeeps == BrowserInv /\ [NextBrowser]_browserVars => BrowserInv' /\ Survive(shown, shown')
<1>1. ASSUME BrowserInv, NextBrowser PROVE BrowserInv' /\ Survive(shown, shown')
  BY <1>1, BrowserSteps, OutsideKeeps, NextAgrees DEF BrowserStep
<1>2. ASSUME BrowserInv, UNCHANGED browserVars PROVE BrowserInv' /\ Survive(shown, shown')
  <2>1. BrowserInv'
    BY <1>2 DEF browserVars, BrowserInv, PlayerOK, StoredOK, Agree, BrowserTyped, Attempted, SocketsAgree, HookAgrees, StandsInPlace, Awaited, Waits, SocketFits, SocketLives
  <2> QED BY <1>2, <2>1 DEF Survive, browserVars
<1> QED BY <1>1, <1>2

LEMMA BrowserInvSound == BrowserInv => BrowserSound
<1> SUFFICES ASSUME BrowserInv PROVE BrowserSound
  OBVIOUS
<1>1. /\ Agree(machine, hook, sockets, shown, claims) /\ sockets \in [SocketIds -> SocketRec] /\ \A i \in SocketIds : SocketFits(sockets[i])
      /\ machine \in MachineRec /\ hook \in HookRec
  BY DEF BrowserInv, Agree, BrowserTyped
<1>2. BrowserTypeOK
  BY <1>1 DEF BrowserInv, PlayerOK, StoredOK, Agree, BrowserTyped, BrowserTypeOK, MachineRec, HookRec, SocketRec, SocketStates, SocketFits, SocketIds
<1>3. OwnsResources
  <2>1. ~mounted => machine.phase = "idle"
    BY DEF BrowserInv
  <2>2. (hook.timer <=> machine.phase = "reconnecting") /\ (hook.capture = "forwarding" <=> machine.phase = "streaming")
    BY <1>1 DEF Agree, HookAgrees
  <2>3. \A s \in 1 .. MaxSeq : sockets[s].state \in {"connecting", "open"} <=> s = hook.seq /\ machine.phase \in {"connecting", "streaming", "paused"}
    BY <1>1 DEF Agree, SocketsAgree, SocketLives, Alive, SocketIds
  <2> QED BY <2>1, <2>2, <2>3 DEF OwnsResources
<1>4. NothingLingers
  BY DEF BrowserInv, Awaited, Waits, NothingLingers
<1> QED BY <1>2, <1>3, <1>4 DEF BrowserSound

\* A browser's session, for any length of a video, number of sockets and of
\* attempts: whatever order playback, sockets and the timer report in, the
\* phase, what the hook holds and what the page shows agree (session.ts,
\* use-live-analysis.ts).
THEOREM BrowserIsSound == BrowserSpec => []BrowserSound
<1>1. BrowserInv /\ [NextBrowser]_browserVars => BrowserInv'
  BY BrowserKeeps
<1> QED BY BrowserInit, <1>1, BrowserInvSound, PTL DEF BrowserSpec

\* A verdict on screen stays through seeks, pauses, drops and reconnects, and
\* only another session's statement of the same moment takes its place.
THEOREM BrowserKeepsVerdicts == BrowserSpec => VerdictsSurvive
<1>1. BrowserInv /\ [NextBrowser]_browserVars => BrowserInv'
  BY BrowserKeeps
<1>2. BrowserInv /\ [NextBrowser]_browserVars =>
        [\A t \in Times : shown[t].status = "checked" =>
           \/ shown'[t].status = "checked"
           \/ shown'[t].status = "analysing" /\ shown'[t].session # shown[t].session]_browserVars
  BY BrowserKeeps DEF Survive
<1> QED BY BrowserInit, <1>1, <1>2, PTL DEF BrowserSpec, VerdictsSurvive
=============================================================================
