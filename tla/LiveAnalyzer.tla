---------------------------- MODULE LiveAnalyzer -----------------------------
(***************************************************************************)
(* internal/service/live.go: one live session.  A loop receives the        *)
(* provider's transcripts, emits a subtitle for each finalized segment at  *)
(* once, gathers consecutive segments of one speaker into a unit and hands *)
(* full or idle units to a pool of workers through a bounded queue; a      *)
(* worker scores a unit and emits one result per member.  A send on the    *)
(* unbuffered event channel is a step of its own: it completes when the    *)
(* consumer takes the event, or gives up once the context is cancelled.    *)
(*                                                                         *)
(* Segment ids are 1, 2, ... (the code's strconv.Itoa(seq) from 0).  Ids   *)
(* are appended in increasing order, so a unit's member list is the set of *)
(* its ids and its first member is the least one.                          *)
(***************************************************************************)
EXTENDS TextShape, Sequences, FiniteSets

CONSTANTS
  Speakers,       \* diarization labels
  Unknown,        \* the empty label
  Segments,       \* finalized segments the provider may commit
  Workers,        \* the scoring pool (concurrency)
  QueueDepth,     \* capacity of the unit queue
  MaxSentences,   \* sentence cap of a unit
  MaxIdleHolds,   \* int(maxHold / idleFlush)
  StanceOn,       \* intra-speaker consistency is configured
  MaxSegments     \* bound: finalized segments in one session

ASSUME SpeakersAssumption == Unknown \notin Speakers
ASSUME SegmentsAssumption ==
  Segments \subseteq [speaker : Speakers \cup {Unknown}, shape : Shapes]
ASSUME BoundsAssumption ==
  /\ QueueDepth \in Nat \ {0}
  /\ MaxSentences \in Nat \ {0}
  /\ MaxIdleHolds \in Nat
  /\ StanceOn \in BOOLEAN
  /\ MaxSegments \in Nat
ASSUME WorkersAssumption == Workers # {}

VARIABLES
  segs,        \* finalized segments received so far; segs[i] has id i
  loop,        \* control point of analyzeLoop
  after,       \* where the loop goes once a shed unit is reported
  unit,        \* liveUnit: the unit being accumulated
  timer,       \* the idle timer is armed
  idleHolds,   \* consecutive idle windows the unit has been held
  shedding,    \* members of a shed unit not yet reported not_checked
  queue,       \* pendingUnits waiting for a worker
  queueClosed,
  worker,      \* worker[w]: control point, unit and outcome of a worker
  subtitled,   \* ids whose subtitle the consumer has taken
  results,     \* results[i]: the result kinds the consumer took for id i
  ended,       \* the provider closed the transcript channel
  ctxDone,     \* the session's context is cancelled
  outClosed    \* close(out)

vars == <<segs, loop, after, unit, timer, idleHolds, shedding, queue,
          queueClosed, worker, subtitled, results, ended, ctxDone, outClosed>>

Ids == 1 .. MaxSegments
Received == 1 .. Len(segs)

LoopPoints == {"select", "interim", "subtitle", "join", "full", "shed",
               "stopping", "waiting", "closed"}
WorkerPoints == {"idle", "judge", "emit", "consistency", "exited"}
Outcomes == {"checked", "skipped", "failed"}
ResultKinds == Outcomes \cup {"not_checked"}

PendingUnits == [members : SUBSET Ids, speaker : Speakers \cup {Unknown}]
LiveUnits == [members : SUBSET Ids, speaker : Speakers \cup {Unknown},
              sentences : Nat, shape : Shapes]

EmptyUnit == [members |-> {}, speaker |-> Unknown, sentences |-> 0,
              shape |-> NoText]
NoUnit == [members |-> {}, speaker |-> Unknown]

IdleWorker == [pc |-> "idle", pu |-> NoUnit, todo |-> {}, outcome |-> "failed"]

TypeOK ==
  /\ segs \in Seq(Segments) /\ Len(segs) <= MaxSegments
  /\ loop \in LoopPoints
  /\ after \in {"join", "select", "stopping"}
  /\ unit \in LiveUnits
  /\ timer \in BOOLEAN
  /\ idleHolds \in 0 .. MaxIdleHolds
  /\ shedding \subseteq Ids
  /\ queue \in Seq(PendingUnits) /\ Len(queue) <= QueueDepth
  /\ queueClosed \in BOOLEAN
  /\ worker \in [Workers -> [pc : WorkerPoints, pu : PendingUnits,
                             todo : SUBSET Ids, outcome : Outcomes]]
  /\ subtitled \subseteq Ids
  /\ results \in [Ids -> Seq(ResultKinds)]
  /\ ended \in BOOLEAN
  /\ ctxDone \in BOOLEAN
  /\ outClosed \in BOOLEAN

Init ==
  /\ segs = << >>
  /\ loop = "select"
  /\ after = "select"
  /\ unit = EmptyUnit
  /\ timer = FALSE
  /\ idleHolds = 0
  /\ shedding = {}
  /\ queue = << >>
  /\ queueClosed = FALSE
  /\ worker = [w \in Workers |-> IdleWorker]
  /\ subtitled = {}
  /\ results = [i \in Ids |-> << >>]
  /\ ended = FALSE
  /\ ctxDone = FALSE
  /\ outClosed = FALSE

-----------------------------------------------------------------------------
(* The unit and its boundaries.                                            *)

IsEmpty(u) == u.members = {}

\* An unknown label on either side continues the unit.
SameSpeaker(incoming, current) ==
  incoming = Unknown \/ current = Unknown \/ incoming = current

\* liveUnit.add: the first known label names the unit.
Add(u, id, seg) ==
  [members   |-> u.members \cup {id},
   speaker   |-> IF u.speaker = Unknown THEN seg.speaker ELSE u.speaker,
   sentences |-> u.sentences + SentenceCount(seg.shape),
   shape     |-> Joined(u.shape, seg.shape)]

Latest == Len(segs)

Boundary(seg) ==
  /\ ~IsEmpty(unit)
  /\ \/ ~SameSpeaker(seg.speaker, unit.speaker)
     \/ unit.sentences + SentenceCount(seg.shape) > MaxSentences

Pending(u) == [members |-> u.members, speaker |-> u.speaker]

FirstOf(ids) == CHOOSE i \in ids : \A j \in ids : i <= j

Deliver(i, kind) == results' = [results EXCEPT ![i] = Append(@, kind)]

-----------------------------------------------------------------------------
(* analyzeLoop.                                                            *)

\* flush and dispatch.  The unit is detached and the timer stopped whatever
\* the queue says; a full queue sheds the unit, a cancelled context ends the
\* loop (the select picks either ready case).
Flush(next) ==
  /\ unit' = EmptyUnit
  /\ timer' = FALSE
  /\ idleHolds' = 0
  /\ \/ /\ Len(queue) < QueueDepth
        /\ queue' = Append(queue, Pending(unit))
        /\ loop' = next
        /\ UNCHANGED <<shedding, after>>
     \/ /\ ctxDone
        /\ loop' = "stopping"
        /\ UNCHANGED <<queue, shedding, after>>
     \/ /\ Len(queue) >= QueueDepth
        /\ ~ctxDone
        /\ shedding' = unit.members
        /\ after' = next
        /\ loop' = "shed"
        /\ UNCHANGED queue
  /\ UNCHANGED <<segs, queueClosed, worker, subtitled, results, ended, ctxDone,
                 outClosed>>

\* Only the loop's control point moves.
Goto(point) ==
  /\ loop' = point
  /\ UNCHANGED <<segs, after, unit, timer, idleHolds, shedding, queue,
                 queueClosed, worker, subtitled, results, ended, ctxDone,
                 outClosed>>

SelectCancelled ==
  /\ loop = "select"
  /\ ctxDone
  /\ Goto("stopping")

HoldNow == /\ ~IsEmpty(unit)
           /\ idleHolds < MaxIdleHolds
           /\ IncompleteTrailingFragment(unit.shape)

\* Mutant: a held unit's timer is not reset.
IdleHoldNoReset ==
  /\ loop = "select"
  /\ timer
  /\ HoldNow
  /\ idleHolds' = idleHolds + 1
  /\ timer' = FALSE
  /\ UNCHANGED <<segs, loop, after, unit, shedding, queue, queueClosed,
                 worker, subtitled, results, ended, ctxDone, outClosed>>

\* The idle timer fires on a unit that ends mid-sentence: hold it one window.
IdleHold ==
  /\ loop = "select"
  /\ timer
  /\ HoldNow
  /\ idleHolds' = idleHolds + 1
  /\ UNCHANGED <<segs, loop, after, unit, timer, shedding, queue, queueClosed,
                 worker, subtitled, results, ended, ctxDone, outClosed>>

\* Mutant: an idle unit is scored only once its sentence is complete.
IdleFlushComplete ==
  /\ loop = "select"
  /\ timer
  /\ ~IncompleteTrailingFragment(unit.shape)
  /\ Flush("select")

IdleFlush ==
  /\ loop = "select"
  /\ timer
  /\ ~HoldNow
  /\ Flush("select")

ReceiveInterim ==
  /\ loop = "select"
  /\ ~ended
  /\ Goto("interim")

EmitInterim ==
  /\ loop = "interim"
  /\ \/ Goto("select")
     \/ ctxDone /\ Goto("stopping")

ReceiveFinal ==
  /\ loop = "select"
  /\ ~ended
  /\ Len(segs) < MaxSegments
  /\ \E seg \in Segments : segs' = Append(segs, seg)
  /\ loop' = "subtitle"
  /\ UNCHANGED <<after, unit, timer, idleHolds, shedding, queue, queueClosed,
                 worker, subtitled, results, ended, ctxDone, outClosed>>

EmitSubtitle ==
  /\ loop = "subtitle"
  /\ \/ /\ subtitled' = subtitled \cup {Latest}
        /\ loop' = "join"
     \/ /\ ctxDone
        /\ loop' = "stopping"
        /\ UNCHANGED subtitled
  /\ UNCHANGED <<segs, after, unit, timer, idleHolds, shedding, queue,
                 queueClosed, worker, results, ended, ctxDone, outClosed>>

\* The new segment may not join: the current unit goes first.
FlushBoundary ==
  /\ loop = "join"
  /\ Boundary(segs[Latest])
  /\ Flush("join")

AddSegment ==
  /\ loop = "join"
  /\ ~Boundary(segs[Latest])
  /\ unit' = Add(unit, Latest, segs[Latest])
  /\ idleHolds' = 0
  /\ timer' = TRUE
  /\ loop' = IF unit'.sentences >= MaxSentences THEN "full" ELSE "select"
  /\ UNCHANGED <<segs, after, shedding, queue, queueClosed, worker, subtitled,
                 results, ended, ctxDone, outClosed>>

FlushFull ==
  /\ loop = "full"
  /\ Flush("select")

\* Mutant: the trailing unit is not flushed.
EndOfStreamNoFlush ==
  /\ loop = "select"
  /\ ended
  /\ Goto("stopping")

\* The transcript channel is closed: score the trailing unit, then return.
EndOfStream ==
  /\ loop = "select"
  /\ ended
  /\ IF IsEmpty(unit) THEN Goto("stopping") ELSE Flush("stopping")

\* dispatch's default case, one not_checked result at a time.
EmitShed ==
  /\ loop = "shed"
  /\ \/ /\ Deliver(FirstOf(shedding), "not_checked")
        /\ shedding' = shedding \ {FirstOf(shedding)}
        /\ loop' = IF shedding' = {} THEN after ELSE "shed"
     \/ /\ ctxDone
        /\ shedding' = {}
        /\ loop' = "stopping"
        /\ UNCHANGED results
  /\ UNCHANGED <<segs, after, unit, timer, idleHolds, queue, queueClosed,
                 worker, subtitled, ended, ctxDone, outClosed>>

\* The deferred close(queue); wg.Wait(); close(out), in that order.
CloseQueue ==
  /\ loop = "stopping"
  /\ queueClosed' = TRUE
  /\ loop' = "waiting"
  /\ UNCHANGED <<segs, after, unit, timer, idleHolds, shedding, queue, worker,
                 subtitled, results, ended, ctxDone, outClosed>>

CloseOut ==
  /\ loop = "waiting"
  /\ \A w \in Workers : worker[w].pc = "exited"
  /\ outClosed' = TRUE
  /\ loop' = "closed"
  /\ UNCHANGED <<segs, after, unit, timer, idleHolds, shedding, queue,
                 queueClosed, worker, subtitled, results, ended, ctxDone>>

-----------------------------------------------------------------------------
(* The worker pool.                                                        *)

loopVars == <<segs, loop, after, unit, timer, idleHolds, shedding,
              queueClosed, subtitled, ended, ctxDone, outClosed>>

Take(w) ==
  /\ worker[w].pc = "idle"
  /\ queue # << >>
  /\ queue' = Tail(queue)
  /\ worker' = [worker EXCEPT ![w] = [pc |-> "judge", pu |-> Head(queue),
                                      todo |-> Head(queue).members,
                                      outcome |-> "failed"]]
  /\ UNCHANGED loopVars /\ UNCHANGED results

Exit(w) ==
  /\ worker[w].pc = "idle"
  /\ queue = << >>
  /\ queueClosed
  /\ worker' = [worker EXCEPT ![w].pc = "exited"]
  /\ UNCHANGED loopVars /\ UNCHANGED <<queue, results>>

\* gateAndMatch: the gate skips the text, the matcher answers, or one fails.
Judge(w) ==
  /\ worker[w].pc = "judge"
  /\ \E o \in Outcomes :
       worker' = [worker EXCEPT ![w].pc = "emit", ![w].outcome = o]
  /\ UNCHANGED loopVars /\ UNCHANGED <<queue, results>>

\* detectConsistency returns at once without a stance model or a known speaker.
ChecksConsistency(s) ==
  s.outcome = "checked" /\ StanceOn /\ s.pu.speaker # Unknown

EmitResult(w) ==
  LET s == worker[w]
      i == FirstOf(s.todo)
  IN /\ s.pc = "emit"
     /\ \/ /\ Deliver(i, s.outcome)
           /\ worker' = [worker EXCEPT ![w] =
                IF s.todo # {i} THEN [s EXCEPT !.todo = @ \ {i}]
                ELSE IF ChecksConsistency(s)
                     THEN [s EXCEPT !.todo = {}, !.pc = "consistency"]
                     ELSE IdleWorker]
        \/ /\ ctxDone
           /\ worker' = [worker EXCEPT ![w] = IdleWorker]
           /\ UNCHANGED results
     /\ UNCHANGED loopVars /\ UNCHANGED queue

\* detectConsistency, whose steps SpeakerMemory models.
DetectConsistency(w) ==
  /\ worker[w].pc = "consistency"
  /\ worker' = [worker EXCEPT ![w] = IdleWorker]
  /\ UNCHANGED loopVars /\ UNCHANGED <<queue, results>>

-----------------------------------------------------------------------------
(* The session's surroundings.                                             *)

ProviderEnds ==
  /\ ~ended
  /\ ended' = TRUE
  /\ UNCHANGED <<segs, loop, after, unit, timer, idleHolds, shedding, queue,
                 queueClosed, worker, subtitled, results, ctxDone, outClosed>>

Cancel ==
  /\ ~ctxDone
  /\ ctxDone' = TRUE
  /\ UNCHANGED <<segs, loop, after, unit, timer, idleHolds, shedding, queue,
                 queueClosed, worker, subtitled, results, ended, outClosed>>

LoopStep ==
  \/ SelectCancelled \/ IdleHold \/ IdleFlush \/ ReceiveInterim \/ EmitInterim
  \/ ReceiveFinal \/ EmitSubtitle \/ FlushBoundary \/ AddSegment \/ FlushFull
  \/ EndOfStream \/ EmitShed \/ CloseQueue \/ CloseOut

WorkerStep(w) ==
  Take(w) \/ Exit(w) \/ Judge(w) \/ EmitResult(w) \/ DetectConsistency(w)

Next == \/ LoopStep
        \/ \E w \in Workers : WorkerStep(w)
        \/ ProviderEnds
        \/ Cancel

(***************************************************************************)
(* A goroutine that can run runs; a select with several ready cases picks  *)
(* one at random, so none is ignored for ever; a consumer that stops       *)
(* taking events cancels the context.  Nothing is assumed of the provider  *)
(* or of whoever cancels.                                                  *)
(***************************************************************************)
Fairness ==
  /\ WF_vars(EmitInterim \/ EmitSubtitle \/ FlushBoundary \/ AddSegment
             \/ FlushFull \/ EmitShed \/ CloseQueue \/ CloseOut)
  /\ SF_vars(SelectCancelled)
  /\ SF_vars(IdleHold \/ IdleFlush)
  /\ SF_vars(EndOfStream)
  /\ \A w \in Workers : WF_vars(WorkerStep(w))

Spec == Init /\ [][Next]_vars
FairSpec == Spec /\ Fairness

-----------------------------------------------------------------------------
(* Properties.                                                             *)

Resolved == {i \in Ids : results[i] # << >>}

\* Where a statement that has no result yet may be.
InQueue == UNION {queue[k].members : k \in 1 .. Len(queue)}
InWorkers == UNION {worker[w].todo : w \in Workers}
Joining == IF loop = "join" \/ (loop = "shed" /\ after = "join")
           THEN {Latest}
           ELSE {}
Held == unit.members \cup shedding \cup InQueue \cup InWorkers \cup Joining

\* However units are flushed, shed, queued and scored, no statement gets a
\* second result, and none gets one before its subtitle (analyzeLoop, dispatch
\* and scoreUnit together).
ResolvedOnce ==
  \A i \in Ids : /\ Len(results[i]) <= 1
                 /\ results[i] # << >> => i \in subtitled

\* Until the session is cancelled, a captioned statement is never lost on its
\* way through the unit, the shed loop, the queue and the workers.
NothingLost == ~ctxDone => subtitled \subseteq Held \cup Resolved

Units == {Pending(unit)} \cup {queue[k] : k \in 1 .. Len(queue)}
         \cup {worker[w].pu : w \in Workers}

\* A unit never blends two known speakers, and carries the label consistency
\* attributes its statement to.
OneVoice ==
  \A u \in Units : \A i \in u.members :
    segs[i].speaker \in {Unknown, u.speaker}

\* A unit waiting for the loop holds at most MaxSentences sentences unless it
\* is a single longer segment.
WithinCap ==
  /\ unit.sentences > MaxSentences => Cardinality(unit.members) = 1
  /\ loop = "select" => unit.sentences < MaxSentences

\* The loop never waits with a buffered unit and no timer to flush it, and no
\* stale timer outlives a flush.
TimerGuardsUnit == loop = "select" => (timer <=> ~IsEmpty(unit))

-----------------------------------------------------------------------------
(* The inductive invariant behind ResolvedOnce, NothingLost and the        *)
(* refinement: which ids are captioned at each control point, and that an  *)
(* unresolved statement is in exactly one place.                           *)

Queued(i) == \E k \in 1 .. Len(queue) : i \in queue[k].members
Scoring(i) == \E w \in Workers : i \in worker[w].todo

Captions ==
  /\ subtitled \subseteq Received
  /\ loop = "subtitle" => segs # << >> /\ subtitled = 1 .. Len(segs) - 1
  /\ loop \in {"select", "interim", "join", "full", "shed"} => subtitled = Received
  /\ Joining # {} => segs # << >>

\* Control points agree with what is buffered where.
Control ==
  /\ loop = "shed" <=> shedding # {}
  /\ loop = "full" => ~IsEmpty(unit)
  /\ timer <=> ~IsEmpty(unit)
  /\ loop = "shed" => IsEmpty(unit)
  /\ \A k \in 1 .. Len(queue) : queue[k].members # {}
  /\ \A w \in Workers : worker[w].pc \in {"judge", "emit"} <=> worker[w].todo # {}
  /\ outClosed <=> loop = "closed"
  /\ queueClosed <=> loop \in {"waiting", "closed"}
  /\ \A w \in Workers : worker[w].pc = "exited" => queueClosed /\ queue = << >>
  /\ loop = "closed" => \A w \in Workers : worker[w].pc = "exited"
  /\ loop \in {"stopping", "waiting", "closed"} /\ ~ctxDone => IsEmpty(unit)

OneCopy ==
  /\ \A i \in unit.members : ~(i \in shedding \/ Queued(i) \/ Scoring(i))
  /\ \A i \in shedding : ~(Queued(i) \/ Scoring(i))
  /\ \A i \in Ids : ~(Queued(i) /\ Scoring(i))
  /\ \A k, l \in 1 .. Len(queue) :
       k # l => queue[k].members \cap queue[l].members = {}
  /\ \A v, w \in Workers : v # w => worker[v].todo \cap worker[w].todo = {}

\* What is held is captioned, not about to join, and has no result.
HeldIsOpen ==
  \A i \in Ids :
    i \in unit.members \/ i \in shedding \/ Queued(i) \/ Scoring(i)
      => i \in subtitled \ Joining /\ results[i] = << >>

JoiningIsOpen == \A i \in Joining : results[i] = << >>

\* Every statement is in one place at a time, and a result exists only for one
\* that is in none (the bookkeeping analyzeLoop, dispatch and the pool share).
SessionInv ==
  /\ Captions /\ Control /\ OneCopy /\ HeldIsOpen /\ JoiningIsOpen
  /\ ResolvedOnce /\ NothingLost

\* Types, and what keeps a session's bookkeeping right: the places a statement
\* can be, units of one voice within the cap, and a timer for what waits.
SessionSound == TypeOK /\ SessionInv /\ OneVoice /\ WithinCap /\ TimerGuardsUnit

-----------------------------------------------------------------------------
\* The consumer's view of the session is that of Statements.
Promise == INSTANCE Statements WITH
             MaxStatements <- MaxSegments,
             captioned <- subtitled,
             resolved <- Resolved,
             cancelled <- ctxDone,
             closed <- outClosed

ImplementsStatements == Promise!Spec

\* Every captioned statement gets a result, though the provider may fall
\* silent, unless the session is cancelled first.
EveryStatementResolved ==
  \A i \in Ids : (i \in subtitled) ~> (i \in Resolved \/ ctxDone)

\* Once the provider ends or the context is cancelled, the pool drains and the
\* event channel closes.
StreamCloses == (ended \/ ctxDone) ~> outClosed

\* A statement once captioned gets its verdict and a stream once over gets its
\* end: neither is left to hang by the hold, the queue or the pool.
StreamsFinish == EveryStatementResolved /\ StreamCloses
==============================================================================
