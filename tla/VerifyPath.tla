----------------------------- MODULE VerifyPath ------------------------------
(***************************************************************************)
(* internal/service/verify_path.go with second_pass.go, political_path.go  *)
(* and the tally of credibility.go: what a worker of a live session does   *)
(* with a unit when the verify path is on.  The unit is split into claims, *)
(* which are announced and then run concurrently: cache, retrieval, a      *)
(* borrowed curated verdict or a verifier call under a bounded pool, the   *)
(* verdict's event, the speaker's tally, and a deeper second look.         *)
(*                                                                         *)
(* The rows and tallies the browser shows are modelled with it             *)
(* (frontend/src/lib/live/claims.ts and speakers.ts): events reach it in   *)
(* the order the sends complete.  A send completes or, once the session is *)
(* cancelled, may be dropped.                                              *)
(***************************************************************************)
EXTENDS Naturals, FiniteSets

CONSTANTS
  Workers,      \* the session's scoring pool
  Units,        \* number of units; unit u is the u-th to be dequeued
  Claims,       \* the claims they may be split into
  UnitOf,       \* UnitOf[c]
  Texts, TextOf,  \* normalized claim texts
  Speakers, Unknown, SpeakerOf,   \* SpeakerOf[u]: label of a unit
  States,       \* verdict states
  Verdicts,     \* the verdicts the judges may reach
  NoVerdict,
  Slots,        \* cap(verifySem)
  QueueDepth,   \* verifyQueue: if positive, a claim waits for a slot
  CacheOn,      \* CacheTTL > 0
  Modes         \* subset of {"credibility", "second pass", "political"}

AllVerdicts == [state : States, grounded : BOOLEAN, deep : BOOLEAN]
Unverifiable == [state |-> "unverifiable", grounded |-> FALSE, deep |-> FALSE]

ASSUME UnitsAssumption ==
  /\ Units \in Nat
  /\ UnitOf \in [Claims -> 1 .. Units]
  /\ TextOf \in [Claims -> Texts]
  /\ SpeakerOf \in [1 .. Units -> Speakers \cup {Unknown}]
  /\ Unknown \notin Speakers
  /\ IsFiniteSet(Claims)
ASSUME VerdictsAssumption ==
  /\ "unverifiable" \in States /\ IsFiniteSet(States)
  /\ Verdicts \subseteq AllVerdicts
  /\ Unverifiable \in Verdicts
  /\ NoVerdict \notin AllVerdicts
ASSUME PoolAssumption ==
  /\ Slots \in Nat \ {0} /\ QueueDepth \in Nat /\ CacheOn \in BOOLEAN
  /\ Modes \subseteq {"credibility", "second pass", "political"}

VARIABLES
  mode,      \* how the path is wired
  next,      \* the next unit of the queue
  worker,    \* worker[w]: control point, unit and the claims it waits for
  job,       \* job[c]: control point, verdict, deeper one, tally snapshot to send
  cache,     \* cache[t]: the cached verdict of a text
  tally,     \* tally[s][k]: speakerCredibility of a speaker
  row,       \* row[c]: the browser's row of a claim
  panel,     \* panel[s]: the browser's tally of a speaker
  answered,  \* units reported as skipped or failed as a whole
  ctxDone

vars == <<mode, next, worker, job, cache, tally, row, panel, answered, ctxDone>>

JobPoints == {"none", "lookup", "retrieve", "route", "checking", "acquire", "wait",
              "verify", "settle", "shed", "fail", "tally", "send tally",
              "consistency", "reverify", "upgrade", "done"}
Statuses == {"none", "pending", "checking", "verified", "unchecked", "error"}
Tallies == [States -> Nat]
NoTally == [k \in States |-> 0]

NoRow == [status |-> "none", verdict |-> NoVerdict]
NoJob == [pc |-> "none", verdict |-> NoVerdict, deeper |-> NoVerdict,
          judged |-> FALSE, evidence |-> FALSE, snap |-> NoTally]
IdleWorker == [pc |-> "idle", unit |-> 0, claims |-> {}]

\* The claims that hold a slot of the verify pool.
Holders == {c \in Claims : job[c].pc = "verify"}

TypeOK ==
  /\ mode \in Modes
  /\ next \in 1 .. Units + 1
  /\ worker \in [Workers -> [pc : {"idle", "gate", "answer", "announce", "claims"},
                             unit : 0 .. Units, claims : SUBSET Claims]]
  /\ job \in [Claims -> [pc : JobPoints, verdict : AllVerdicts \cup {NoVerdict},
                         deeper : AllVerdicts \cup {NoVerdict}, judged : BOOLEAN,
                         evidence : BOOLEAN, snap : Tallies]]
  /\ cache \in [Texts -> Verdicts \cup {NoVerdict}]
  /\ tally \in [Speakers -> Tallies]
  /\ row \in [Claims -> [status : Statuses, verdict : AllVerdicts \cup {NoVerdict}]]
  /\ panel \in [Speakers -> Tallies]
  /\ answered \subseteq 1 .. Units
  /\ ctxDone \in BOOLEAN
  /\ Cardinality(Holders) <= Slots

Init ==
  /\ mode \in Modes
  /\ next = 1
  /\ worker = [w \in Workers |-> IdleWorker]
  /\ job = [c \in Claims |-> NoJob]
  /\ cache = [t \in Texts |-> NoVerdict]
  /\ tally = [s \in Speakers |-> NoTally]
  /\ row = [c \in Claims |-> NoRow]
  /\ panel = [s \in Speakers |-> NoTally]
  /\ answered = {}
  /\ ctxDone = FALSE

-----------------------------------------------------------------------------
(* A unit.                                                                 *)

TakeUnit(w) ==
  /\ worker[w].pc = "idle"
  /\ next <= Units
  /\ worker' = [worker EXCEPT ![w] = [pc |-> "gate", unit |-> next, claims |-> {}]]
  /\ next' = next + 1
  /\ UNCHANGED <<mode, job, cache, tally, row, panel, answered, ctxDone>>

\* The gate fails or skips the unit, nothing is left of it once decomposed, or
\* it is split into claims.
Gate(w) ==
  /\ worker[w].pc = "gate"
  /\ \/ worker' = [worker EXCEPT ![w].pc = "answer"]
     \/ \E S \in (SUBSET {c \in Claims : UnitOf[c] = worker[w].unit}) \ {{}} :
          worker' = [worker EXCEPT ![w].pc = "announce", ![w].claims = S]
  /\ UNCHANGED <<mode, next, job, cache, tally, row, panel, answered, ctxDone>>

\* One result per member: the skip reason, or the failure.
AnswerUnit(w) ==
  /\ worker[w].pc = "answer"
  /\ \/ answered' = answered \cup {worker[w].unit}
     \/ ctxDone /\ UNCHANGED answered
  /\ worker' = [worker EXCEPT ![w] = IdleWorker]
  /\ UNCHANGED <<mode, next, job, cache, tally, row, panel, ctxDone>>

\* The claims event, then one goroutine per claim.
Announce(w) ==
  /\ worker[w].pc = "announce"
  /\ LET S == worker[w].claims
     IN \/ /\ row' = [c \in Claims |->
                        IF c \in S THEN [NoRow EXCEPT !.status = "pending"] ELSE row[c]]
           /\ job' = [c \in Claims |->
                        IF c \in S THEN [NoJob EXCEPT !.pc = "lookup"] ELSE job[c]]
           /\ worker' = [worker EXCEPT ![w].pc = "claims"]
        \/ /\ ctxDone
           /\ worker' = [worker EXCEPT ![w] = IdleWorker]
           /\ UNCHANGED <<row, job>>
  /\ UNCHANGED <<mode, next, cache, tally, panel, answered, ctxDone>>

\* wg.Wait.
UnitDone(w) ==
  /\ worker[w].pc = "claims"
  /\ \A c \in worker[w].claims : job[c].pc = "done"
  /\ worker' = [worker EXCEPT ![w] = IdleWorker]
  /\ UNCHANGED <<mode, next, job, cache, tally, row, panel, answered, ctxDone>>

-----------------------------------------------------------------------------
(* One claim (scoreClaim).                                                 *)

Speaker(c) == SpeakerOf[UnitOf[c]]

Cached(c, v) == IF CacheOn THEN [cache EXCEPT ![TextOf[c]] = v] ELSE cache

\* The claim reached a verdict by itself: cached, then shown.
Reach(c, v, judged) ==
  /\ cache' = Cached(c, v)
  /\ job' = [job EXCEPT ![c].pc = "settle", ![c].verdict = v, ![c].judged = judged]

Goto(c, point) == job' = [job EXCEPT ![c].pc = point]

\* applyClaimResultFrame: a late checking frame does not erase a terminal row.
Show(c, status, v) ==
  row' = [row EXCEPT ![c] =
    IF status = "checking" /\ @.status \in {"verified", "unchecked", "error"}
    THEN @ ELSE [status |-> status, verdict |-> v]]

sessionVars == <<mode, next, worker, answered, ctxDone>>

\* claimCache.get; an entry may have expired, and is then evicted.
Lookup(c) ==
  /\ job[c].pc = "lookup"
  /\ \/ /\ cache[TextOf[c]] # NoVerdict
        /\ job' = [job EXCEPT ![c].pc = "settle", ![c].verdict = cache[TextOf[c]]]
        /\ UNCHANGED cache
     \/ /\ Goto(c, "retrieve")
        /\ cache' = [cache EXCEPT ![TextOf[c]] = NoVerdict]
  /\ UNCHANGED sessionVars /\ UNCHANGED <<tally, row, panel>>

\* Retrieval fails, a near-match in a curated corpus lends its verdict, or the
\* claim goes on with or without evidence; the political path classifies and
\* routes it first.
Retrieve(c) ==
  /\ job[c].pc = "retrieve"
  /\ \/ Goto(c, "fail") /\ UNCHANGED cache
     \/ \E v \in Verdicts : ~v.deep /\ Reach(c, v, FALSE)
     \/ /\ \E e \in BOOLEAN :
             job' = [job EXCEPT ![c].evidence = e,
                       ![c].pc = IF mode = "political" THEN "route" ELSE "checking"]
        /\ UNCHANGED cache
  /\ UNCHANGED sessionVars /\ UNCHANGED <<tally, row, panel>>

Route(c) ==
  /\ job[c].pc = "route"
  /\ \/ Goto(c, "fail")
     \/ \E e \in BOOLEAN :
          job' = [job EXCEPT ![c].pc = "checking", ![c].evidence = e]
  /\ UNCHANGED sessionVars /\ UNCHANGED <<cache, tally, row, panel>>

\* The checking event; without evidence the verdict is unverifiable, with no call.
Checking(c) ==
  /\ job[c].pc = "checking"
  /\ \/ /\ Show(c, "checking", NoVerdict)
        /\ IF job[c].evidence
           THEN Goto(c, "acquire") /\ UNCHANGED cache
           ELSE Reach(c, Unverifiable, FALSE)
     \/ ctxDone /\ Goto(c, "done") /\ UNCHANGED <<row, cache>>
  /\ UNCHANGED sessionVars /\ UNCHANGED <<tally, panel>>

SlotFree == Cardinality(Holders) < Slots

\* acquireVerifySlot: at once, or after a bounded wait, or not at all.
Acquire(c) ==
  /\ job[c].pc = "acquire"
  /\ \/ SlotFree /\ Goto(c, "verify")
     \/ ctxDone /\ Goto(c, "fail")
     \/ ~SlotFree /\ ~ctxDone /\ Goto(c, IF QueueDepth > 0 THEN "wait" ELSE "shed")
  /\ UNCHANGED sessionVars /\ UNCHANGED <<cache, tally, row, panel>>

Wait(c) ==
  /\ job[c].pc = "wait"
  /\ \/ SlotFree /\ Goto(c, "verify")
     \/ ctxDone /\ Goto(c, "fail")
     \/ ~ctxDone /\ Goto(c, "shed")
  /\ UNCHANGED sessionVars /\ UNCHANGED <<cache, tally, row, panel>>

\* Mutant: the verifier is called without a deadline and never answers.
VerifyUnbounded(c) ==
  /\ job[c].pc = "verify"
  /\ ctxDone
  /\ Goto(c, "fail")
  /\ UNCHANGED sessionVars /\ UNCHANGED <<cache, tally, row, panel>>

\* The verifier answers or fails; either way the slot is released.
Verify(c) ==
  /\ job[c].pc = "verify"
  /\ \/ \E v \in Verdicts : ~v.deep /\ Reach(c, v, TRUE)
     \/ Goto(c, "fail") /\ UNCHANGED cache
  /\ UNCHANGED sessionVars /\ UNCHANGED <<tally, row, panel>>

\* emitVerdict.
Settle(c) ==
  /\ job[c].pc = "settle"
  /\ \/ Show(c, "verified", job[c].verdict)
     \/ ctxDone /\ UNCHANGED row
  /\ Goto(c, "tally")
  /\ UNCHANGED sessionVars /\ UNCHANGED <<cache, tally, panel>>

Shed(c) ==
  /\ job[c].pc = "shed"
  /\ \/ Show(c, "unchecked", NoVerdict)
     \/ ctxDone /\ UNCHANGED row
  /\ Goto(c, "done")
  /\ UNCHANGED sessionVars /\ UNCHANGED <<cache, tally, panel>>

\* emitClaimError.
Fail(c) ==
  /\ job[c].pc = "fail"
  /\ \/ Show(c, "error", NoVerdict)
     \/ ctxDone /\ UNCHANGED row
  /\ Goto(c, "done")
  /\ UNCHANGED sessionVars /\ UNCHANGED <<cache, tally, panel>>

-----------------------------------------------------------------------------
(* The speaker's tally and the second pass.                                *)

\* observeVerdict, under the memory's mutex: count and snapshot in one step.
Tally(c) ==
  /\ job[c].pc = "tally"
  /\ IF Speaker(c) = Unknown
     THEN Goto(c, "consistency") /\ UNCHANGED tally
     ELSE /\ tally' = [tally EXCEPT ![Speaker(c)][job[c].verdict.state] = @ + 1]
          /\ job' = [job EXCEPT ![c].pc = "send tally",
                                ![c].snap = tally'[Speaker(c)]]
  /\ UNCHANGED sessionVars /\ UNCHANGED <<cache, row, panel>>

\* Mutant: the browser keeps whichever snapshot came last.
NewerLast(s, snap) == snap

\* sampleSize: what applySpeakerTallyFrame orders snapshots by.
Sample(t) == LET Sum[K \in SUBSET States] ==
                   IF K = {} THEN 0
                   ELSE LET k == CHOOSE k \in K : TRUE IN t[k] + Sum[K \ {k}]
             IN Sum[States]

Newer(s, snap) == IF Sample(panel[s]) > Sample(snap) THEN panel[s] ELSE snap

SendTally(c) ==
  /\ job[c].pc = "send tally"
  /\ \/ panel' = [panel EXCEPT ![Speaker(c)] = Newer(Speaker(c), job[c].snap)]
     \/ ctxDone /\ UNCHANGED panel
  /\ Goto(c, "consistency")
  /\ UNCHANGED sessionVars /\ UNCHANGED <<cache, tally, row>>

\* Mutant: the evidence gate is dropped.
QualifiesAll(c) == mode = "second pass" /\ job[c].judged

\* Only a verdict the verifier just grounded in evidence gets a second look (and
\* only in the middle band of confidence: a choice).
Qualifies(c) == mode = "second pass" /\ job[c].judged /\ job[c].verdict.grounded

\* detectClaimConsistency (SpeakerMemory), then maybeReverify's gate.
Consistency(c) ==
  /\ job[c].pc = "consistency"
  /\ \/ Goto(c, "done")
     \/ Qualifies(c) /\ Goto(c, "reverify")
  /\ UNCHANGED sessionVars /\ UNCHANGED <<cache, tally, row, panel>>

\* The reasoner fails or grounds nothing and the fast verdict stands, or its
\* verdict replaces it: in the cache, then in the row, never in the tally.
Reverify(c) ==
  /\ job[c].pc = "reverify"
  /\ \/ Goto(c, "done") /\ UNCHANGED cache
     \/ \E v \in Verdicts :
          /\ v.deep /\ v.grounded
          /\ cache' = Cached(c, v)
          /\ job' = [job EXCEPT ![c].pc = "upgrade", ![c].deeper = v]
  /\ UNCHANGED sessionVars /\ UNCHANGED <<tally, row, panel>>

Upgrade(c) ==
  /\ job[c].pc = "upgrade"
  /\ \/ Show(c, "verified", job[c].deeper)
     \/ ctxDone /\ UNCHANGED row
  /\ Goto(c, "done")
  /\ UNCHANGED sessionVars /\ UNCHANGED <<cache, tally, panel>>

-----------------------------------------------------------------------------
Cancel ==
  /\ ~ctxDone
  /\ ctxDone' = TRUE
  /\ UNCHANGED <<mode, next, worker, job, cache, tally, row, panel, answered>>

WorkerStep(w) ==
  \/ TakeUnit(w) \/ Gate(w) \/ AnswerUnit(w) \/ Announce(w) \/ UnitDone(w)

ClaimStep(c) ==
  \/ Lookup(c) \/ Retrieve(c) \/ Route(c) \/ Checking(c) \/ Acquire(c) \/ Wait(c)
  \/ Verify(c) \/ Settle(c) \/ Shed(c) \/ Fail(c) \/ Tally(c) \/ SendTally(c)
  \/ Consistency(c) \/ Reverify(c) \/ Upgrade(c)

Next ==
  \/ \E w \in Workers : WorkerStep(w)
  \/ \E c \in Claims : ClaimStep(c)
  \/ Cancel

Spec == Init /\ [][Next]_vars

\* Calls return: decomposition, retrieval and verification have deadlines; that
\* the gate, the classifier, the search of curated claims and the consistency
\* check answer, which have the session's context alone, is assumed.  A wait is
\* under a timer, and a send completes (the writer drains the channel) or the
\* session is cancelled.
Fairness ==
  /\ \A w \in Workers : WF_vars(WorkerStep(w))
  /\ \A c \in Claims : WF_vars(ClaimStep(c))

FairSpec == Spec /\ Fairness

-----------------------------------------------------------------------------
ClaimsOf(u) == {c \in Claims : UnitOf[c] = u}

\* Unit u was dequeued and its worker has moved on.
Handled(u) == u < next /\ \A w \in Workers : worker[w].unit # u

Terminal(c) == row[c].status \in {"verified", "unchecked", "error"}

(* A unit whose worker has moved on was either answered as a whole or shows    *)
(* the reader a terminal row for each claim it announced, and never both or    *)
(* neither, unless the session was cancelled: no error path, shed or timeout   *)
(* leaves a row spinning (scoreUnit, scoreClaim).                              *)
UnitAnswered ==
  \A u \in 1 .. Units :
    Handled(u) /\ ~ctxDone =>
      LET announced == {c \in ClaimsOf(u) : row[c].status # "none"}
      IN /\ u \in answered <=> announced = {}
         /\ \A c \in announced : Terminal(c)

(* When no claim is in flight, the tally the reader sees of a speaker counts   *)
(* exactly the verdicts that speaker's claims first reached, each once, though *)
(* the snapshots are sent concurrently, may arrive in any order, and a second  *)
(* pass may since have replaced a verdict (recordSpeakerTally, maybeReverify,  *)
(* applySpeakerTallyFrame).                                                    *)
TallyFaithful ==
  ~ctxDone /\ (\A c \in Claims : job[c].pc \in {"none", "done"}) =>
    \A s \in Speakers, k \in States :
      panel[s][k] = Cardinality({c \in Claims : /\ Speaker(c) = s
                                                /\ row[c].status = "verified"
                                                /\ job[c].verdict.state = k})

(* What the reader sees of a claim follows ClaimLifecycle whatever the claims  *)
(* of all workers do around it: announced once, one terminal state, a verdict  *)
(* replaced only by a deeper one where both rest on evidence, and a unit left  *)
(* only with its rows settled.                                                 *)
Lifecycle == INSTANCE ClaimLifecycle
  WITH finished <- {c \in Claims : Handled(UnitOf[c])}, cancelled <- ctxDone
ImplementsLifecycle == Lifecycle!Spec

(* An announced claim comes to a terminal row, however the pool, the retrieval *)
(* and the verifier behave, unless the session is cancelled.                   *)
ClaimsSettle ==
  \A c \in Claims : row[c].status = "pending" ~> Terminal(c) \/ ctxDone

(* "It cannot consume the live path's best-effort scoring capacity"            *)
(* (second_pass.go): the scoring workers are never all held by claims in their *)
(* second pass alone while a unit waits for one.                               *)
SecondPassLeavesCapacity ==
  next <= Units =>
    \E w \in Workers :
      \/ worker[w].pc # "claims"
      \/ \A c \in worker[w].claims : job[c].pc # "reverify"
      \/ \E c \in worker[w].claims : job[c].pc \notin {"reverify", "done"}

(* "VerifyQueueDepth bounds the per-unit claims waiting for a verify slot      *)
(* before a claim is shed to unchecked" (VerifyPathConfig).                    *)
QueueBounded ==
  \A u \in 1 .. Units :
    Cardinality({c \in ClaimsOf(u) : job[c].pc = "wait"}) <= QueueDepth

(* "A repeat of the same claim within the TTL replays the upgraded verdict,    *)
(* not the stale fast one" (maybeReverify): a deeper verdict stays in the      *)
(* cache until it expires.                                                     *)
CacheKeepsUpgrade ==
  [][\A t \in Texts :
       cache[t] # NoVerdict /\ cache[t].deep =>
         cache'[t] = NoVerdict \/ cache'[t].deep]_vars

\* Types, every unit answered, and a tally that counts what was answered.
VerifySound == TypeOK /\ UnitAnswered /\ TallyFaithful
==============================================================================
