-------------------------- MODULE SpeakerMemoryProofs -------------------------
(***************************************************************************)
(* Theorems about SpeakerMemory, for every number of workers, speakers,    *)
(* statements and stance slots, and every similarity; and about the audio  *)
(* of a Transcriber, for every size of chunk and frame.                    *)
(***************************************************************************)
EXTENDS Integers, SpeakerMemory, Transcriber, FiniteSetTheorems, SequenceTheorems,
        WellFoundedInduction, TLAPS

Busy(w) == det[w].pc # "idle"
Ranking(w) == det[w].pc \in {"compare", "stance", "flag", "remember"}
Holding(w) == det[w].pc = "prior" \/ Ranking(w)

\* A statement taken from the queue is at one worker only.
Claimed ==
  /\ \A w \in Workers : Busy(w) => det[w].stmt \in Statements /\ det[w].stmt < next
  /\ \A w, v \in Workers :
       Busy(w) /\ Busy(v) /\ det[w].stmt = det[v].stmt => w = v

\* A worker past Lock has a known speaker and holds that speaker's lock.
Attributed ==
  \A w \in Workers : det[w].pc = "lock" \/ Holding(w) => Speaker(w) \in Speakers
Owned == \A w \in Workers : Holding(w) => lock[Speaker(w)] = w

\* What a history holds was taken before, is that speaker's, and is at no worker.
Recorded ==
  \A s \in Speakers : \A p \in Priors(s) :
    /\ p < next
    /\ speakerOf[p] = s
    /\ \A w \in Workers : Busy(w) => det[w].stmt # p

\* Between Prior and Remember the history is still the one that was read.
RankedAll ==
  \A w \in Workers : Ranking(w) => Priors(Speaker(w)) \subseteq seen[det[w].stmt]

\* The candidates left, and the one the model is asked about, are of the history.
FromHistory ==
  \A w \in Workers :
    /\ Ranking(w) => det[w].left \subseteq Priors(Speaker(w))
    /\ det[w].pc \in {"stance", "flag"} => det[w].hit \in Priors(Speaker(w))

\* A statement with a flag is past its flag.
Flagged ==
  \A f \in flags :
    /\ f.stmt < next
    /\ \A w \in Workers : Busy(w) /\ det[w].stmt = f.stmt => det[w].pc = "remember"

Core ==
  /\ Claimed /\ Attributed /\ Owned /\ Recorded
  /\ RankedAll /\ FromHistory /\ Flagged
  /\ NoPairMissed /\ FlagsAreSound /\ OneFlagEach
IInv == TypeOK /\ IsFiniteSet(InStance) /\ Core

-----------------------------------------------------------------------------
(* The operators.                                                          *)

\* What is in a history has a place in it.
LEMMA PositionOf ==
  ASSUME TypeOK, NEW s \in Speakers, NEW p \in Priors(s)
  PROVE  /\ Position(s, p) \in 1 .. Len(history[s])
         /\ history[s][Position(s, p)] = p
<1>1. \E k \in 1 .. Len(history[s]) : history[s][k] = p
  BY DEF Priors
<1> QED BY <1>1 DEF Position

\* Closer is a strict total order on a history.
LEMMA CloserOrder ==
  ASSUME TypeOK, NEW s \in Speakers, NEW i \in Statements
  PROVE  /\ \A p \in Priors(s) : ~Closer(s, i, p, p)
         /\ \A p, q \in Priors(s) : p # q => Closer(s, i, p, q) \/ Closer(s, i, q, p)
         /\ \A p, q, r \in Priors(s) :
              Closer(s, i, p, q) /\ Closer(s, i, q, r) => Closer(s, i, p, r)
<1> DEFINE Sim(p) == Similarity[<<i, p>>]
<1>1. ASSUME NEW p \in Priors(s)
      PROVE  /\ p \in Statements /\ Sim(p) \in Nat
             /\ Position(s, p) \in Nat /\ history[s][Position(s, p)] = p
  <2>1. history[s] \in Seq(Statements)
    BY DEF TypeOK
  <2>2. Len(history[s]) \in Nat
    BY <2>1
  <2>3. Position(s, p) \in Nat /\ history[s][Position(s, p)] = p
    BY <2>2, PositionOf
  <2>4. p \in Statements
    BY <2>1, <2>3, PositionOf
  <2>5. <<i, p>> \in Statements \X Statements
    BY <2>4
  <2>6. Sim(p) \in Nat
    BY <2>5, SimilarityAssumption
  <2> QED BY <2>3, <2>4, <2>6
<1> HIDE DEF Sim
<1>2. \A p, q : Closer(s, i, p, q) <=>
        \/ Sim(p) > Sim(q)
        \/ Sim(p) = Sim(q) /\ Position(s, p) < Position(s, q)
  BY DEF Closer, Sim
<1>3. \A p \in Priors(s) : ~Closer(s, i, p, p)
  BY <1>1, <1>2
<1>4. ASSUME NEW p \in Priors(s), NEW q \in Priors(s), p # q
      PROVE  Closer(s, i, p, q) \/ Closer(s, i, q, p)
  <2>1. Position(s, p) # Position(s, q)
    BY <1>1, <1>4
  <2> QED BY <2>1, <1>1, <1>2
<1>5. ASSUME NEW p \in Priors(s), NEW q \in Priors(s), NEW r \in Priors(s),
             Closer(s, i, p, q), Closer(s, i, q, r)
      PROVE  Closer(s, i, p, r)
  BY <1>1, <1>2, <1>5
<1> QED BY <1>3, <1>4, <1>5

\* So a worker with candidates left has a closest one.
LEMMA ClosestIsLeft ==
  ASSUME TypeOK, NEW w \in Workers, Speaker(w) \in Speakers,
         det[w].stmt \in Statements,
         det[w].left \subseteq Priors(Speaker(w)), det[w].left # {}
  PROVE  Closest(w) \in det[w].left
<1> DEFINE s == Speaker(w)
           i == det[w].stmt
           L == det[w].left
           Above(p) == {q \in L : Closer(s, i, q, p)}
           T == {Above(p) : p \in L}
           R == StrictSubsetOrdering(L)
           F == FiniteSubsetsOf(L)
<1>1. IsFiniteSet(L)
  <2>1. L \in SUBSET (1 .. MaxStatements)
    BY DEF TypeOK, Detections, Statements
  <2>2. IsFiniteSet(1 .. MaxStatements)
    <3>1. 1 \in Int /\ MaxStatements \in Int
      BY MaxAssumption
    <3> QED BY <3>1, FS_Interval, Zenon
  <2> QED BY <2>1, <2>2, FS_Subset
<1>2. IsWellFoundedOn(R, F)
  BY FS_StrictSubsetOrderingWellFounded, Zenon
<1>3. T \subseteq F /\ T # {}
  <2>1. ASSUME NEW p \in L PROVE Above(p) \in F
    <3>1. Above(p) \subseteq L
      OBVIOUS
    <3>2. IsFiniteSet(Above(p))
      BY <3>1, <1>1, FS_Subset
    <3> QED BY <3>1, <3>2 DEF FiniteSubsetsOf
  <2> QED BY <2>1
<1>4. PICK X \in T : \A Y \in T : ~(<<Y, X>> \in R)
  <2> HIDE DEF R, F, T
  <2> QED BY <1>2, <1>3, WFMin
<1>5. PICK p \in L : X = Above(p)
  BY <1>4
<1>6. ASSUME NEW q \in L, Closer(s, i, q, p) PROVE FALSE
  <2>1. Above(q) \subseteq Above(p)
    <3>1. \A r \in L : Closer(s, i, r, q) => Closer(s, i, r, p)
      <4> HIDE DEF s, i, L
      <4>1. L \subseteq Priors(s) /\ s \in Speakers /\ i \in Statements
        BY DEF s, i, L
      <4> QED BY <4>1, <1>6, CloserOrder
    <3> QED BY <3>1
  <2>2. q \in Above(p)
    BY <1>6
  <2>3. q \notin Above(q)
    BY CloserOrder
  <2>4. <<Above(q), Above(p)>> \in R
    <3>1. Above(q) # Above(p)
      BY <2>2, <2>3
    <3>2. Above(q) \in F /\ Above(p) \in F
      BY <1>3
    <3> QED BY <2>1, <3>1, <3>2 DEF StrictSubsetOrdering, FiniteSubsetsOf
  <2> QED BY <2>4, <1>4, <1>5
<1>7. \A q \in L \ {p} : Closer(s, i, p, q)
  BY <1>6, CloserOrder
<1> QED BY <1>7 DEF Closest

-----------------------------------------------------------------------------
(* What an action does to the worker it is of, and to no other.            *)

Moved(w, pc, stmt, left, hit) ==
  /\ det' \in [Workers -> Detections]
  /\ \A v \in Workers : v # w => det'[v] = det[v]
  /\ det'[w].pc = pc /\ det'[w].stmt = stmt
  /\ det'[w].left = left /\ det'[w].hit = hit
Dropped(w) == Moved(w, "idle", 0, {}, 0)

\* A worker's record replaced by a well-typed one.
LEMMA Replaced ==
  ASSUME TypeOK, NEW w \in Workers, NEW d \in Detections,
         det' = [det EXCEPT ![w] = d]
  PROVE  Moved(w, d.pc, d.stmt, d.left, d.hit)
BY DEF TypeOK, Moved

LEMMA DropMoves ==
  ASSUME TypeOK, NEW w \in Workers, det' = [det EXCEPT ![w] = Idle]
  PROVE  Dropped(w)
<1>1. Idle \in Detections /\ Idle.pc = "idle" /\ Idle.stmt = 0 /\ Idle.left = {}
      /\ Idle.hit = 0
  BY DEF Idle, Detections, Points
<1> QED BY <1>1, Replaced DEF Dropped

LEMMA TakeMoves ==
  ASSUME TypeOK, NEW w \in Workers, Take(w)
  PROVE  Moved(w, "scoring", next, {}, 0)
<1> DEFINE d == [pc |-> "scoring", stmt |-> next, left |-> {}, hit |-> 0]
<1>1. det' = [det EXCEPT ![w] = d]
  BY DEF Take
<1>2. d \in Detections
  BY MaxAssumption DEF Take, TypeOK, Detections, Points, Statements
<1> HIDE DEF d
<1>3. Moved(w, d.pc, d.stmt, d.left, d.hit)
  BY <1>1, <1>2, Replaced
<1> QED BY <1>3 DEF d

\* Every other step changes the control point, and perhaps what is left to try.
LEMMA StepMoves ==
  ASSUME TypeOK, NEW w \in Workers, NEW pc \in Points,
         NEW left \in SUBSET Statements, NEW hit \in Statements \cup {0},
         det' = [det EXCEPT ![w].pc = pc, ![w].left = left, ![w].hit = hit]
  PROVE  Moved(w, pc, det[w].stmt, left, hit)
<1>1. det[w] \in Detections
  BY DEF TypeOK
<1>2. /\ det' \in [Workers -> Detections]
      /\ \A v \in Workers : v # w => det'[v] = det[v]
  BY <1>1 DEF TypeOK, Detections
<1>3. /\ det'[w].pc = pc /\ det'[w].stmt = det[w].stmt
      /\ det'[w].left = left /\ det'[w].hit = hit
  BY <1>1 DEF TypeOK, Detections
<1> QED BY <1>2, <1>3 DEF Moved

LEMMA ScoredMoves ==
  ASSUME TypeOK, NEW w \in Workers, Scored(w)
  PROVE  \/ Dropped(w)
         \/ /\ Speaker(w) # Unknown
            /\ Moved(w, "lock", det[w].stmt, det[w].left, det[w].hit)
<1>1. CASE det' = [det EXCEPT ![w] = Idle]
  BY <1>1, DropMoves
<1>2. CASE Speaker(w) # Unknown /\ det' = [det EXCEPT ![w].pc = "lock"]
  <2>1. det' = [det EXCEPT ![w].pc = "lock", ![w].left = det[w].left,
                           ![w].hit = det[w].hit]
    BY <1>2 DEF TypeOK, Detections
  <2> QED BY <1>2, <2>1, StepMoves DEF TypeOK, Detections, Points
<1> QED BY <1>1, <1>2 DEF Scored

LEMMA LockMoves ==
  ASSUME TypeOK, NEW w \in Workers, Lock(w)
  PROVE  Moved(w, "prior", det[w].stmt, det[w].left, det[w].hit)
<1>1. det' = [det EXCEPT ![w].pc = "prior", ![w].left = det[w].left,
                         ![w].hit = det[w].hit]
  BY DEF Lock, TypeOK, Detections
<1> QED BY <1>1, StepMoves DEF TypeOK, Detections, Points

\* Whatever Prior ranks is of the history.
LEMMA PriorMoves ==
  ASSUME TypeOK, NEW w \in Workers, Prior(w), Speaker(w) \in Speakers
  PROVE  /\ Ranked(Speaker(w), det[w].stmt) \subseteq Priors(Speaker(w))
         /\ Moved(w, "compare", det[w].stmt, Ranked(Speaker(w), det[w].stmt), det[w].hit)
<1>1. Ranked(Speaker(w), det[w].stmt) \subseteq Priors(Speaker(w))
  BY DEF Ranked, Candidates
<1>2. Priors(Speaker(w)) \subseteq Statements
  BY DEF Priors, TypeOK
<1>3. det' = [det EXCEPT ![w].pc = "compare",
                         ![w].left = Ranked(Speaker(w), det[w].stmt),
                         ![w].hit = det[w].hit]
  BY DEF Prior, TypeOK, Detections
<1>4. /\ "compare" \in Points /\ det[w].hit \in Statements \cup {0}
      /\ Ranked(Speaker(w), det[w].stmt) \in SUBSET Statements
  BY <1>1, <1>2 DEF TypeOK, Detections, Points
<1> QED BY <1>1, <1>3, <1>4, StepMoves

\* Compare ends the loop, asks about the closest one, or skips it.
LEMMA CompareMoves ==
  ASSUME TypeOK, NEW w \in Workers, Compare(w), Speaker(w) \in Speakers,
         det[w].stmt \in Statements, det[w].left \subseteq Priors(Speaker(w))
  PROVE  \/ Moved(w, "remember", det[w].stmt, det[w].left, det[w].hit)
         \/ \E p \in det[w].left :
              \/ /\ Cardinality(InStance) < StanceSlots
                 /\ Moved(w, "stance", det[w].stmt, det[w].left \ {p}, p)
              \/ /\ det[w].pc = "compare"
                 /\ Moved(w, "compare", det[w].stmt, det[w].left \ {p}, det[w].hit)
<1>1. /\ det[w].pc = "compare" /\ det[w].left \in SUBSET Statements
      /\ det[w].hit \in Statements \cup {0}
  BY DEF Compare, TypeOK, Detections
<1>2. CASE /\ det[w].left = {}
           /\ det' = [det EXCEPT ![w].pc = "remember"]
  <2>1. det' = [det EXCEPT ![w].pc = "remember", ![w].left = det[w].left,
                           ![w].hit = det[w].hit]
    BY <1>2 DEF TypeOK, Detections
  <2> QED BY <1>1, <2>1, StepMoves DEF Points
<1>3. ASSUME det[w].left # {}
      PROVE  /\ Closest(w) \in det[w].left /\ Closest(w) \in Statements
             /\ det[w].left \ {Closest(w)} \in SUBSET Statements
  BY <1>1, <1>3, ClosestIsLeft
<1>4. CASE /\ det[w].left # {} /\ Cardinality(InStance) < StanceSlots
           /\ det' = [det EXCEPT ![w].pc = "stance", ![w].hit = Closest(w),
                                 ![w].left = @ \ {Closest(w)}]
  <2>1. det' = [det EXCEPT ![w].pc = "stance", ![w].left = det[w].left \ {Closest(w)},
                           ![w].hit = Closest(w)]
    BY <1>4 DEF TypeOK, Detections
  <2>2. Moved(w, "stance", det[w].stmt, det[w].left \ {Closest(w)}, Closest(w))
    BY <1>3, <1>4, <2>1, StepMoves DEF Points
  <2> QED BY <1>3, <1>4, <2>2
<1>5. CASE /\ det[w].left # {}
           /\ det' = [det EXCEPT ![w].left = @ \ {Closest(w)}]
  <2>1. det' = [det EXCEPT ![w].pc = "compare", ![w].left = det[w].left \ {Closest(w)},
                           ![w].hit = det[w].hit]
    BY <1>1, <1>5 DEF TypeOK, Detections
  <2>2. Moved(w, "compare", det[w].stmt, det[w].left \ {Closest(w)}, det[w].hit)
    BY <1>1, <1>3, <1>5, <2>1, StepMoves DEF Points
  <2> QED BY <1>1, <1>3, <1>5, <2>2
<1> QED BY <1>2, <1>4, <1>5 DEF Compare

LEMMA StanceMoves ==
  ASSUME TypeOK, NEW w \in Workers, Stance(w)
  PROVE  \/ Moved(w, "flag", det[w].stmt, det[w].left, det[w].hit)
         \/ Moved(w, "compare", det[w].stmt, det[w].left, 0)
<1>1. /\ det[w].left \in SUBSET Statements /\ det[w].hit \in Statements \cup {0}
      /\ 0 \in Statements \cup {0}
  BY DEF TypeOK, Detections
<1>2. CASE det' = [det EXCEPT ![w].pc = "flag"]
  <2>1. det' = [det EXCEPT ![w].pc = "flag", ![w].left = det[w].left,
                           ![w].hit = det[w].hit]
    BY <1>2 DEF TypeOK, Detections
  <2> QED BY <1>1, <2>1, StepMoves DEF Points
<1>3. CASE det' = [det EXCEPT ![w].pc = "compare", ![w].hit = 0]
  <2>1. det' = [det EXCEPT ![w].pc = "compare", ![w].left = det[w].left, ![w].hit = 0]
    BY <1>3 DEF TypeOK, Detections
  <2> QED BY <1>1, <2>1, StepMoves DEF Points
<1> QED BY <1>2, <1>3 DEF Stance

LEMMA EmitFlagMoves ==
  ASSUME TypeOK, NEW w \in Workers, EmitFlag(w)
  PROVE  \/ /\ Moved(w, "remember", det[w].stmt, det[w].left, det[w].hit)
            /\ flags' = flags \cup {Flag(w)} /\ lock' = lock
         \/ /\ Dropped(w) /\ lock' = Unlocked(w) /\ flags' = flags
<1>1. /\ det[w].left \in SUBSET Statements /\ det[w].hit \in Statements \cup {0}
  BY DEF TypeOK, Detections
<1>2. CASE /\ flags' = flags \cup {Flag(w)} /\ lock' = lock
           /\ det' = [det EXCEPT ![w].pc = "remember"]
  <2>1. det' = [det EXCEPT ![w].pc = "remember", ![w].left = det[w].left,
                           ![w].hit = det[w].hit]
    BY <1>2 DEF TypeOK, Detections
  <2> QED BY <1>1, <1>2, <2>1, StepMoves DEF Points
<1>3. CASE det' = [det EXCEPT ![w] = Idle] /\ lock' = Unlocked(w) /\ flags' = flags
  BY <1>3, DropMoves
<1> QED BY <1>2, <1>3 DEF EmitFlag

-----------------------------------------------------------------------------
(* The inductive invariant.                                                *)

LEMMA InitIsGood == Init => IInv
<1> SUFFICES ASSUME Init PROVE IInv
  OBVIOUS
<1>1. \A w \in Workers : det[w].pc = "idle"
  BY DEF Init, Idle
<1>2. TypeOK /\ IsFiniteSet(InStance)
  <2>1. InStance = {}
    BY <1>1 DEF InStance
  <2>2. IsFiniteSet(InStance) /\ Cardinality(InStance) = 0
    BY <2>1, FS_EmptySet
  <2>3. Idle \in Detections
    BY DEF Idle, Detections, Points
  <2>4. history \in [Speakers -> Seq(Statements)]
    BY DEF Init
  <2>5. next \in 1 .. MaxStatements + 1
    BY MaxAssumption DEF Init
  <2>6. Cardinality(InStance) <= StanceSlots
    BY <2>2, StanceAssumption
  <2>7. /\ lock \in [Speakers -> Workers \cup {NoWorker}]
        /\ seen \in [Statements -> SUBSET Statements]
        /\ speakerOf \in [Statements -> Speakers \cup {Unknown}]
        /\ flags \subseteq Flags /\ ctxDone \in BOOLEAN
        /\ det \in [Workers -> Detections]
    BY <2>3 DEF Init
  <2> QED BY <2>2, <2>4, <2>5, <2>6, <2>7 DEF TypeOK
<1>3. flags = {} /\ \A s \in Speakers : Priors(s) = {} /\ Len(history[s]) = 0
  BY DEF Init, Priors
<1>4. Claimed /\ Attributed /\ Owned /\ RankedAll /\ FromHistory
  BY <1>1 DEF Claimed, Attributed, Owned, RankedAll, FromHistory, Holding, Ranking, Busy
<1>5. Recorded /\ NoPairMissed
  BY <1>3 DEF Recorded, NoPairMissed
<1>6. Flagged /\ FlagsAreSound /\ OneFlagEach
  BY <1>3 DEF Flagged, FlagsAreSound, OneFlagEach
<1> QED BY <1>2, <1>4, <1>5, <1>6 DEF IInv, Core

\* A worker that only moves on, with what it had or less.
LEMMA QuietStep ==
  ASSUME TypeOK, Core, NEW w \in Workers, NEW pc, NEW left, NEW hit,
         Moved(w, pc, det[w].stmt, left, hit),
         UNCHANGED <<speakerOf, next, lock, history, seen, flags>>,
         Busy(w), det[w].pc # "remember",
         \/ pc = "lock" /\ Speaker(w) \in Speakers
         \/ /\ Ranking(w) /\ pc \in {"compare", "stance", "flag", "remember"}
            /\ left \subseteq det[w].left
            /\ pc \in {"stance", "flag"} => hit \in Priors(Speaker(w))
  PROVE  Core'
<1> USE DEF Core, Moved
<1>1. /\ \A v \in Workers : /\ det'[v].stmt = det[v].stmt
                            /\ Speaker(v)' = Speaker(v)
                            /\ Busy(v)' <=> Busy(v)
                            /\ v # w => det'[v] = det[v]
      /\ \A s : Priors(s)' = Priors(s)
  BY DEF Busy, Speaker, Priors
<1>2. \A v \in Workers : (Holding(v)' => Holding(v)) /\ (Ranking(v)' => Ranking(v))
  BY <1>1 DEF Holding, Ranking
<1>3. Claimed'
  BY <1>1 DEF Claimed
<1>4. Attributed'
  BY <1>1, <1>2 DEF Attributed, Holding, Ranking
<1>5. Owned'
  BY <1>1, <1>2 DEF Owned
<1>6. Recorded'
  BY <1>1 DEF Recorded
<1>7. RankedAll'
  BY <1>1, <1>2 DEF RankedAll
<1>8. FromHistory'
  <2>1. ASSUME NEW v \in Workers, Ranking(v)'
        PROVE  det'[v].left \subseteq Priors(Speaker(v))
    BY <1>1, <1>2, <2>1 DEF FromHistory, Ranking
  <2>2. ASSUME NEW v \in Workers, det'[v].pc \in {"stance", "flag"}
        PROVE  det'[v].hit \in Priors(Speaker(v))
    BY <1>1, <2>2 DEF FromHistory
  <2> QED BY <1>1, <2>1, <2>2 DEF FromHistory
<1>9. Flagged'
  BY <1>1 DEF Flagged
<1>10. (NoPairMissed /\ FlagsAreSound /\ OneFlagEach)'
  BY DEF NoPairMissed, FlagsAreSound, OneFlagEach
<1> QED BY <1>3, <1>4, <1>5, <1>6, <1>7, <1>8, <1>9, <1>10

\* A worker that gives up its statement, and the speaker's lock if it held it.
LEMMA DropStep ==
  ASSUME TypeOK, Core, NEW w \in Workers, Dropped(w),
         UNCHANGED <<speakerOf, next, history, seen, flags>>,
         \/ lock' = lock
         \/ lock' = Unlocked(w) /\ Holding(w)
  PROVE  Core'
<1> USE DEF Core, Moved, Dropped
<1>1. /\ \A v \in Workers : v # w => det'[v] = det[v] /\ Speaker(v)' = Speaker(v)
      /\ \A s : Priors(s)' = Priors(s)
      /\ ~Busy(w)' /\ ~Holding(w)' /\ ~Ranking(w)' /\ det'[w].pc = "idle"
  BY DEF Busy, Holding, Ranking, Speaker, Priors
<1>2. \A v \in Workers : /\ Busy(v)' => v # w /\ Busy(v)
                         /\ Holding(v)' => v # w /\ Holding(v)
                         /\ Ranking(v)' => v # w /\ Ranking(v)
  BY <1>1 DEF Busy, Holding, Ranking
<1>3. Claimed'
  BY <1>1, <1>2 DEF Claimed
<1>4. Attributed'
  BY <1>1, <1>2 DEF Attributed
<1>5. Owned'
  <2>1. ASSUME NEW v \in Workers, Holding(v), v # w, Holding(w)
        PROVE  Speaker(v) # Speaker(w)
    BY <2>1 DEF Owned
  <2>2. ASSUME NEW v \in Workers, Holding(v)'
        PROVE  lock'[Speaker(v)] = v
    BY <1>2, <2>1, <2>2 DEF Owned, Unlocked, TypeOK, Attributed
  <2> QED BY <1>1, <1>2, <2>2 DEF Owned
<1>6. Recorded'
  BY <1>1, <1>2 DEF Recorded
<1>7. RankedAll'
  BY <1>1, <1>2 DEF RankedAll
<1>8. FromHistory'
  BY <1>1, <1>2 DEF FromHistory
<1>9. Flagged'
  BY <1>1, <1>2 DEF Flagged
<1>10. (NoPairMissed /\ FlagsAreSound /\ OneFlagEach)'
  BY DEF NoPairMissed, FlagsAreSound, OneFlagEach
<1> QED BY <1>3, <1>4, <1>5, <1>6, <1>7, <1>8, <1>9, <1>10

LEMMA TakeStep ==
  ASSUME TypeOK, Core, NEW w \in Workers, Take(w), next \in Statements
  PROVE  Core'
<1> USE DEF Core
<1>1. /\ Moved(w, "scoring", next, {}, 0) /\ det[w].pc = "idle" /\ next' = next + 1
      /\ UNCHANGED <<speakerOf, lock, history, seen, flags>>
  BY TakeMoves DEF Take
<1>2. /\ \A v \in Workers : v # w => det'[v] = det[v] /\ Speaker(v)' = Speaker(v)
      /\ \A s : Priors(s)' = Priors(s)
      /\ det'[w].stmt = next /\ det'[w].pc = "scoring"
      /\ ~Holding(w)' /\ ~Ranking(w)'
  BY <1>1 DEF Moved, Holding, Ranking, Speaker, Priors
<1>3. \A v \in Workers : /\ Busy(v)' => v = w \/ Busy(v)
                         /\ Holding(v)' => v # w /\ Holding(v)
                         /\ Ranking(v)' => v # w /\ Ranking(v)
  BY <1>2 DEF Busy, Holding, Ranking
<1>4. next < next' /\ \A i \in Statements : i < next => i < next' /\ i # next
  BY <1>1, MaxAssumption DEF Statements
<1>5. \A s \in Speakers : Priors(s) \subseteq Statements
  BY DEF Priors, TypeOK
<1>6. \A f \in flags : f.stmt \in Statements
  BY DEF TypeOK, Flags
<1>7. Claimed'
  <2>1. ASSUME NEW v \in Workers, Busy(v)'
        PROVE  det'[v].stmt \in Statements /\ det'[v].stmt < next'
    <3>1. CASE v = w
      BY <1>2, <1>4, <3>1
    <3>2. CASE v # w
      <4>1. det'[v] = det[v] /\ Busy(v)
        BY <1>2, <1>3, <2>1, <3>2
      <4>2. det[v].stmt \in Statements /\ det[v].stmt < next
        BY <4>1 DEF Claimed
      <4> QED BY <4>1, <4>2, <1>4
    <3> QED BY <3>1, <3>2
  <2>2. ASSUME NEW v \in Workers, Busy(v), v # w
        PROVE  det'[v].stmt # next
    BY <1>2, <1>4, <2>2 DEF Claimed
  <2> QED BY <1>2, <1>3, <2>1, <2>2 DEF Claimed
<1>8. Attributed'
  BY <1>2, <1>3 DEF Attributed
<1>9. Owned'
  BY <1>1, <1>2, <1>3 DEF Owned
<1>10. Recorded'
  <2>1. ASSUME NEW s \in Speakers, NEW p \in Priors(s)
        PROVE  p < next' /\ p # next /\ speakerOf[p] = s
    BY <1>4, <1>5, <2>1 DEF Recorded
  <2>2. ASSUME NEW s \in Speakers, NEW p \in Priors(s), NEW v \in Workers, Busy(v)'
        PROVE  det'[v].stmt # p
    BY <1>2, <1>3, <2>1, <2>2 DEF Recorded
  <2> QED BY <1>1, <1>2, <2>1, <2>2 DEF Recorded
<1>11. RankedAll'
  BY <1>1, <1>2, <1>3 DEF RankedAll
<1>12. FromHistory'
  BY <1>2, <1>3 DEF FromHistory
<1>13. Flagged'
  <2>1. ASSUME NEW f \in flags PROVE f.stmt < next' /\ f.stmt # next
    BY <1>4, <1>6, <2>1 DEF Flagged
  <2>2. ASSUME NEW f \in flags, NEW v \in Workers, Busy(v)', det'[v].stmt = f.stmt
        PROVE  det'[v].pc = "remember"
    BY <1>2, <1>3, <2>1, <2>2 DEF Flagged
  <2> QED BY <1>1, <2>1, <2>2 DEF Flagged
<1>14. (NoPairMissed /\ FlagsAreSound /\ OneFlagEach)'
  BY <1>1 DEF NoPairMissed, FlagsAreSound, OneFlagEach
<1> QED BY <1>7, <1>8, <1>9, <1>10, <1>11, <1>12, <1>13, <1>14

LEMMA LockStep ==
  ASSUME TypeOK, Core, NEW w \in Workers, Lock(w)
  PROVE  Core'
<1> USE DEF Core
<1>1. /\ Moved(w, "prior", det[w].stmt, det[w].left, det[w].hit)
      /\ det[w].pc = "lock" /\ lock[Speaker(w)] = NoWorker
      /\ lock' = [lock EXCEPT ![Speaker(w)] = w]
      /\ UNCHANGED <<speakerOf, next, history, seen, flags>>
  BY LockMoves DEF Lock
<1>2. /\ \A v \in Workers : /\ det'[v].stmt = det[v].stmt
                            /\ Speaker(v)' = Speaker(v)
                            /\ Busy(v)' <=> Busy(v)
                            /\ v # w => det'[v] = det[v]
      /\ \A s : Priors(s)' = Priors(s)
      /\ det'[w].pc = "prior"
  BY <1>1 DEF Moved, Busy, Speaker, Priors
<1>3. \A v \in Workers : /\ Holding(v)' => v = w \/ Holding(v)
                         /\ Ranking(v)' => v # w /\ Ranking(v)
  BY <1>2 DEF Holding, Ranking
<1>4. Speaker(w) \in Speakers
  BY <1>1 DEF Attributed
<1>5. Claimed'
  BY <1>1, <1>2 DEF Claimed
<1>6. Attributed'
  <2>1. \A v \in Workers : v # w /\ det'[v].pc = "lock" => det[v].pc = "lock"
    BY <1>2
  <2> QED BY <1>1, <1>2, <1>3, <1>4, <2>1 DEF Attributed
<1>7. Owned'
  <2>1. ASSUME NEW v \in Workers, Holding(v)
        PROVE  lock[Speaker(v)] = v /\ v # NoWorker
    BY <2>1, LabelsAssumption DEF Owned
  <2>2. ASSUME NEW v \in Workers, Holding(v)' PROVE lock'[Speaker(v)] = v
    BY <1>1, <1>3, <1>4, <2>1, <2>2 DEF TypeOK
  <2> QED BY <1>2, <2>2 DEF Owned
<1>8. Recorded'
  BY <1>1, <1>2 DEF Recorded
<1>9. RankedAll'
  BY <1>1, <1>2, <1>3 DEF RankedAll
<1>10. FromHistory'
  BY <1>2, <1>3 DEF FromHistory
<1>11. Flagged'
  BY <1>1, <1>2 DEF Flagged
<1>12. (NoPairMissed /\ FlagsAreSound /\ OneFlagEach)'
  BY <1>1 DEF NoPairMissed, FlagsAreSound, OneFlagEach
<1> QED BY <1>5, <1>6, <1>7, <1>8, <1>9, <1>10, <1>11, <1>12

\* The history is read under the lock, and read whole.
LEMMA PriorStep ==
  ASSUME TypeOK, Core, NEW w \in Workers, Prior(w)
  PROVE  Core'
<1> USE DEF Core
<1> DEFINE i == det[w].stmt
           s == Speaker(w)
<1>1. s \in Speakers /\ i \in Statements /\ Busy(w)
  BY DEF Prior, Attributed, Holding, Claimed, Busy
<1>2. /\ Moved(w, "compare", i, Ranked(s, i), det[w].hit)
      /\ Ranked(s, i) \subseteq Priors(s)
      /\ det[w].pc = "prior" /\ seen' = [seen EXCEPT ![i] = Priors(s)]
      /\ UNCHANGED <<speakerOf, next, lock, history, flags>>
  BY <1>1, PriorMoves DEF Prior
<1>3. /\ \A v \in Workers : /\ det'[v].stmt = det[v].stmt
                            /\ Speaker(v)' = Speaker(v)
                            /\ Busy(v)' <=> Busy(v)
                            /\ v # w => det'[v] = det[v]
      /\ \A t : Priors(t)' = Priors(t)
      /\ det'[w].pc = "compare" /\ det'[w].left = Ranked(s, i)
  BY <1>2 DEF Moved, Busy, Speaker, Priors
<1>4. \A v \in Workers : /\ Holding(v)' => Holding(v)
                         /\ Ranking(v)' => v = w \/ Ranking(v)
  BY <1>2, <1>3 DEF Holding, Ranking
<1>5. /\ seen'[i] = Priors(s)
      /\ \A j \in Statements : j # i => seen'[j] = seen[j]
  BY <1>1, <1>2 DEF TypeOK
<1>6. Claimed'
  BY <1>2, <1>3 DEF Claimed
<1>7. Attributed'
  BY <1>2, <1>3, <1>4 DEF Attributed
<1>8. Owned'
  BY <1>2, <1>3, <1>4 DEF Owned
<1>9. Recorded'
  BY <1>2, <1>3 DEF Recorded
<1>10. RankedAll'
  <2>1. ASSUME NEW v \in Workers, v # w, Ranking(v)
        PROVE  det[v].stmt \in Statements /\ det[v].stmt # i
    BY <1>1, <2>1 DEF Claimed, Ranking, Busy
  <2> QED BY <1>3, <1>4, <1>5, <2>1 DEF RankedAll
<1>11. FromHistory'
  <2>1. ASSUME NEW v \in Workers, Ranking(v)'
        PROVE  det'[v].left \subseteq Priors(Speaker(v))
    BY <1>2, <1>3, <1>4, <2>1 DEF FromHistory
  <2>2. ASSUME NEW v \in Workers, det'[v].pc \in {"stance", "flag"}
        PROVE  det'[v].hit \in Priors(Speaker(v))
    BY <1>3, <2>2 DEF FromHistory
  <2> QED BY <1>3, <2>1, <2>2 DEF FromHistory
<1>12. Flagged'
  BY <1>2, <1>3 DEF Flagged
<1>13. NoPairMissed'
  <2>1. ASSUME NEW t \in Speakers, NEW l \in 1 .. Len(history[t])
        PROVE  seen'[history[t][l]] = seen[history[t][l]]
    <3>1. history[t][l] \in Priors(t) /\ history[t][l] \in Statements
      BY DEF Priors, TypeOK
    <3>2. history[t][l] # i
      BY <1>1, <3>1 DEF Recorded
    <3> QED BY <1>5, <3>1, <3>2
  <2> QED BY <1>2, <2>1 DEF NoPairMissed
<1>14. FlagsAreSound'
  <2>1. ASSUME NEW f \in flags PROVE seen'[f.stmt] = seen[f.stmt]
    <3>1. f.stmt \in Statements
      BY DEF TypeOK, Flags
    <3>2. f.stmt # i
      BY <1>1, <1>2 DEF Flagged
    <3> QED BY <1>5, <3>1, <3>2
  <2> QED BY <1>2, <2>1 DEF FlagsAreSound
<1>15. OneFlagEach'
  BY <1>2 DEF OneFlagEach
<1> QED BY <1>6, <1>7, <1>8, <1>9, <1>10, <1>11, <1>12, <1>13, <1>14, <1>15

\* The flag points back into the history, and the statement had none before.
LEMMA FlagStep ==
  ASSUME TypeOK, Core, NEW w \in Workers, EmitFlag(w),
         Moved(w, "remember", det[w].stmt, det[w].left, det[w].hit),
         flags' = flags \cup {Flag(w)}, lock' = lock
  PROVE  Core'
<1> USE DEF Core
<1>1. /\ det[w].pc = "flag" /\ UNCHANGED <<speakerOf, next, history, seen>>
      /\ Busy(w) /\ Ranking(w) /\ Holding(w)
  BY DEF EmitFlag, Busy, Ranking, Holding
<1>2. /\ \A v \in Workers : /\ det'[v].stmt = det[v].stmt
                            /\ Speaker(v)' = Speaker(v)
                            /\ Busy(v)' <=> Busy(v)
                            /\ v # w => det'[v] = det[v]
      /\ \A s : Priors(s)' = Priors(s)
      /\ det'[w].pc = "remember" /\ det'[w].left = det[w].left
  BY <1>1 DEF Moved, Busy, Speaker, Priors
<1>3. \A v \in Workers : /\ Holding(v)' => Holding(v)
                         /\ Ranking(v)' => Ranking(v)
  BY <1>1, <1>2 DEF Holding, Ranking
<1>4. Claimed'
  BY <1>1, <1>2 DEF Claimed
<1>5. Attributed'
  BY <1>1, <1>2, <1>3 DEF Attributed
<1>6. Owned'
  BY <1>2, <1>3 DEF Owned
<1>7. Recorded'
  BY <1>1, <1>2 DEF Recorded
<1>8. RankedAll'
  BY <1>1, <1>2, <1>3 DEF RankedAll
<1>9. FromHistory'
  BY <1>2, <1>3 DEF FromHistory
<1>10. Flag(w).stmt = det[w].stmt /\ Flag(w).earlier = det[w].hit
  BY DEF Flag
<1>11. Flagged'
  <2>1. \A v \in Workers : Busy(v) /\ det[v].stmt = det[w].stmt => v = w
    BY <1>1 DEF Claimed
  <2>2. det[w].stmt < next
    BY <1>1 DEF Claimed
  <2>3. ASSUME NEW f \in flags', NEW v \in Workers, Busy(v)', det'[v].stmt = f.stmt
        PROVE  det'[v].pc = "remember"
    BY <1>2, <1>10, <2>1, <2>3 DEF Flagged
  <2>4. ASSUME NEW f \in flags' PROVE f.stmt < next
    BY <1>10, <2>2, <2>4 DEF Flagged
  <2> QED BY <1>1, <2>3, <2>4 DEF Flagged
<1>12. NoPairMissed'
  BY <1>1 DEF NoPairMissed
<1>13. FlagsAreSound'
  <2>1. Speaker(w) \in Speakers /\ det[w].hit \in Priors(Speaker(w))
    BY <1>1 DEF Attributed, FromHistory
  <2>2. /\ det[w].hit # det[w].stmt
        /\ speakerOf[det[w].hit] = Speaker(w)
        /\ det[w].hit \in seen[det[w].stmt]
    BY <1>1, <2>1 DEF Recorded, RankedAll
  <2>3. speakerOf[det[w].stmt] # Unknown
    BY <2>1, LabelsAssumption DEF Speaker
  <2> QED BY <1>1, <1>10, <2>2, <2>3 DEF FlagsAreSound, Speaker
<1>14. OneFlagEach'
  <2>1. \A f \in flags : f.stmt # det[w].stmt
    BY <1>1 DEF Flagged
  <2> QED BY <1>10, <2>1 DEF OneFlagEach
<1> QED BY <1>4, <1>5, <1>6, <1>7, <1>8, <1>9, <1>11, <1>12, <1>13, <1>14

\* What is remembered was ranked against everything before it: the lock was
\* held from Prior to here.
LEMMA RememberStep ==
  ASSUME TypeOK, Core, NEW w \in Workers, Remember(w)
  PROVE  Core'
<1> USE DEF Core
<1>0. PICK s, i : s = Speaker(w) /\ i = det[w].stmt
  OBVIOUS
<1> USE <1>0
<1>1. /\ Dropped(w) /\ det[w].pc = "remember" /\ lock' = Unlocked(w)
      /\ history' = [history EXCEPT ![s] = Append(@, i)]
      /\ UNCHANGED <<speakerOf, next, seen, flags>>
  BY DropMoves DEF Remember
<1>2. /\ Busy(w) /\ Ranking(w) /\ Holding(w)
      /\ s \in Speakers /\ i \in Statements /\ i < next
  <2>1. Busy(w) /\ Ranking(w) /\ Holding(w)
    BY <1>1 DEF Busy, Ranking, Holding
  <2> QED BY <2>1 DEF Attributed, Claimed
<1>3. /\ \A v \in Workers : v # w => det'[v] = det[v] /\ Speaker(v)' = Speaker(v)
      /\ ~Busy(w)' /\ ~Holding(w)' /\ ~Ranking(w)' /\ det'[w].pc = "idle"
  BY <1>1 DEF Busy, Holding, Ranking, Speaker, Moved, Dropped
<1>4. \A v \in Workers : /\ Busy(v)' => v # w /\ Busy(v)
                         /\ Holding(v)' => v # w /\ Holding(v)
                         /\ Ranking(v)' => v # w /\ Ranking(v)
  BY <1>3 DEF Busy, Holding, Ranking
<1>5. /\ history[s] \in Seq(Statements) /\ Len(history[s]) \in Nat
      /\ history'[s] = Append(history[s], i)
      /\ Len(history'[s]) = Len(history[s]) + 1
      /\ \A k \in 1 .. Len(history[s]) : history'[s][k] = history[s][k]
      /\ history'[s][Len(history[s]) + 1] = i
      /\ \A t \in Speakers : t # s => history'[t] = history[t]
  <2>1. history[s] \in Seq(Statements) /\ history'[s] = Append(history[s], i)
    BY <1>1, <1>2 DEF TypeOK
  <2> QED BY <1>1, <1>2, <2>1 DEF TypeOK
<1>6. /\ Priors(s)' = Priors(s) \cup {i}
      /\ \A t \in Speakers : t # s => Priors(t)' = Priors(t)
  <2>1. ASSUME NEW p \in Priors(s)' PROVE p \in Priors(s) \cup {i}
    <3>1. PICK k \in 1 .. Len(history[s]) + 1 : p = history'[s][k]
      BY <1>5 DEF Priors
    <3>2. k \in 1 .. Len(history[s]) \/ k = Len(history[s]) + 1
      BY <1>5
    <3> QED BY <1>5, <3>1, <3>2 DEF Priors
  <2>2. ASSUME NEW p \in Priors(s) PROVE p \in Priors(s)'
    <3>1. PICK k \in 1 .. Len(history[s]) : p = history[s][k]
      BY DEF Priors
    <3>2. k \in 1 .. Len(history[s]) + 1
      BY <1>5
    <3> QED BY <1>5, <3>1, <3>2 DEF Priors
  <2>3. i \in Priors(s)'
    <3>1. Len(history[s]) + 1 \in 1 .. Len(history'[s])
      BY <1>5
    <3> QED BY <1>5, <3>1 DEF Priors
  <2> QED BY <1>5, <2>1, <2>2, <2>3 DEF Priors
<1>7. \A v \in Workers : v # w /\ Holding(v) => Speaker(v) \in Speakers /\ Speaker(v) # s
  BY <1>2 DEF Owned, Attributed
<1>8. \A v \in Workers : Ranking(v) => Holding(v)
  BY DEF Holding
<1>9. Claimed'
  BY <1>1, <1>3, <1>4 DEF Claimed
<1>10. Attributed'
  BY <1>3, <1>4 DEF Attributed
<1>11. Owned'
  BY <1>1, <1>3, <1>4, <1>7 DEF Owned, Unlocked, TypeOK
<1>12. Recorded'
  <2>1. ASSUME NEW v \in Workers, Busy(v)' PROVE det'[v].stmt # i
    BY <1>2, <1>3, <1>4, <2>1 DEF Claimed
  <2>2. ASSUME NEW t \in Speakers, NEW p \in Priors(t), NEW v \in Workers, Busy(v)'
        PROVE  det'[v].stmt # p
    BY <1>3, <1>4, <2>2 DEF Recorded
  <2>3. ASSUME NEW t \in Speakers, NEW p \in Priors(t)' 
        PROVE  p \in Priors(t) \/ (p = i /\ t = s)
    BY <1>6
  <2>4. speakerOf[i] = s
    BY DEF Speaker
  <2> QED BY <1>1, <1>2, <2>1, <2>2, <2>3, <2>4 DEF Recorded
<1>13. RankedAll'
  BY <1>1, <1>3, <1>4, <1>6, <1>7, <1>8 DEF RankedAll
<1>14. FromHistory'
  <2>1. ASSUME NEW v \in Workers, Ranking(v)'
        PROVE  det'[v].left \subseteq Priors(Speaker(v))'
    BY <1>3, <1>4, <1>6, <1>7, <1>8, <2>1 DEF FromHistory
  <2>2. ASSUME NEW v \in Workers, det'[v].pc \in {"stance", "flag"}
        PROVE  det'[v].hit \in Priors(Speaker(v))'
    <3>1. Ranking(v)'
      BY <2>2 DEF Ranking
    <3> QED BY <1>3, <1>4, <1>6, <1>7, <1>8, <2>2, <3>1 DEF FromHistory
  <2> QED BY <2>1, <2>2 DEF FromHistory
<1>15. Flagged'
  BY <1>1, <1>3, <1>4 DEF Flagged
<1>16. NoPairMissed'
  <2>1. ASSUME NEW t \in Speakers, NEW k \in 1 .. Len(history'[t]),
               NEW l \in 1 .. Len(history'[t]), k < l
        PROVE  history'[t][k] \in seen[history'[t][l]]
    <3>1. CASE t # s
      BY <1>5, <2>1, <3>1 DEF NoPairMissed
    <3>2. CASE t = s /\ l \in 1 .. Len(history[s])
      <4>1. k \in 1 .. Len(history[s])
        BY <1>5, <2>1, <3>2
      <4> QED BY <1>2, <1>5, <2>1, <3>2, <4>1 DEF NoPairMissed
    <3>3. CASE t = s /\ l = Len(history[s]) + 1
      <4>1. k \in 1 .. Len(history[s])
        BY <1>5, <2>1, <3>3
      <4>2. history[s][k] \in Priors(s)
        BY <4>1 DEF Priors
      <4>3. history[s][k] \in seen[i]
        BY <1>2, <4>2 DEF RankedAll
      <4> QED BY <1>5, <3>3, <4>1, <4>3
    <3> QED BY <1>5, <3>1, <3>2, <3>3
  <2> QED BY <1>1, <2>1 DEF NoPairMissed
<1>17. (FlagsAreSound /\ OneFlagEach)'
  BY <1>1 DEF FlagsAreSound, OneFlagEach
<1> QED BY <1>9, <1>10, <1>11, <1>12, <1>13, <1>14, <1>15, <1>16, <1>17

\* The actions of a worker, from the state and the moves of that worker alone.
LEMMA WorkerKeepsCore ==
  ASSUME TypeOK, Core, NEW w \in Workers, Take(w) \/ Detect(w)
  PROVE  Core'
<1>1. CASE Take(w)
  <2>1. next \in Statements
    BY <1>1, MaxAssumption DEF Take, TypeOK, Statements
  <2> QED BY <1>1, <2>1, TakeStep
<1>2. CASE Scored(w)
  <2>1. /\ det[w].pc = "scoring" /\ Busy(w) /\ det[w].pc # "remember"
        /\ UNCHANGED <<speakerOf, next, lock, history, seen, flags>>
    BY <1>2 DEF Scored, Busy
  <2>2. CASE Dropped(w)
    BY <2>1, <2>2, DropStep
  <2>3. CASE Speaker(w) # Unknown /\ Moved(w, "lock", det[w].stmt, det[w].left, det[w].hit)
    <3>1. Speaker(w) \in Speakers
      BY <2>1, <2>3 DEF Core, Claimed, TypeOK, Speaker
    <3> QED BY <2>1, <2>3, <3>1, QuietStep
  <2> QED BY <1>2, <2>2, <2>3, ScoredMoves
<1>3. CASE Lock(w)
  BY <1>3, LockStep
<1>4. CASE Prior(w)
  BY <1>4, PriorStep
<1>5. CASE Compare(w)
  <2>1. /\ det[w].pc = "compare" /\ Busy(w) /\ Ranking(w) /\ Holding(w)
        /\ UNCHANGED <<speakerOf, next, lock, history, seen, flags>>
    BY <1>5 DEF Compare, Busy, Ranking, Holding
  <2>2. /\ Speaker(w) \in Speakers /\ det[w].stmt \in Statements
        /\ det[w].left \subseteq Priors(Speaker(w))
    BY <2>1 DEF Core, Attributed, Claimed, FromHistory
  <2>3. CASE Moved(w, "remember", det[w].stmt, det[w].left, det[w].hit)
    BY <2>1, <2>3, QuietStep
  <2>4. ASSUME NEW p \in det[w].left,
               Moved(w, "stance", det[w].stmt, det[w].left \ {p}, p)
        PROVE  Core'
    <3>1. p \in Priors(Speaker(w)) /\ det[w].left \ {p} \subseteq det[w].left
      BY <2>2
    <3> QED BY <2>1, <2>4, <3>1, QuietStep
  <2>5. ASSUME NEW p \in det[w].left,
               Moved(w, "compare", det[w].stmt, det[w].left \ {p}, det[w].hit)
        PROVE  Core'
    <3>1. det[w].left \ {p} \subseteq det[w].left
      OBVIOUS
    <3> QED BY <2>1, <2>5, <3>1, QuietStep
  <2> QED BY <1>5, <2>2, <2>3, <2>4, <2>5, CompareMoves
<1>6. CASE Stance(w)
  <2>1. /\ det[w].pc = "stance" /\ Busy(w) /\ Ranking(w)
        /\ UNCHANGED <<speakerOf, next, lock, history, seen, flags>>
    BY <1>6 DEF Stance, Busy, Ranking
  <2>2. det[w].hit \in Priors(Speaker(w))
    BY <2>1 DEF Core, FromHistory
  <2>3. CASE Moved(w, "flag", det[w].stmt, det[w].left, det[w].hit)
    BY <2>1, <2>2, <2>3, QuietStep
  <2>4. CASE Moved(w, "compare", det[w].stmt, det[w].left, 0)
    BY <2>1, <2>4, QuietStep
  <2> QED BY <1>6, <2>3, <2>4, StanceMoves
<1>7. CASE EmitFlag(w)
  <2>1. /\ Holding(w) /\ UNCHANGED <<speakerOf, next, history, seen>>
    BY <1>7 DEF EmitFlag, Holding, Ranking
  <2>2. CASE /\ Moved(w, "remember", det[w].stmt, det[w].left, det[w].hit)
             /\ flags' = flags \cup {Flag(w)} /\ lock' = lock
    BY <1>7, <2>2, FlagStep
  <2>3. CASE Dropped(w) /\ lock' = Unlocked(w) /\ flags' = flags
    BY <2>1, <2>3, DropStep
  <2> QED BY <1>7, <2>2, <2>3, EmitFlagMoves
<1>8. CASE Remember(w)
  BY <1>8, RememberStep
<1> QED BY <1>1, <1>2, <1>3, <1>4, <1>5, <1>6, <1>7, <1>8 DEF Detect

\* A worker's action as a move, for the types and the slots: the slots taken
\* grow only where Compare found one free.
LEMMA WorkerMoves ==
  ASSUME TypeOK, Core, NEW w \in Workers, Take(w) \/ Detect(w)
  PROVE  \E pc, stmt, left, hit :
           /\ Moved(w, pc, stmt, left, hit)
           /\ pc = "stance" => Cardinality(InStance) < StanceSlots
<1>1. CASE Take(w)
  BY <1>1, TakeMoves
<1>2. CASE Scored(w)
  BY <1>2, ScoredMoves DEF Dropped
<1>3. CASE Lock(w)
  BY <1>3, LockMoves
<1>4. CASE Prior(w)
  <2>1. Speaker(w) \in Speakers
    BY <1>4 DEF Prior, Core, Attributed, Holding
  <2> QED BY <1>4, <2>1, PriorMoves
<1>5. CASE Compare(w)
  <2>1. Busy(w) /\ Ranking(w) /\ Holding(w)
    BY <1>5 DEF Compare, Busy, Ranking, Holding
  <2>2. /\ Speaker(w) \in Speakers /\ det[w].stmt \in Statements
        /\ det[w].left \subseteq Priors(Speaker(w))
    BY <2>1 DEF Core, Attributed, Claimed, FromHistory
  <2>3. \/ Moved(w, "remember", det[w].stmt, det[w].left, det[w].hit)
        \/ \E p \in det[w].left :
             \/ /\ Cardinality(InStance) < StanceSlots
                /\ Moved(w, "stance", det[w].stmt, det[w].left \ {p}, p)
             \/ /\ det[w].pc = "compare"
                /\ Moved(w, "compare", det[w].stmt, det[w].left \ {p}, det[w].hit)
    BY <1>5, <2>2, CompareMoves
  <2>4. ASSUME NEW p \in det[w].left, Cardinality(InStance) < StanceSlots,
               Moved(w, "stance", det[w].stmt, det[w].left \ {p}, p)
        PROVE  \E pc, stmt, left, hit :
                 /\ Moved(w, pc, stmt, left, hit)
                 /\ pc = "stance" => Cardinality(InStance) < StanceSlots
    <3> DEFINE L == det[w].left \ {p}
    <3>1. Moved(w, "stance", det[w].stmt, L, p)
      BY <2>4
    <3> HIDE DEF L
    <3> QED BY <2>4, <3>1
  <2>5. ASSUME NEW p \in det[w].left,
               Moved(w, "compare", det[w].stmt, det[w].left \ {p}, det[w].hit)
        PROVE  \E pc, stmt, left, hit :
                 /\ Moved(w, pc, stmt, left, hit)
                 /\ pc = "stance" => Cardinality(InStance) < StanceSlots
    <3> DEFINE L == det[w].left \ {p}
    <3>1. Moved(w, "compare", det[w].stmt, L, det[w].hit)
      BY <2>5
    <3> HIDE DEF L
    <3> QED BY <3>1
  <2>6. Moved(w, "remember", det[w].stmt, det[w].left, det[w].hit) =>
          \E pc, stmt, left, hit :
            /\ Moved(w, pc, stmt, left, hit)
            /\ pc = "stance" => Cardinality(InStance) < StanceSlots
    OBVIOUS
  <2> QED BY <2>3, <2>4, <2>5, <2>6
<1>6. CASE Stance(w)
  BY <1>6, StanceMoves
<1>7. CASE EmitFlag(w)
  BY <1>7, EmitFlagMoves DEF Dropped
<1>8. CASE Remember(w)
  <2>1. Dropped(w)
    BY <1>8, DropMoves DEF Remember
  <2> QED BY <2>1 DEF Dropped
<1> QED BY <1>1, <1>2, <1>3, <1>4, <1>5, <1>6, <1>7, <1>8 DEF Detect

LEMMA SlotsStep ==
  ASSUME IInv, NEW w \in Workers, Take(w) \/ Detect(w)
  PROVE  IsFiniteSet(InStance') /\ Cardinality(InStance') <= StanceSlots
<1>1. /\ IsFiniteSet(InStance) /\ Cardinality(InStance) \in Nat
      /\ Cardinality(InStance) <= StanceSlots
  BY FS_CardinalityType DEF IInv, TypeOK
<1>2. CASE InStance' \subseteq InStance
  <2>1. IsFiniteSet(InStance') /\ Cardinality(InStance') <= Cardinality(InStance)
    BY <1>1, <1>2, FS_Subset
  <2>2. Cardinality(InStance') \in Nat
    BY <2>1, FS_CardinalityType
  <2> QED BY <1>1, <2>1, <2>2, StanceAssumption
<1>3. CASE /\ InStance' \subseteq InStance \cup {w}
           /\ Cardinality(InStance) < StanceSlots
  <2>1. IsFiniteSet(InStance \cup {w})
    BY <1>1, FS_AddElement
  <2>2. /\ Cardinality(InStance \cup {w}) \in Nat
        /\ Cardinality(InStance \cup {w}) =
             IF w \in InStance THEN Cardinality(InStance) ELSE Cardinality(InStance) + 1
    BY <1>1, <2>1, FS_AddElement, FS_CardinalityType
  <2>3. IsFiniteSet(InStance') /\ Cardinality(InStance') <= Cardinality(InStance \cup {w})
    BY <1>3, <2>1, FS_Subset
  <2>4. Cardinality(InStance') \in Nat
    BY <2>3, FS_CardinalityType
  <2> QED BY <1>1, <1>3, <2>2, <2>3, <2>4, StanceAssumption
<1>4. PICK pc, stmt, left, hit :
        /\ Moved(w, pc, stmt, left, hit)
        /\ pc = "stance" => Cardinality(InStance) < StanceSlots
  BY WorkerMoves DEF IInv
<1>5. \A v \in Workers : v # w => (v \in InStance' <=> v \in InStance)
  BY <1>4 DEF Moved, InStance
<1>6. w \in InStance' => pc = "stance"
  BY <1>4 DEF Moved, InStance
<1>7. InStance' \subseteq Workers
  BY DEF InStance
<1> QED BY <1>2, <1>3, <1>4, <1>5, <1>6, <1>7

LEMMA TypeStep ==
  ASSUME IInv, NEW w \in Workers, Take(w) \/ Detect(w)
  PROVE  TypeOK'
<1> USE DEF IInv
<1>1. det' \in [Workers -> Detections]
  BY WorkerMoves DEF Moved
<1>2. Cardinality(InStance') <= StanceSlots
  BY SlotsStep
<1>3. speakerOf' = speakerOf /\ ctxDone' = ctxDone
  BY DEF Take, Detect, Scored, Lock, Prior, Compare, Stance, EmitFlag, Remember
<1>4. next' \in 1 .. MaxStatements + 1
  <2>1. CASE Take(w)
    BY <2>1, MaxAssumption DEF Take, TypeOK
  <2>2. CASE Detect(w)
    BY <2>2 DEF Detect, Scored, Lock, Prior, Compare, Stance, EmitFlag, Remember, TypeOK
  <2> QED BY <2>1, <2>2
<1>5. ASSUME Holding(w)
      PROVE  Speaker(w) \in Speakers /\ det[w].stmt \in Statements
  BY <1>5 DEF Core, Attributed, Claimed, Busy, Holding, Ranking
<1>6. lock' \in [Speakers -> Workers \cup {NoWorker}]
  <2>1. lock' \in {lock, [lock EXCEPT ![Speaker(w)] = w], Unlocked(w)}
    BY DEF Take, Detect, Scored, Lock, Prior, Compare, Stance, EmitFlag, Remember
  <2> QED BY <2>1 DEF TypeOK, Unlocked
<1>7. history' \in [Speakers -> Seq(Statements)]
  <2>1. CASE Remember(w)
    <3>1. Holding(w) /\ history' = [history EXCEPT ![Speaker(w)] = Append(@, det[w].stmt)]
      BY <2>1 DEF Remember, Holding, Ranking
    <3> QED BY <1>5, <3>1 DEF TypeOK
  <2>2. CASE ~Remember(w)
    BY <2>2 DEF Take, Detect, Scored, Lock, Prior, Compare, Stance, EmitFlag, TypeOK
  <2> QED BY <2>1, <2>2
<1>8. seen' \in [Statements -> SUBSET Statements]
  <2>1. CASE Prior(w)
    <3>1. Holding(w) /\ seen' = [seen EXCEPT ![det[w].stmt] = Priors(Speaker(w))]
      BY <2>1 DEF Prior, Holding
    <3>2. Priors(Speaker(w)) \subseteq Statements
      BY <1>5, <3>1 DEF Priors, TypeOK
    <3> QED BY <3>1, <3>2 DEF TypeOK
  <2>2. CASE ~Prior(w)
    BY <2>2 DEF Take, Detect, Scored, Lock, Compare, Stance, EmitFlag, Remember, TypeOK
  <2> QED BY <2>1, <2>2
<1>9. flags' \subseteq Flags
  <2>1. CASE EmitFlag(w)
    <3>1. Holding(w) /\ det[w].pc = "flag"
      BY <2>1 DEF EmitFlag, Holding, Ranking
    <3>2. det[w].hit \in Priors(Speaker(w)) /\ Priors(Speaker(w)) \subseteq Statements
      BY <1>5, <3>1 DEF Core, FromHistory, Priors, TypeOK
    <3>3. Flag(w) \in Flags
      BY <1>5, <3>1, <3>2 DEF Flag, Flags
    <3> QED BY <2>1, <3>3 DEF EmitFlag, TypeOK
  <2>2. CASE ~EmitFlag(w)
    BY <2>2 DEF Take, Detect, Scored, Lock, Prior, Compare, Stance, Remember, TypeOK
  <2> QED BY <2>1, <2>2
<1> QED BY <1>1, <1>2, <1>3, <1>4, <1>6, <1>7, <1>8, <1>9 DEF TypeOK

LEMMA NextIsGood == IInv /\ [Next]_vars => IInv'
<1> SUFFICES ASSUME IInv, [Next]_vars PROVE IInv'
  OBVIOUS
<1>1. ASSUME NEW w \in Workers, Take(w) \/ Detect(w) PROVE IInv'
  BY <1>1, TypeStep, SlotsStep, WorkerKeepsCore DEF IInv
<1>2. CASE Cancel \/ UNCHANGED vars
  <2>1. /\ UNCHANGED <<speakerOf, next, det, lock, history, seen, flags>>
        /\ ctxDone' \in BOOLEAN
    BY <1>2 DEF Cancel, vars, IInv, TypeOK
  <2>2. TypeOK' /\ IsFiniteSet(InStance)'
    BY <2>1 DEF IInv, TypeOK, InStance
  <2>3. (Claimed /\ Attributed /\ Owned /\ Recorded /\ RankedAll /\ FromHistory)'
    <3>1. \A v : /\ Busy(v)' <=> Busy(v)
                 /\ Holding(v)' <=> Holding(v)
                 /\ Ranking(v)' <=> Ranking(v)
                 /\ Speaker(v)' = Speaker(v)
                 /\ Priors(v)' = Priors(v)
      BY <2>1 DEF Busy, Holding, Ranking, Speaker, Priors
    <3>2. Claimed'
      BY <2>1, <3>1 DEF IInv, Core, Claimed
    <3>3. Attributed' /\ Owned'
      BY <2>1, <3>1 DEF IInv, Core, Attributed, Owned
    <3>4. Recorded' /\ RankedAll'
      BY <2>1, <3>1 DEF IInv, Core, Recorded, RankedAll
    <3>5. FromHistory'
      BY <2>1, <3>1 DEF IInv, Core, FromHistory
    <3> QED BY <3>2, <3>3, <3>4, <3>5
  <2>4. (Flagged /\ NoPairMissed /\ FlagsAreSound /\ OneFlagEach)'
    BY <2>1 DEF IInv, Core, Flagged, NoPairMissed, FlagsAreSound, OneFlagEach, Busy
  <2> QED BY <2>2, <2>3, <2>4 DEF IInv, Core
<1> QED BY <1>1, <1>2 DEF Next

LEMMA Invariant == Spec => []IInv
BY InitIsGood, NextIsGood, PTL DEF Spec

-----------------------------------------------------------------------------

\* The types, and the stance slots never exceeded.
THEOREM MemoryTypeCorrect == Spec => []TypeOK
<1>1. IInv => TypeOK
  BY DEF IInv
<1> QED BY <1>1, Invariant, PTL

\* However the pool interleaves, of any two remembered statements of a speaker
\* the later remembered was compared with the earlier (speakerLock).
THEOREM PairsAreCompared == Spec => []NoPairMissed
<1>1. IInv => NoPairMissed
  BY DEF IInv, Core
<1> QED BY <1>1, Invariant, PTL

\* A contradiction is between two statements of one known speaker, and each
\* statement is flagged once at most (the loop of detectConsistency).
THEOREM FlagsAreCorrect == Spec => [](FlagsAreSound /\ OneFlagEach)
<1>1. IInv => FlagsAreSound /\ OneFlagEach
  BY DEF IInv, Core
<1> QED BY <1>1, Invariant, PTL

OneDetector ==
  \A w, v \in Workers :
    Holding(w) /\ Holding(v) /\ Speaker(w) = Speaker(v) => w = v

\* No two workers detect for one speaker at once, from reading the history to
\* remembering (the mutex of speakerLock).
THEOREM DetectionIsExclusive == Spec => []OneDetector
<1>1. IInv => OneDetector
  BY DEF IInv, Core, Owned, OneDetector
<1> QED BY <1>1, Invariant, PTL

\* The memory as a whole: typed, within its stance slots, with every pair
\* compared and every flag sound and single.
THEOREM MemoryIsSound == Spec => []MemorySound
<1>1. IInv => MemorySound
  BY DEF IInv, Core, MemorySound
<1> QED BY <1>1, Invariant, PTL

-----------------------------------------------------------------------------
(* The audio of a session: the writer between the source and the provider. *)

\* What the provider heard, then what the writer has not sent yet, are the
\* samples that were received; between chunks less than a frame is held.
Unsent(n) == Len(played) + n - writer.sent
AudioInv ==
  /\ heard \in Nat /\ held \in Seq(Nat) /\ played \in Seq(Nat) /\ writer.sent \in Nat
  /\ writer \in [pc : {"select", "emit", "done"}, sent : Nat]
  /\ lengths \subseteq MinFrame .. MaxFrame
  /\ \A i \in 1 .. Len(played) : played[i] = i
  /\ writer.pc # "done" =>
       /\ writer.sent <= Len(held) /\ Unsent(Len(held)) = heard
       /\ \A n \in 1 .. Len(held) : held[n] = Unsent(n)
  /\ writer.pc = "select" => writer.sent = 0 /\ Len(held) < FrameSize

LEMMA FramesFact == /\ MinFrame \in Nat \ {0} /\ FrameSize \in Nat /\ MaxFrame \in Nat
                    /\ MinFrame <= FrameSize /\ FrameSize <= MaxFrame
BY FramesAssumption

LEMMA AudioStarts == InitTranscriber => AudioInv
BY FramesFact DEF InitTranscriber, AudioInv, Unsent

\* The samples a source delivers next.
LEMMA Counted ==
  ASSUME NEW n \in Nat, NEW a \in Nat
  PROVE  /\ [i \in 1 .. n |-> a + i] \in Seq(Nat) /\ Len([i \in 1 .. n |-> a + i]) = n
         /\ \A i \in 1 .. n : [j \in 1 .. n |-> a + j][i] = a + i
OBVIOUS

\* Numbered samples followed by the next ones are numbered.
LEMMA Numbered ==
  ASSUME NEW a \in Seq(Nat), NEW b \in Seq(Nat), NEW k \in Nat,
         \A i \in 1 .. Len(a) : a[i] = k + i,
         \A i \in 1 .. Len(b) : b[i] = k + Len(a) + i
  PROVE  /\ a \o b \in Seq(Nat) /\ Len(a \o b) = Len(a) + Len(b)
         /\ \A i \in 1 .. Len(a) + Len(b) : (a \o b)[i] = k + i
<1>1. PICK x \in Nat, y \in Nat : x = Len(a) /\ y = Len(b)
  OBVIOUS
<1>2. /\ a \o b \in Seq(Nat) /\ Len(a \o b) = x + y
      /\ \A i \in 1 .. x + y : (a \o b)[i] = IF i <= x THEN a[i] ELSE b[i - x]
  BY <1>1, ConcatProperties
<1>3. ASSUME NEW i \in 1 .. x + y PROVE (a \o b)[i] = k + i
  <2>1. CASE i <= x
    BY <1>1, <1>2, <2>1
  <2>2. CASE i > x
    <3>1. i - x \in 1 .. y
      BY <1>1, <2>2
    <3>2. (a \o b)[i] = b[i - x]
      BY <1>1, <1>2, <2>2
    <3> QED BY <1>1, <3>1, <3>2
  <2> QED BY <1>1, <2>1, <2>2
<1> QED BY <1>1, <1>2, <1>3

\* A part of a numbered sequence is numbered.
LEMMA PartNumbered ==
  ASSUME NEW h \in Seq(Nat), NEW k \in Int, NEW s \in Nat, NEW e \in Nat, s <= e, e <= Len(h),
         \A i \in 1 .. Len(h) : h[i] = k + i
  PROVE  /\ SubSeq(h, s + 1, e) \in Seq(Nat) /\ Len(SubSeq(h, s + 1, e)) = e - s
         /\ \A i \in 1 .. e - s : SubSeq(h, s + 1, e)[i] = k + s + i
<1>1. \A i \in s + 1 .. e : i \in 1 .. Len(h) /\ h[i] \in Nat
  OBVIOUS
<1>2. /\ SubSeq(h, s + 1, e) \in Seq(Nat)
      /\ Len(SubSeq(h, s + 1, e)) = IF s + 1 <= e THEN e - (s + 1) + 1 ELSE 0
      /\ \A i \in 1 .. e - (s + 1) + 1 : SubSeq(h, s + 1, e)[i] = h[(s + 1) + i - 1]
  BY <1>1, SubSeqProperties
<1>3. ASSUME NEW i \in 1 .. e - s PROVE SubSeq(h, s + 1, e)[i] = k + s + i
  <2>1. (s + 1) + i - 1 = s + i /\ s + i \in s + 1 .. e /\ i \in 1 .. e - (s + 1) + 1
    OBVIOUS
  <2>2. SubSeq(h, s + 1, e)[i] = h[s + i]
    BY <1>2, <2>1
  <2>3. h[s + i] = k + (s + i)
    BY <1>1, <2>1
  <2> QED BY <2>2, <2>3
<1> QED BY <1>2, <1>3

\* While the writer runs, what it holds continues what the provider heard.
LEMMA Running ==
  ASSUME AudioInv, writer.pc # "done"
  PROVE  \E s \in Nat, h \in Nat, p \in Nat :
           /\ s = writer.sent /\ h = Len(held) /\ p = Len(played) /\ s <= h
           /\ heard = p - s + h /\ \A i \in 1 .. h : held[i] = p - s + i
<1>1. PICK s \in Nat, h \in Nat, p \in Nat : s = writer.sent /\ h = Len(held) /\ p = Len(played)
  BY DEF AudioInv
<1>2. s <= h /\ p + h - s = heard /\ \A i \in 1 .. h : held[i] = p + i - s
  BY <1>1 DEF AudioInv, Unsent
<1>3. heard = p - s + h /\ \A i \in 1 .. h : held[i] = p - s + i
  BY <1>2
<1> QED BY <1>1, <1>2, <1>3

\* A frame that goes out follows what was heard before it.
LEMMA FramePlayed ==
  ASSUME AudioInv, writer.pc # "done", NEW n \in MinFrame .. MaxFrame, writer.sent + n <= Len(held),
         Play(SubSeq(held, writer.sent + 1, writer.sent + n))
  PROVE  /\ played' \in Seq(Nat) /\ Len(played') = Len(played) + n /\ lengths' \subseteq MinFrame .. MaxFrame
         /\ \A i \in 1 .. Len(played') : played'[i] = i
<1>1. PICK s \in Nat, h \in Nat, p \in Nat :
           /\ s = writer.sent /\ h = Len(held) /\ p = Len(played) /\ s <= h
           /\ heard = p - s + h /\ \A i \in 1 .. h : held[i] = p - s + i
  BY Running
<1>2. n \in Nat /\ s + n <= h /\ s <= s + n
  BY <1>1, FramesFact
<1>3. held \in Seq(Nat) /\ played \in Seq(Nat) /\ \A i \in 1 .. p : played[i] = i
  BY <1>1 DEF AudioInv
<1>4. PICK f : f = SubSeq(held, s + 1, s + n)
  OBVIOUS
<1>5. f \in Seq(Nat) /\ Len(f) = n /\ \A i \in 1 .. n : f[i] = p + i
  <2>1. PICK k \in Int, e \in Nat : k = p - s /\ e = s + n
    BY <1>1, <1>2
  <2> k \in Int /\ e \in Nat /\ s \in Nat /\ p \in Nat /\ n \in Nat
    BY <1>1, <1>2, <2>1
  <2>2. s <= e /\ e <= Len(held) /\ \A i \in 1 .. Len(held) : held[i] = k + i
    BY <1>1, <1>2, <2>1
  <2>3. /\ SubSeq(held, s + 1, e) \in Seq(Nat) /\ Len(SubSeq(held, s + 1, e)) = e - s
        /\ \A i \in 1 .. e - s : SubSeq(held, s + 1, e)[i] = k + s + i
    BY <1>3, <2>2, PartNumbered
  <2>4. f = SubSeq(held, s + 1, e) /\ e - s = n /\ \A i \in 1 .. n : k + s + i = p + i
    <3>1. \A i \in 1 .. n : k + s + i = p + i
      BY <2>1
    <3> QED BY <1>1, <1>2, <1>4, <2>1, <3>1
  <2> QED BY <2>3, <2>4
<1>6. played' = played \o f /\ lengths' = lengths \cup {n}
  BY <1>1, <1>4, <1>5 DEF Play
<1>7. PICK z \in Nat : z = 0
  OBVIOUS
<1>8. /\ played \o f \in Seq(Nat) /\ Len(played \o f) = Len(played) + Len(f)
      /\ \A i \in 1 .. Len(played) + Len(f) : (played \o f)[i] = z + i
  <2>1. /\ \A i \in 1 .. Len(played) : played[i] = z + i
        /\ \A i \in 1 .. Len(f) : f[i] = z + Len(played) + i
    BY <1>1, <1>3, <1>5, <1>7
  <2> QED BY <1>3, <1>5, <2>1, Numbered
<1>9. \A i \in 1 .. Len(played') : played'[i] = i
  BY <1>1, <1>2, <1>5, <1>6, <1>7, <1>8
<1>10. lengths' \subseteq MinFrame .. MaxFrame
  BY <1>6 DEF AudioInv
<1> QED BY <1>1, <1>5, <1>6, <1>8, <1>9, <1>10

LEMMA ReceiveKeeps == ASSUME AudioInv, NEW n \in ChunkSizes, Receive(n) PROVE AudioInv'
<1>1. /\ UNCHANGED <<played, lengths>> /\ writer.pc = "select"
      /\ heard' = heard + n /\ writer' = [pc |-> "emit", sent |-> 0]
      /\ held' = held \o [i \in 1 .. n |-> heard + i]
  BY DEF Receive
<1>2. PICK s \in Nat, h \in Nat, p \in Nat :
           /\ s = writer.sent /\ h = Len(held) /\ p = Len(played) /\ s <= h
           /\ heard = p - s + h /\ \A i \in 1 .. h : held[i] = p - s + i
  BY <1>1, Running
<1>3. n \in Nat /\ s = 0 /\ held \in Seq(Nat) /\ heard = p + h
  <2>1. n \in Nat
    BY FramesAssumption
  <2>2. s = 0
    BY <1>1, <1>2 DEF AudioInv
  <2> QED BY <1>2, <2>1, <2>2 DEF AudioInv
<1>4. PICK f : f = [i \in 1 .. n |-> heard + i]
  OBVIOUS
<1>5. f \in Seq(Nat) /\ Len(f) = n /\ \A i \in 1 .. n : f[i] = heard + i
  BY <1>2, <1>3, <1>4, Counted
<1>6. /\ \A i \in 1 .. Len(held) : held[i] = p + i
      /\ \A i \in 1 .. Len(f) : f[i] = p + Len(held) + i
  BY <1>2, <1>3, <1>5
<1>7. /\ held' \in Seq(Nat) /\ Len(held') = h + n
      /\ \A i \in 1 .. h + n : held'[i] = p + i
  <2>1. /\ held \o f \in Seq(Nat) /\ Len(held \o f) = Len(held) + Len(f)
        /\ \A i \in 1 .. Len(held) + Len(f) : (held \o f)[i] = p + i
    BY <1>2, <1>3, <1>5, <1>6, Numbered
  <2>2. held' = held \o f
    BY <1>1, <1>4
  <2> QED BY <1>2, <1>5, <2>1, <2>2
<1>8. writer'.pc = "emit" /\ writer'.sent = 0 /\ Len(played') = p
  BY <1>1, <1>2
<1>9. /\ writer'.sent <= Len(held') /\ Len(played') + Len(held') - writer'.sent = heard'
      /\ \A i \in 1 .. Len(held') : held'[i] = Len(played') + i - writer'.sent
  BY <1>1, <1>2, <1>3, <1>7, <1>8
<1>10. /\ heard' \in Nat /\ played' \in Seq(Nat) /\ lengths' \subseteq MinFrame .. MaxFrame
       /\ \A i \in 1 .. Len(played') : played'[i] = i
  BY <1>1, <1>2, <1>3 DEF AudioInv
<1>11. writer' \in [pc : {"select", "emit", "done"}, sent : Nat]
  BY <1>1
<1> QED BY <1>7, <1>8, <1>9, <1>10, <1>11 DEF AudioInv, Unsent

LEMMA WriteFrameKeeps == ASSUME AudioInv, WriteFrame PROVE AudioInv'
<1>1. /\ writer.pc = "emit" /\ Len(held) - writer.sent >= FrameSize /\ UNCHANGED <<heard, held>>
      /\ Play(SubSeq(held, writer.sent + 1, writer.sent + FrameSize))
      /\ writer' = [writer EXCEPT !.sent = @ + FrameSize]
  BY DEF WriteFrame, FrameReady
<1>2. PICK s \in Nat, h \in Nat, p \in Nat :
           /\ s = writer.sent /\ h = Len(held) /\ p = Len(played) /\ s <= h
           /\ heard = p - s + h /\ \A i \in 1 .. h : held[i] = p - s + i
  BY <1>1, Running
<1>3. FrameSize \in MinFrame .. MaxFrame /\ FrameSize \in Nat /\ s + FrameSize <= h
  BY <1>1, <1>2, FramesFact
<1>4. /\ played' \in Seq(Nat) /\ Len(played') = p + FrameSize /\ lengths' \subseteq MinFrame .. MaxFrame
      /\ \A i \in 1 .. Len(played') : played'[i] = i
  BY <1>1, <1>2, <1>3, FramePlayed
<1>5. writer' = [pc |-> "emit", sent |-> s + FrameSize]
  BY <1>1, <1>2 DEF AudioInv
<1>6. writer'.pc = "emit" /\ writer'.sent = s + FrameSize /\ writer' \in [pc : {"select", "emit", "done"}, sent : Nat]
  BY <1>2, <1>3, <1>5
<1>7. /\ writer'.sent <= Len(held') /\ Len(played') + Len(held') - writer'.sent = heard'
      /\ \A i \in 1 .. Len(held') : held'[i] = Len(played') + i - writer'.sent
  <2> s \in Nat /\ h \in Nat /\ p \in Nat /\ FrameSize \in Nat
    BY <1>2, <1>3
  <2>1. Len(held') = h /\ held' = held /\ heard' = p - s + h
    BY <1>1, <1>2
  <2>2. \A i \in 1 .. h : (p + FrameSize) + i - (s + FrameSize) = p - s + i
    OBVIOUS
  <2>3. (p + FrameSize) + h - (s + FrameSize) = p - s + h
    OBVIOUS
  <2>4. \A i \in 1 .. h : held[i] = (p + FrameSize) + i - (s + FrameSize)
    BY <1>2, <2>2
  <2> QED BY <1>3, <1>4, <1>6, <2>1, <2>3, <2>4
<1>8. heard' \in Nat /\ held' \in Seq(Nat)
  BY <1>1 DEF AudioInv
<1> QED BY <1>4, <1>6, <1>7, <1>8 DEF AudioInv, Unsent

LEMMA CompactKeeps == ASSUME AudioInv, Compact PROVE AudioInv'
<1>1. /\ writer.pc = "emit" /\ ~(Len(held) - writer.sent >= FrameSize) /\ UNCHANGED <<heard, played, lengths>>
      /\ held' = SubSeq(held, writer.sent + 1, Len(held)) /\ writer' = [pc |-> "select", sent |-> 0]
  BY DEF Compact, FrameReady
<1>2. PICK s \in Nat, h \in Nat, p \in Nat :
           /\ s = writer.sent /\ h = Len(held) /\ p = Len(played) /\ s <= h
           /\ heard = p - s + h /\ \A i \in 1 .. h : held[i] = p - s + i
  BY <1>1, Running
<1>3. held \in Seq(Nat) /\ p - s \in Int
  BY <1>2 DEF AudioInv
<1>4. /\ held' \in Seq(Nat) /\ Len(held') = h - s
      /\ \A i \in 1 .. h - s : held'[i] = p + i
  <2>1. PICK k \in Int : k = p - s
    BY <1>3
  <2> k \in Int /\ s \in Nat /\ h \in Nat /\ p \in Nat
    BY <1>2, <2>1
  <2>2. s <= h /\ h <= Len(held) /\ \A i \in 1 .. Len(held) : held[i] = k + i
    BY <1>2, <2>1
  <2>3. /\ SubSeq(held, s + 1, h) \in Seq(Nat) /\ Len(SubSeq(held, s + 1, h)) = h - s
        /\ \A i \in 1 .. h - s : SubSeq(held, s + 1, h)[i] = k + s + i
    BY <1>3, <2>2, PartNumbered
  <2>4. held' = SubSeq(held, s + 1, h) /\ \A i \in 1 .. h - s : k + s + i = p + i
    <3>1. \A i \in 1 .. h - s : k + s + i = p + i
      BY <2>1
    <3> QED BY <1>1, <1>2, <3>1
  <2> QED BY <2>3, <2>4
<1>5. writer'.pc = "select" /\ writer'.sent = 0 /\ Len(played') = p
  BY <1>1, <1>2
<1>6. Len(held') < FrameSize
  BY <1>1, <1>2, <1>4, FramesFact
<1>7. /\ writer'.sent <= Len(held') /\ Len(played') + Len(held') - writer'.sent = heard'
      /\ \A i \in 1 .. Len(held') : held'[i] = Len(played') + i - writer'.sent
  <2>1. heard' = p - s + h /\ Len(held') = h - s
    BY <1>1, <1>2, <1>4
  <2>2. p + (h - s) - 0 = p - s + h /\ \A i \in 1 .. h - s : p + i = p + i - 0
    BY <1>2
  <2> QED BY <1>2, <1>4, <1>5, <2>1, <2>2
<1>8. /\ heard' \in Nat /\ played' \in Seq(Nat) /\ lengths' \subseteq MinFrame .. MaxFrame
      /\ \A i \in 1 .. Len(played') : played'[i] = i
  BY <1>1 DEF AudioInv
<1>9. writer' \in [pc : {"select", "emit", "done"}, sent : Nat]
  BY <1>1
<1> QED BY <1>4, <1>5, <1>6, <1>7, <1>8, <1>9 DEF AudioInv, Unsent

\* A writer that is done has only what it played to answer for.
LEMMA DoneKeeps ==
  ASSUME AudioInv, WriterDone, UNCHANGED <<heard, held, played, lengths>>
  PROVE  AudioInv'
<1>1. writer' = [pc |-> "done", sent |-> writer.sent] /\ writer.sent \in Nat
  BY DEF WriterDone, AudioInv
<1> QED BY <1>1 DEF AudioInv

LEMMA FlushKeeps == ASSUME AudioInv, Flush PROVE AudioInv'
<1>1. writer.pc = "select" /\ WriterDone /\ UNCHANGED <<heard, held>>
  BY DEF Flush
<1>2. CASE UNCHANGED <<played, lengths>>
  BY <1>1, <1>2, DoneKeeps
<1>3. CASE Len(held) >= MinFrame /\ Play(held)
  <2>1. writer.sent = 0 /\ Len(held) < FrameSize /\ held \in Seq(Nat) /\ Len(held) \in Nat
    BY <1>1 DEF AudioInv
  <2>2. Len(held) \in MinFrame .. MaxFrame
    BY <1>3, <2>1, FramesFact
  <2>3. held = SubSeq(held, writer.sent + 1, writer.sent + Len(held))
    <3>1. SubSeq(held, 1, Len(held)) = held
      BY <2>1, SubSeqFull
    <3> QED BY <2>1, <3>1
  <2>4. /\ played' \in Seq(Nat) /\ lengths' \subseteq MinFrame .. MaxFrame
        /\ \A i \in 1 .. Len(played') : played'[i] = i
    <3>1. PICK n \in MinFrame .. MaxFrame : n = Len(held)
      BY <2>2
    <3>2. writer.pc # "done" /\ writer.sent + n <= Len(held) /\ Play(SubSeq(held, writer.sent + 1, writer.sent + n))
      <4>1. held = SubSeq(held, writer.sent + 1, writer.sent + n)
        BY <2>3, <3>1
      <4>2. Play(SubSeq(held, writer.sent + 1, writer.sent + n))
        BY <1>3, <4>1
      <4>3. writer.sent + n <= Len(held)
        BY <2>1, <3>1
      <4> QED BY <1>1, <4>2, <4>3
    <3> QED BY <3>2, FramePlayed
  <2>5. writer' = [pc |-> "done", sent |-> writer.sent]
    BY <1>1 DEF WriterDone, AudioInv
  <2> QED BY <1>1, <2>4, <2>5 DEF AudioInv
<1> QED BY <1>2, <1>3 DEF Flush

LEMMA AudioStep == ASSUME AudioInv, [NextTranscriber]_transcriberVars PROVE AudioInv'
<1>1. CASE UNCHANGED <<heard, held, writer, played, lengths>>
  BY <1>1 DEF AudioInv, Unsent
<1>2. CASE WriteFails \/ WriterCancelled
  BY <1>2, DoneKeeps DEF WriteFails, WriterCancelled
<1> QED
  BY <1>1, <1>2, ReceiveKeeps, WriteFrameKeeps, CompactKeeps, FlushKeeps
  DEF NextTranscriber, transcriberVars, WriterStep, ReaderStep, AdapterStep, writeVars, Dial, Stop, CloseOut, AudioEnds,
      Send, Stall, Resume, HangUp, Read, ReadFails, Emit, EmitCancelled, Deliver, AdapterStops, AdapterEnds

(***************************************************************************)
(* For any sizes of chunks and frames: every frame has a length the        *)
(* provider accepts, the provider hears the samples in order, none twice   *)
(* and none left out, and between chunks what it has not heard is what the *)
(* writer holds (writeAudio, lines 289 to 331).                            *)
(***************************************************************************)
THEOREM AudioIsWhole == TranscriberSpec => [](FramesFit /\ AudioWhole)
<1>1. ASSUME AudioInv PROVE FramesFit /\ AudioWhole
  <2>1. played = [i \in 1 .. Len(played) |-> i]
    BY <1>1 DEF AudioInv
  <2>2. ASSUME writer.pc = "select" PROVE played \o held = [i \in 1 .. heard |-> i]
    <3>1. /\ played \in Seq(Nat) /\ held \in Seq(Nat) /\ Len(played) + Len(held) = heard /\ heard \in Nat
          /\ \A i \in 1 .. Len(played) : played[i] = i
          /\ \A n \in 1 .. Len(held) : held[n] = Len(played) + n
      BY <1>1, <2>2 DEF AudioInv, Unsent
    <3>2. PICK z \in Nat : z = 0
      OBVIOUS
    <3>3. /\ played \o held \in Seq(Nat) /\ Len(played \o held) = Len(played) + Len(held)
          /\ \A i \in 1 .. Len(played) + Len(held) : (played \o held)[i] = z + i
      <4>1. /\ \A i \in 1 .. Len(played) : played[i] = z + i
            /\ \A i \in 1 .. Len(held) : held[i] = z + Len(played) + i
        BY <3>1, <3>2
      <4> QED BY <3>1, <4>1, Numbered
    <3>4. /\ [i \in 1 .. heard |-> z + i] \in Seq(Nat) /\ Len([i \in 1 .. heard |-> z + i]) = heard
          /\ \A i \in 1 .. heard : [j \in 1 .. heard |-> z + j][i] = z + i
      BY <3>1, Counted
    <3>5. played \o held = [i \in 1 .. heard |-> z + i]
      BY <3>1, <3>3, <3>4, SeqEqual
    <3> QED BY <3>1, <3>2, <3>5
  <2> QED BY <1>1, <2>1, <2>2 DEF AudioInv, FramesFit, AudioWhole
<1> QED BY <1>1, AudioStarts, AudioStep, PTL DEF TranscriberSpec
=============================================================================
