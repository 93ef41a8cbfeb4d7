-------------------------- MODULE VerifyPathProofs ---------------------------
(***************************************************************************)
(* VerifyPath, for any workers, claims, verdicts, speakers and slots:      *)
(* every unit left is answered in one way, the tally a reader sees counts  *)
(* the verdicts first reached, and a claim's row follows ClaimLifecycle.   *)
(* VerifyInv says who works on what (WorkersKeep, Alone, Begun, Left),     *)
(* what each point of a claim's way says of its row and its verdict        *)
(* (ClaimsRight), and that the snapshots of a speaker still on their way   *)
(* lie in a line that ends in the tally (Tallied, InLine, Latest): they    *)
(* are sent in any order, and the reader keeps the larger sample.          *)
(*                                                                         *)
(* And EmbedClient, which the same run checks, for any number of callers,  *)
(* any batch and any reply, limiter interval, back-off and Retry-After.    *)
(* The pace rests on the order of the limiter's turns (Turns): waits are   *)
(* an interval apart and none ends before the gap; how far ahead a turn    *)
(* can lie, on counting the callers that wait for one (Ahead).             *)
(***************************************************************************)
EXTENDS VerifyPath, EmbedClient, FiniteSetTheorems, WellFoundedInduction, TLAPS

\* A worker has its own unit, of those taken, and a claim's job its unit's worker.
WorkersKeep ==
  \A w \in Workers :
    /\ worker[w].pc = "idle" <=> worker[w].unit = 0
    /\ worker[w].unit < next
    /\ worker[w].claims \subseteq ClaimsOf(worker[w].unit)
    /\ worker[w].pc \in {"idle", "gate", "answer"} => worker[w].claims = {}
    /\ worker[w].pc \in {"announce", "claims"} => worker[w].claims # {}
Alone == \A w, x \in Workers : worker[w].unit = worker[x].unit /\ worker[w].unit # 0 => w = x

Waiting(w, c) == worker[w].pc = "claims" /\ c \in worker[w].claims
Begun ==
  /\ \A c \in Claims : job[c].pc # "none" =>
       /\ UnitOf[c] < next /\ UnitOf[c] \notin answered
       /\ \A w \in Workers : worker[w].unit = UnitOf[c] => Waiting(w, c)
  /\ \A c \in Claims : job[c].pc \notin {"none", "done"} => \E w \in Workers : worker[w].unit = UnitOf[c]
  /\ \A w \in Workers : \A c \in worker[w].claims : Waiting(w, c) => job[c].pc # "none"

\* A unit left behind was answered as a whole, or has claims that are done.
Left ==
  /\ \A u \in answered : Handled(u)
  /\ ~ctxDone => \A u \in 1 .. Units : Handled(u) /\ u \notin answered => \E c \in ClaimsOf(u) : job[c].pc = "done"

\* What the row shows and the job holds at each point of a claim's way.
Fresh  == {"none", "lookup", "retrieve", "route", "checking", "acquire", "wait", "verify", "shed", "fail"}
Judged == {"settle", "tally", "send tally", "consistency", "reverify", "upgrade"}
Shown  == {"tally", "send tally", "consistency", "reverify", "upgrade"}

RowRight(j, r, over) ==
  /\ j.pc = "none" => j = NoJob /\ r = NoRow
  /\ j.pc \in {"lookup", "retrieve", "route", "checking"} => r.status = "pending"
  /\ j.pc \in {"acquire", "wait", "verify", "shed"} => r.status = "checking"
  /\ j.pc \in {"settle", "fail"} => r.status \in {"pending", "checking"}
  /\ j.pc \in Shown =>
       \/ r = [status |-> "verified", verdict |-> j.verdict]
       \/ over /\ r.status \in {"pending", "checking"}
  /\ j.pc = "done" =>
       /\ r.status # "none" /\ (over \/ r.status \in {"verified", "unchecked", "error"})
       /\ j.verdict # NoVerdict => over \/ r.status = "verified"
       /\ j.verdict = NoVerdict => r.status # "verified"

JobRight(j, r) ==
  /\ j.verdict \in Verdicts \cup {NoVerdict}
  /\ j.pc \in Fresh => j.verdict = NoVerdict /\ ~j.judged
  /\ j.pc \in Judged => j.verdict # NoVerdict
  /\ j.judged => j.verdict # NoVerdict /\ ~j.verdict.deep
  /\ j.pc = "settle" => r.status = "pending" \/ ~j.verdict.deep
  /\ j.pc \in {"reverify", "upgrade"} => j.judged /\ j.verdict.grounded
  /\ j.pc = "upgrade" => j.deeper \in Verdicts /\ j.deeper.deep /\ j.deeper.grounded

ClaimsRight == \A c \in Claims : RowRight(job[c], row[c], ctxDone) /\ JobRight(job[c], row[c])

\* The tally counts the verdicts first reached, and a speaker's snapshots are
\* told apart by their samples, the largest of which is the tally's.
CountedJob(j) == j.verdict # NoVerdict /\ j.pc \notin {"settle", "tally"}
Counted(s, k) == {c \in Claims : CountedJob(job[c]) /\ Speaker(c) = s /\ job[c].verdict.state = k}
Tallied == \A s \in Speakers, k \in States : tally[s][k] = Cardinality(Counted(s, k))

Sending(s) == {c \in Claims : job[c].pc = "send tally" /\ Speaker(c) = s}
Snapshots(s) == {panel[s], tally[s]} \cup {job[c].snap : c \in Sending(s)}
InLine ==
  \A s \in Speakers : \A x, y \in Snapshots(s) :
    Sample(x) <= Sample(tally[s]) /\ (Sample(x) = Sample(y) => x = y)
Latest == ~ctxDone => \A s \in Speakers : panel[s] = tally[s] \/ \E c \in Sending(s) : job[c].snap = tally[s]
Known  == \A c \in Claims : job[c].pc = "send tally" => Speaker(c) # Unknown

VerifyInv ==
  /\ TypeOK /\ WorkersKeep /\ Alone /\ Begun /\ Left /\ ClaimsRight
  /\ Tallied /\ InLine /\ Latest /\ Known

-----------------------------------------------------------------------------
(* Counting.                                                               *)

LEMMA LeastNat ==
  ASSUME NEW T \in SUBSET Nat, T # {}
  PROVE  \E x \in T : \A y \in T : x <= y
<1>1. IsWellFoundedOn(OpToRel(<, Nat), Nat)
  BY NatLessThanWellFounded
<1>2. PICK x \in T : \A y \in T : ~(<<y, x>> \in OpToRel(<, Nat))
  BY <1>1, WFMin
<1>3. \A y \in T : ~(y < x)
  BY <1>2 DEF OpToRel
<1> QED BY <1>3

LEMMA LeastSet ==
  ASSUME NEW S, IsFiniteSet(S), NEW T \in SUBSET SUBSET S, T # {}
  PROVE  \E x \in T : \A y \in T : y \subseteq x => y = x
<1>1. FiniteSubsetsOf(S) = SUBSET S
  BY FS_FiniteSubsetsOfFinite
<1>2. IsWellFoundedOn(StrictSubsetOrdering(S), SUBSET S)
  BY <1>1, FS_StrictSubsetOrderingWellFounded
<1>3. PICK x \in T : \A y \in T : ~(<<y, x>> \in StrictSubsetOrdering(S))
  BY <1>2, WFMin
<1>4. ASSUME NEW y \in T, y \subseteq x PROVE y = x
  BY <1>3, <1>4 DEF StrictSubsetOrdering
<1> QED BY <1>4

\* The equation of Sample's sums, over the sets of D.
One(K) == CHOOSE k \in K : TRUE
Sums(t, f, D) == f = [K \in D |-> IF K = {} THEN 0 ELSE t[One(K)] + f[K \ {One(K)}]]
UpTo(n) == {K \in SUBSET States : Cardinality(K) <= n}

LEMMA OneOf ==
  ASSUME NEW K, K # {}
  PROVE  One(K) \in K
BY DEF One

LEMMA SumsUpTo ==
  ASSUME NEW t, NEW n \in Nat, NEW g, Sums(t, g, UpTo(n))
  PROVE  \E h : Sums(t, h, UpTo(n + 1))
<1> DEFINE h == [K \in UpTo(n + 1) |-> IF K = {} THEN 0 ELSE t[One(K)] + g[K \ {One(K)}]]
<1>1. ASSUME NEW K \in UpTo(n + 1), K # {}
      PROVE  h[K \ {One(K)}] = g[K \ {One(K)}]
  <2> DEFINE L == K \ {One(K)}
  <2>1. IsFiniteSet(K)
    BY <1>1, VerdictsAssumption, FS_Subset DEF UpTo
  <2>2. Cardinality(L) = Cardinality(K) - 1 /\ Cardinality(K) \in Nat
    BY <1>1, <2>1, OneOf, FS_RemoveElement, FS_CardinalityType
  <2>3. L \in UpTo(n) /\ L \in UpTo(n + 1)
    BY <1>1, <2>2 DEF UpTo
  <2>4. h[L] = IF L = {} THEN 0 ELSE t[One(L)] + g[L \ {One(L)}]
    BY <2>3
  <2> HIDE DEF h, L
  <2>5. g[L] = IF L = {} THEN 0 ELSE t[One(L)] + g[L \ {One(L)}]
    BY <2>3 DEF Sums
  <2> QED BY <2>4, <2>5 DEF L
<1>2. Sums(t, h, UpTo(n + 1))
  <2>1. \A K \in UpTo(n + 1) : (IF K = {} THEN 0 ELSE t[One(K)] + g[K \ {One(K)}])
                               = (IF K = {} THEN 0 ELSE t[One(K)] + h[K \ {One(K)}])
    BY <1>1
  <2> QED BY <2>1, Zenon DEF Sums
<1> QED BY <1>2

LEMMA SumsExist ==
  ASSUME NEW t
  PROVE  \E f : Sums(t, f, SUBSET States)
<1> DEFINE Bad == {n \in Nat : ~ \E g : Sums(t, g, UpTo(n))}
<1>1. Bad = {}
  <2> SUFFICES ASSUME Bad # {} PROVE FALSE
    OBVIOUS
  <2>1. PICK n \in Bad : \A m \in Bad : n <= m
    BY LeastNat
  <2>2. CASE n = 0
    <3> DEFINE g == [K \in UpTo(0) |-> 0]
    <3>1. \A K \in UpTo(0) : K = {}
      <4> TAKE K \in UpTo(0)
      <4>1. IsFiniteSet(K) /\ Cardinality(K) <= 0
        BY VerdictsAssumption, FS_Subset DEF UpTo
      <4> QED BY <4>1, FS_CardinalityType, FS_EmptySet
    <3>2. Sums(t, g, UpTo(0))
      BY <3>1 DEF Sums
    <3> QED BY <2>2, <3>2
  <2>3. CASE n # 0
    <3>1. n - 1 \in Nat /\ n - 1 \notin Bad /\ (n - 1) + 1 = n
      BY <2>1, <2>3
    <3>2. PICK g : Sums(t, g, UpTo(n - 1))
      BY <3>1
    <3>3. \E h : Sums(t, h, UpTo((n - 1) + 1))
      BY <3>1, <3>2, SumsUpTo
    <3> QED BY <2>1, <3>1, <3>3
  <2> QED BY <2>2, <2>3
<1>2. Cardinality(States) \in Nat /\ UpTo(Cardinality(States)) = SUBSET States
  BY VerdictsAssumption, FS_CardinalityType, FS_Subset DEF UpTo
<1> QED BY <1>1, <1>2

\* A tally's sample: the sum over all states.
LEMMA SampleSums ==
  ASSUME NEW t
  PROVE  \E f : Sums(t, f, SUBSET States) /\ Sample(t) = f[States]
<1> DEFINE f == CHOOSE f : Sums(t, f, SUBSET States)
<1>1. Sums(t, f, SUBSET States)
  BY SumsExist
<1>2. Sample(t) = f[States]
  BY Zenon DEF Sample, Sums, One
<1> QED BY <1>1, <1>2

LEMMA SampleType ==
  ASSUME NEW t \in Tallies
  PROVE  Sample(t) \in Nat
<1>1. PICK f : Sums(t, f, SUBSET States) /\ Sample(t) = f[States]
  BY SampleSums
<1> DEFINE Bad == {K \in SUBSET States : f[K] \notin Nat}
<1>2. Bad = {}
  <2> SUFFICES ASSUME Bad # {} PROVE FALSE
    OBVIOUS
  <2>0. Bad \in SUBSET SUBSET States /\ IsFiniteSet(States)
    BY VerdictsAssumption
  <2>1. PICK K \in Bad : \A L \in Bad : L \subseteq K => L = K
    <3> HIDE DEF Bad
    <3> QED BY <2>0, LeastSet
  <2>9. K \in SUBSET States
    BY <2>1
  <2>2. f[K] = IF K = {} THEN 0 ELSE t[One(K)] + f[K \ {One(K)}]
    BY <1>1, <2>9 DEF Sums
  <2>3. K # {}
    BY <2>2
  <2>4. One(K) \in K
    BY <2>3, OneOf
  <2>5. K \ {One(K)} \in SUBSET States /\ K \ {One(K)} \notin Bad
    BY <2>1, <2>4
  <2>6. t[One(K)] \in Nat
    BY <2>4 DEF Tallies
  <2> QED BY <2>2, <2>3, <2>5, <2>6
<1> QED BY <1>1, <1>2

\* One verdict more is one more.
LEMMA SampleCounts ==
  ASSUME NEW t \in Tallies, NEW s \in States
  PROVE  Sample([t EXCEPT ![s] = @ + 1]) = Sample(t) + 1
<1> DEFINE u == [t EXCEPT ![s] = @ + 1]
<1>1. PICK f : Sums(t, f, SUBSET States) /\ Sample(t) = f[States]
  BY SampleSums
<1>2. PICK g : Sums(u, g, SUBSET States) /\ Sample(u) = g[States]
  BY SampleSums
<1> DEFINE Bad == {K \in SUBSET States : ~(f[K] \in Nat /\ g[K] = f[K] + IF s \in K THEN 1 ELSE 0)}
<1>3. Bad = {}
  <2> SUFFICES ASSUME Bad # {} PROVE FALSE
    OBVIOUS
  <2>0. Bad \in SUBSET SUBSET States /\ IsFiniteSet(States)
    BY VerdictsAssumption
  <2>1. PICK K \in Bad : \A L \in Bad : L \subseteq K => L = K
    <3> HIDE DEF Bad
    <3> QED BY <2>0, LeastSet
  <2>9. K \in SUBSET States
    BY <2>1
  <2> DEFINE k == One(K)
             L == K \ {k}
  <2>2. f[K] = (IF K = {} THEN 0 ELSE t[k] + f[L]) /\ g[K] = (IF K = {} THEN 0 ELSE u[k] + g[L])
    BY <1>1, <1>2, <2>9 DEF Sums
  <2>3. K # {}
    BY <2>2
  <2>4. k \in K
    BY <2>3, OneOf
  <2>5. f[L] \in Nat /\ g[L] = f[L] + IF s \in L THEN 1 ELSE 0
    BY <2>1, <2>4
  <2>6. t[k] \in Nat /\ u[k] = IF k = s THEN t[k] + 1 ELSE t[k]
    BY <2>4 DEF Tallies
  <2>7. s \in K <=> s \in L \/ k = s
    BY <2>4
  <2>8. k \notin L
    OBVIOUS
  <2> HIDE DEF k, L, u
  <2> QED BY <2>1, <2>2, <2>3, <2>5, <2>6, <2>7, <2>8
<1> QED BY <1>1, <1>2, <1>3

-----------------------------------------------------------------------------
(* A step of one claim.                                                    *)

JobRec == [pc : JobPoints, verdict : AllVerdicts \cup {NoVerdict}, deeper : AllVerdicts \cup {NoVerdict},
           judged : BOOLEAN, evidence : BOOLEAN, snap : Tallies]
RowRec == [status : Statuses, verdict : AllVerdicts \cup {NoVerdict}]
CacheOK == cache \in [Texts -> Verdicts \cup {NoVerdict}]
TalliesOK == tally \in [Speakers -> Tallies] /\ panel \in [Speakers -> Tallies]

\* Claim c moves to job j and row r.
Moves(c, j, r) ==
  /\ job' = [job EXCEPT ![c] = j] /\ row' = [row EXCEPT ![c] = r]
  /\ job[c].pc \notin {"none", "done"} /\ j.pc # "none"
  /\ j \in JobRec /\ r \in RowRec
  /\ j.pc = "verify" => SlotFree
  /\ RowRight(j, r, ctxDone) /\ JobRight(j, r)
  /\ UNCHANGED sessionVars

\* It does so without touching a tally.
Quiet(c, j) ==
  /\ job[c].pc # "send tally" /\ j.pc # "send tally"
  /\ CountedJob(j) <=> CountedJob(job[c])
  /\ CountedJob(j) => j.verdict = job[c].verdict
  /\ UNCHANGED <<tally, panel>>

LEMMA Types ==
  ASSUME VerifyInv
  PROVE  /\ job \in [Claims -> JobRec] /\ row \in [Claims -> RowRec]
         /\ CacheOK /\ TalliesOK
BY DEF VerifyInv, TypeOK, JobRec, RowRec, CacheOK, TalliesOK

LEMMA ClaimMoves ==
  ASSUME VerifyInv, NEW c \in Claims, NEW j, NEW r, Moves(c, j, r), CacheOK', TalliesOK'
  PROVE  TypeOK' /\ WorkersKeep' /\ Alone' /\ Begun' /\ Left' /\ ClaimsRight'
<1>1. /\ job \in [Claims -> JobRec] /\ row \in [Claims -> RowRec]
      /\ job' \in [Claims -> JobRec] /\ row' \in [Claims -> RowRec]
  BY Types DEF Moves
<1>2. \A d \in Claims : /\ job'[d] = IF d = c THEN j ELSE job[d]
                        /\ row'[d] = IF d = c THEN r ELSE row[d]
  BY <1>1 DEF Moves
<1>3. UNCHANGED <<mode, next, worker, answered, ctxDone>>
  BY DEF Moves, sessionVars
<1>4. Cardinality(Holders') <= Slots
  <2>1. IsFiniteSet(Holders) /\ Cardinality(Holders) <= Slots
    BY UnitsAssumption, FS_Subset DEF VerifyInv, TypeOK, Holders
  <2>2. Cardinality(Holders) \in Nat /\ Slots \in Nat
    BY <2>1, FS_CardinalityType, PoolAssumption
  <2>3. CASE j.pc = "verify"
    <3>1. Holders' \in SUBSET (Holders \cup {c})
      BY <1>2 DEF Holders
    <3>2. IsFiniteSet(Holders \cup {c}) /\ Cardinality(Holders \cup {c}) <= Cardinality(Holders) + 1
      <4>1. IsFiniteSet(Holders \cup {c})
        BY <2>1, FS_AddElement
      <4>2. Cardinality(Holders \cup {c}) = IF c \in Holders THEN Cardinality(Holders) ELSE Cardinality(Holders) + 1
        BY <2>1, FS_AddElement, Zenon
      <4> QED BY <2>2, <4>1, <4>2
    <3>3. Cardinality(Holders) < Slots
      BY <2>3 DEF Moves, SlotFree
    <3>4. IsFiniteSet(Holders') /\ Cardinality(Holders') <= Cardinality(Holders \cup {c})
      BY <3>1, <3>2, FS_Subset
    <3> QED BY <2>2, <3>2, <3>3, <3>4, FS_CardinalityType
  <2>4. CASE j.pc # "verify"
    <3>1. Holders' \in SUBSET Holders
      BY <1>2, <2>4 DEF Holders
    <3>2. IsFiniteSet(Holders') /\ Cardinality(Holders') <= Cardinality(Holders)
      BY <2>1, <3>1, FS_Subset
    <3> QED BY <2>1, <2>2, <3>2, FS_CardinalityType
  <2> QED BY <2>3, <2>4
<1>5. TypeOK'
  <2> USE DEF VerifyInv, TypeOK
  <2>1. /\ mode' \in Modes /\ next' \in 1 .. Units + 1 /\ answered' \subseteq 1 .. Units /\ ctxDone' \in BOOLEAN
        /\ worker' \in [Workers -> [pc : {"idle", "gate", "answer", "announce", "claims"},
                                    unit : 0 .. Units, claims : SUBSET Claims]]
    BY <1>3
  <2> QED BY <1>1, <1>4, <2>1 DEF JobRec, RowRec, CacheOK, TalliesOK
<1>6. WorkersKeep' /\ Alone'
  BY <1>3 DEF VerifyInv, WorkersKeep, Alone, ClaimsOf
<1>7. Begun'
  <2>1. \A d \in Claims : /\ (job'[d].pc # "none") <=> (job[d].pc # "none")
                          /\ job'[d].pc \notin {"none", "done"} => job[d].pc \notin {"none", "done"}
    BY <1>2 DEF Moves
  <2>2. \A w \in Workers : worker[w].claims \subseteq Claims
    BY DEF VerifyInv, TypeOK
  <2> QED BY <1>3, <2>1, <2>2 DEF VerifyInv, Begun, Waiting
<1>8. Left'
  <2>1. \A u : Handled(u)' <=> Handled(u)
    BY <1>3 DEF Handled
  <2>2. \A d \in Claims : job[d].pc = "done" => job'[d].pc = "done"
    BY <1>2 DEF Moves
  <2> QED BY <1>3, <2>1, <2>2 DEF VerifyInv, Left, ClaimsOf
<1>9. ClaimsRight'
  <2>1. \A d \in Claims : d # c => RowRight(job'[d], row'[d], ctxDone') /\ JobRight(job'[d], row'[d])
    BY <1>2, <1>3 DEF VerifyInv, ClaimsRight
  <2>2. RowRight(job'[c], row'[c], ctxDone') /\ JobRight(job'[c], row'[c])
    BY <1>2, <1>3 DEF Moves
  <2> QED BY <2>1, <2>2 DEF ClaimsRight
<1> QED BY <1>5, <1>6, <1>7, <1>8, <1>9

LEMMA QuietMoves ==
  ASSUME VerifyInv, NEW c \in Claims, NEW j, NEW r, Moves(c, j, r), CacheOK', Quiet(c, j)
  PROVE  VerifyInv'
<1>1. TalliesOK'
  BY Types DEF Quiet, TalliesOK
<1>2. job \in [Claims -> JobRec]
  BY Types
<1>3. \A d \in Claims : job'[d] = IF d = c THEN j ELSE job[d]
  BY <1>2 DEF Moves
<1>4. Tallied'
  <2>1. \A s, k : Counted(s, k)' = Counted(s, k)
    BY <1>3 DEF Counted, CountedJob, Quiet
  <2> QED BY <2>1 DEF VerifyInv, Tallied, Quiet
<1>5. \A s : Sending(s)' = Sending(s)
  BY <1>3 DEF Sending, Quiet
<1>6. \A s : \A d \in Sending(s) : job'[d] = job[d]
  BY <1>3 DEF Sending, Quiet
<1>7. InLine'
  <2>1. \A s : {job'[d].snap : d \in Sending(s)'} = {job[d].snap : d \in Sending(s)}
    BY <1>5, <1>6
  <2>2. \A s : Snapshots(s)' = Snapshots(s)
    BY <2>1 DEF Snapshots, Quiet
  <2> QED BY <2>2 DEF VerifyInv, InLine, Quiet
<1>8. Latest'
  BY <1>5, <1>6 DEF VerifyInv, Latest, Quiet, Moves, sessionVars
<1>9. Known'
  BY <1>3 DEF VerifyInv, Known, Quiet
<1> QED BY <1>1, <1>4, <1>7, <1>8, <1>9, ClaimMoves DEF VerifyInv

\* Most steps only go to another point, with the row shown there.
GoesTo(c, p, r) ==
  /\ p \in JobPoints \ {"none", "send tally"} /\ r \in RowRec
  /\ Goto(c, p) /\ row' = [row EXCEPT ![c] = r] /\ CacheOK'
  /\ job[c].pc \notin {"none", "done", "send tally"}
  /\ job[c].verdict # NoVerdict => (job[c].pc \in {"settle", "tally"} <=> p \in {"settle", "tally"})
  /\ p = "verify" => SlotFree
  /\ RowRight([job[c] EXCEPT !.pc = p], r, ctxDone) /\ JobRight([job[c] EXCEPT !.pc = p], r)
  /\ UNCHANGED sessionVars /\ UNCHANGED <<tally, panel>>

LEMMA GotoMoves ==
  ASSUME VerifyInv, NEW c \in Claims, NEW p, NEW r, GoesTo(c, p, r)
  PROVE  VerifyInv'
<1> DEFINE j == [job[c] EXCEPT !.pc = p]
<1>1. job \in [Claims -> JobRec] /\ job[c] \in JobRec
  BY Types
<1>2. j \in JobRec /\ j.pc = p /\ j.verdict = job[c].verdict
  BY <1>1 DEF JobRec, GoesTo
<1>3. job' = [job EXCEPT ![c] = j]
  BY <1>1 DEF Goto, GoesTo
<1>4. RowRight(j, r, ctxDone) /\ JobRight(j, r)
  BY DEF GoesTo
<1> HIDE DEF j
<1>5. Moves(c, j, r)
  BY <1>2, <1>3, <1>4 DEF Moves, GoesTo
<1>6. Quiet(c, j)
  BY <1>2 DEF Quiet, CountedJob, GoesTo
<1>7. CacheOK'
  BY DEF GoesTo
<1> QED BY <1>5, <1>6, <1>7, QuietMoves

\* What holds of the claim that is about to step.
Here(c) ==
  /\ job[c] \in JobRec /\ row[c] \in RowRec /\ row = [row EXCEPT ![c] = row[c]] /\ CacheOK
  /\ RowRight(job[c], row[c], ctxDone) /\ JobRight(job[c], row[c])
  /\ \A p \in JobPoints :
       LET j == [job[c] EXCEPT !.pc = p]
       IN  /\ j.pc = p /\ j.verdict = job[c].verdict /\ j.deeper = job[c].deeper
           /\ j.judged = job[c].judged /\ j \in JobRec

LEMMA ClaimAt ==
  ASSUME VerifyInv, NEW c \in Claims
  PROVE  Here(c)
BY Types DEF VerifyInv, ClaimsRight, JobRec, Here

LEMMA ShowRow ==
  ASSUME VerifyInv, NEW c \in Claims, NEW status \in Statuses, NEW v \in AllVerdicts \cup {NoVerdict},
         status = "checking" => row[c].status \notin {"verified", "unchecked", "error"},
         Show(c, status, v)
  PROVE  /\ row' = [row EXCEPT ![c] = [status |-> status, verdict |-> v]]
         /\ [status |-> status, verdict |-> v] \in RowRec
BY Types DEF Show, RowRec

\* A verdict the claim reaches by itself.
LEMMA ReachMoves ==
  ASSUME VerifyInv, NEW c \in Claims, NEW v \in Verdicts, ~v.deep, NEW judged \in BOOLEAN,
         job[c].pc \in Fresh \ {"none"}, Reach(c, v, judged), UNCHANGED sessionVars, UNCHANGED <<tally, panel>>,
         NEW r \in RowRec, row' = [row EXCEPT ![c] = r], r.status \in {"pending", "checking"}
  PROVE  VerifyInv'
<1> DEFINE j == [job[c] EXCEPT !.pc = "settle", !.verdict = v, !.judged = judged]
<1>1. /\ job \in [Claims -> JobRec] /\ CacheOK /\ job[c] \in JobRec /\ JobRight(job[c], row[c])
  BY Types DEF VerifyInv, ClaimsRight
<1>2. v \in AllVerdicts /\ v # NoVerdict
  BY VerdictsAssumption
<1>3. job' = [job EXCEPT ![c] = j] /\ j \in JobRec
  BY <1>1, <1>2 DEF Reach, JobRec, JobPoints
<1>4. j.pc = "settle" /\ j.verdict = v /\ j.judged = judged
  BY <1>1 DEF JobRec
<1>5. Moves(c, j, r)
  <2>1. RowRight(j, r, ctxDone) /\ JobRight(j, r)
    BY <1>2, <1>4 DEF RowRight, JobRight, Fresh, Judged, Shown
  <2> HIDE DEF j
  <2> QED BY <1>3, <1>4, <2>1 DEF Moves, Fresh
<1>6. Quiet(c, j)
  BY <1>1, <1>4 DEF Quiet, CountedJob, JobRight, Fresh
<1>7. CacheOK'
  BY <1>1 DEF Reach, Cached, CacheOK
<1> QED BY <1>3, <1>5, <1>6, <1>7, QuietMoves

LEMMA LookupMoves ==
  ASSUME VerifyInv, NEW c \in Claims, Lookup(c)
  PROVE  VerifyInv'
<1>1. Here(c)
  BY ClaimAt
<1>2. job[c].pc = "lookup" /\ UNCHANGED sessionVars /\ UNCHANGED <<tally, row, panel>>
  BY DEF Lookup
<1>3. CASE Goto(c, "retrieve") /\ cache' = [cache EXCEPT ![TextOf[c]] = NoVerdict]
  <2>1. LET j == [job[c] EXCEPT !.pc = "retrieve"] IN RowRight(j, row[c], ctxDone) /\ JobRight(j, row[c])
    BY <1>1, <1>2 DEF Here, RowRight, JobRight, JobPoints, Fresh, Judged, Shown
  <2>2. CacheOK'
    BY <1>1, <1>3 DEF Here, CacheOK
  <2>3. GoesTo(c, "retrieve", row[c])
    BY <1>1, <1>2, <1>3, <2>1, <2>2 DEF GoesTo, Here, JobPoints, JobRight, Fresh
  <2> QED BY <2>3, GotoMoves
<1>4. CASE /\ cache[TextOf[c]] # NoVerdict /\ UNCHANGED cache
           /\ job' = [job EXCEPT ![c].pc = "settle", ![c].verdict = cache[TextOf[c]]]
  <2> DEFINE v == cache[TextOf[c]]
             j == [job[c] EXCEPT !.pc = "settle", !.verdict = v]
  <2>1. v \in Verdicts /\ v \in AllVerdicts
    BY <1>1, <1>4, UnitsAssumption, VerdictsAssumption DEF Here, CacheOK
  <2>2. job' = [job EXCEPT ![c] = j] /\ j \in JobRec
    <3>1. job' = [job EXCEPT ![c] = j]
      BY <1>4, Types
    <3>2. PICK w \in Verdicts \cap AllVerdicts : w = v
      BY <2>1
    <3>3. j \in JobRec
      BY <1>1, <3>2 DEF Here, JobRec, JobPoints
    <3> QED BY <3>1, <3>3
  <2>3. j.pc = "settle" /\ j.verdict = v /\ j.judged = job[c].judged
    BY <1>1 DEF Here, JobRec
  <2>4. Moves(c, j, row[c])
    <3>1. RowRight(j, row[c], ctxDone) /\ JobRight(j, row[c])
      BY <1>1, <1>2, <1>4, <2>1, <2>3 DEF Here, RowRight, JobRight, Fresh, Judged, Shown
    <3> HIDE DEF j
    <3> QED BY <1>1, <1>2, <2>2, <2>3, <3>1 DEF Moves, Here
  <2>5. Quiet(c, j)
    BY <1>1, <1>2, <2>3 DEF Here, Quiet, CountedJob, JobRight, Fresh
  <2>6. CacheOK'
    BY <1>1, <1>4 DEF Here, CacheOK
  <2> QED BY <2>4, <2>5, <2>6, QuietMoves
<1> QED BY <1>3, <1>4 DEF Lookup

\* Evidence found or not makes no difference to the row.
LEMMA EvidenceMoves ==
  ASSUME VerifyInv, NEW c \in Claims, NEW e \in BOOLEAN, NEW p \in {"route", "checking"},
         job[c].pc \in {"retrieve", "route"},
         job' = [job EXCEPT ![c].evidence = e, ![c].pc = p],
         UNCHANGED sessionVars, UNCHANGED <<cache, tally, row, panel>>
  PROVE  VerifyInv'
<1> DEFINE j == [job[c] EXCEPT !.evidence = e, !.pc = p]
<1>1. Here(c)
  BY ClaimAt
<1>2. job' = [job EXCEPT ![c] = j] /\ j \in JobRec
  <2>1. job' = [job EXCEPT ![c] = j]
    BY Types
  <2>2. PICK q \in JobPoints : q = p
    BY DEF JobPoints
  <2>3. j \in JobRec
    BY <1>1, <2>2 DEF Here, JobRec
  <2> QED BY <2>1, <2>3
<1>3. j.pc = p /\ j.verdict = job[c].verdict /\ j.judged = job[c].judged
  BY <1>1 DEF Here, JobRec
<1>4. Moves(c, j, row[c])
  <2>1. RowRight(j, row[c], ctxDone) /\ JobRight(j, row[c])
    BY <1>1, <1>3 DEF Here, RowRight, JobRight, Fresh, Judged, Shown
  <2> HIDE DEF j
  <2> QED BY <1>1, <1>2, <1>3, <2>1 DEF Moves, Here
<1>5. Quiet(c, j)
  BY <1>1, <1>3 DEF Here, Quiet, CountedJob, JobRight, Fresh
<1>6. CacheOK'
  BY <1>1 DEF Here, CacheOK
<1> QED BY <1>4, <1>5, <1>6, QuietMoves

LEMMA RetrieveMoves ==
  ASSUME VerifyInv, NEW c \in Claims, Retrieve(c)
  PROVE  VerifyInv'
<1>1. Here(c)
  BY ClaimAt
<1>2. job[c].pc = "retrieve" /\ UNCHANGED sessionVars /\ UNCHANGED <<tally, row, panel>>
  BY DEF Retrieve
<1>3. CASE Goto(c, "fail") /\ UNCHANGED cache
  <2>1. LET j == [job[c] EXCEPT !.pc = "fail"] IN RowRight(j, row[c], ctxDone) /\ JobRight(j, row[c])
    BY <1>1, <1>2 DEF Here, RowRight, JobRight, JobPoints, Fresh, Judged, Shown
  <2>2. GoesTo(c, "fail", row[c])
    BY <1>1, <1>2, <1>3, <2>1 DEF GoesTo, Here, CacheOK, JobPoints, JobRight, Fresh
  <2> QED BY <2>2, GotoMoves
<1>4. CASE \E v \in Verdicts : ~v.deep /\ Reach(c, v, FALSE)
  BY <1>1, <1>2, <1>4, ReachMoves DEF Here, RowRight, Fresh
<1>5. CASE \E e \in BOOLEAN :
             /\ job' = [job EXCEPT ![c].evidence = e, ![c].pc = IF mode = "political" THEN "route" ELSE "checking"]
             /\ UNCHANGED cache
  <2>1. PICK e \in BOOLEAN, p \in {"route", "checking"} : job' = [job EXCEPT ![c].evidence = e, ![c].pc = p]
    BY <1>5
  <2> QED BY <1>2, <1>5, <2>1, EvidenceMoves
<1> QED BY <1>3, <1>4, <1>5 DEF Retrieve

LEMMA RouteMoves ==
  ASSUME VerifyInv, NEW c \in Claims, Route(c)
  PROVE  VerifyInv'
<1>1. Here(c)
  BY ClaimAt
<1>2. job[c].pc = "route" /\ UNCHANGED sessionVars /\ UNCHANGED <<cache, tally, row, panel>>
  BY DEF Route
<1>3. CASE Goto(c, "fail")
  <2>1. LET j == [job[c] EXCEPT !.pc = "fail"] IN RowRight(j, row[c], ctxDone) /\ JobRight(j, row[c])
    BY <1>1, <1>2 DEF Here, RowRight, JobRight, JobPoints, Fresh, Judged, Shown
  <2>2. GoesTo(c, "fail", row[c])
    BY <1>1, <1>2, <1>3, <2>1 DEF GoesTo, Here, CacheOK, JobPoints, JobRight, Fresh
  <2> QED BY <2>2, GotoMoves
<1>4. CASE \E e \in BOOLEAN : job' = [job EXCEPT ![c].pc = "checking", ![c].evidence = e]
  <2>1. PICK e \in BOOLEAN : job' = [job EXCEPT ![c].pc = "checking", ![c].evidence = e]
    BY <1>4
  <2>2. job' = [job EXCEPT ![c].evidence = e, ![c].pc = "checking"]
    BY <1>1, <2>1, Types DEF JobRec
  <2> QED BY <1>2, <2>2, EvidenceMoves
<1> QED BY <1>3, <1>4 DEF Route

LEMMA CheckingMoves ==
  ASSUME VerifyInv, NEW c \in Claims, Checking(c)
  PROVE  VerifyInv'
<1> DEFINE r == [status |-> "checking", verdict |-> NoVerdict]
<1>1. Here(c)
  BY ClaimAt
<1>2. job[c].pc = "checking" /\ UNCHANGED sessionVars /\ UNCHANGED <<tally, panel>>
  BY DEF Checking
<1>3. CASE /\ Show(c, "checking", NoVerdict)
           /\ (Goto(c, "acquire") /\ UNCHANGED cache) \/ Reach(c, Unverifiable, FALSE)
  <2>1. row' = [row EXCEPT ![c] = r] /\ r \in RowRec
    <3>1. row[c].status \notin {"verified", "unchecked", "error"}
      BY <1>1, <1>2 DEF Here, RowRight
    <3> QED BY <1>3, <3>1, ShowRow DEF Statuses
  <2>2. CASE Goto(c, "acquire") /\ UNCHANGED cache
    <3>1. LET j == [job[c] EXCEPT !.pc = "acquire"] IN RowRight(j, r, ctxDone) /\ JobRight(j, r)
      BY <1>1, <1>2 DEF Here, RowRight, JobRight, JobPoints, Fresh, Judged, Shown
    <3>2. GoesTo(c, "acquire", r)
      BY <1>1, <1>2, <2>1, <2>2, <3>1 DEF GoesTo, Here, CacheOK, JobPoints, JobRight, Fresh
    <3> QED BY <3>2, GotoMoves
  <2>3. CASE Reach(c, Unverifiable, FALSE)
    <3>1. Unverifiable \in Verdicts /\ ~Unverifiable.deep
      BY VerdictsAssumption DEF Unverifiable
    <3> HIDE DEF r
    <3>2. r.status = "checking"
      BY DEF r
    <3> QED BY <1>2, <2>1, <2>3, <3>1, <3>2, ReachMoves DEF Fresh
  <2> QED BY <1>3, <2>2, <2>3
<1>4. CASE ctxDone /\ Goto(c, "done") /\ UNCHANGED <<row, cache>>
  <2>1. LET j == [job[c] EXCEPT !.pc = "done"] IN RowRight(j, row[c], ctxDone) /\ JobRight(j, row[c])
    BY <1>1, <1>2, <1>4 DEF Here, RowRight, JobRight, JobPoints, Fresh, Judged, Shown
  <2>2. GoesTo(c, "done", row[c])
    BY <1>1, <1>2, <1>4, <2>1 DEF GoesTo, Here, CacheOK, JobPoints, JobRight, Fresh
  <2> QED BY <2>2, GotoMoves
<1> QED BY <1>3, <1>4 DEF Checking

LEMMA AcquireMoves ==
  ASSUME VerifyInv, NEW c \in Claims, Acquire(c)
  PROVE  VerifyInv'
<1>1. Here(c)
  BY ClaimAt
<1>2. job[c].pc = "acquire" /\ UNCHANGED sessionVars /\ UNCHANGED <<cache, tally, row, panel>>
  BY DEF Acquire
<1>3. PICK p \in {"verify", "fail", "wait", "shed"} : Goto(c, p) /\ (p = "verify" => SlotFree)
  BY DEF Acquire
<1>4. PICK j : j = [job[c] EXCEPT !.pc = p]
  OBVIOUS
<1>5. j.pc = p /\ j.verdict = job[c].verdict /\ j.deeper = job[c].deeper /\ j.judged = job[c].judged
  <2>1. p \in JobPoints
    BY <1>3 DEF JobPoints
  <2> QED BY <1>1, <1>4, <2>1 DEF Here
<1>6. RowRight(j, row[c], ctxDone) /\ JobRight(j, row[c])
  BY <1>1, <1>2, <1>3, <1>5 DEF Here, RowRight, JobRight, Fresh, Judged, Shown
<1>7. GoesTo(c, p, row[c])
  BY <1>1, <1>2, <1>3, <1>4, <1>6 DEF GoesTo, Here, CacheOK, JobPoints, JobRight, Fresh
<1> QED BY <1>7, GotoMoves

LEMMA WaitMoves ==
  ASSUME VerifyInv, NEW c \in Claims, Wait(c)
  PROVE  VerifyInv'
<1>1. Here(c)
  BY ClaimAt
<1>2. job[c].pc = "wait" /\ UNCHANGED sessionVars /\ UNCHANGED <<cache, tally, row, panel>>
  BY DEF Wait
<1>3. PICK p \in {"verify", "fail", "shed"} : Goto(c, p) /\ (p = "verify" => SlotFree)
  BY DEF Wait
<1>4. PICK j : j = [job[c] EXCEPT !.pc = p]
  OBVIOUS
<1>5. j.pc = p /\ j.verdict = job[c].verdict /\ j.deeper = job[c].deeper /\ j.judged = job[c].judged
  <2>1. p \in JobPoints
    BY <1>3 DEF JobPoints
  <2> QED BY <1>1, <1>4, <2>1 DEF Here
<1>6. RowRight(j, row[c], ctxDone) /\ JobRight(j, row[c])
  BY <1>1, <1>2, <1>3, <1>5 DEF Here, RowRight, JobRight, Fresh, Judged, Shown
<1>7. GoesTo(c, p, row[c])
  BY <1>1, <1>2, <1>3, <1>4, <1>6 DEF GoesTo, Here, CacheOK, JobPoints, JobRight, Fresh
<1> QED BY <1>7, GotoMoves

LEMMA VerifyMoves ==
  ASSUME VerifyInv, NEW c \in Claims, Verify(c)
  PROVE  VerifyInv'
<1>1. Here(c)
  BY ClaimAt
<1>2. job[c].pc = "verify" /\ UNCHANGED sessionVars /\ UNCHANGED <<tally, row, panel>>
  BY DEF Verify
<1>3. CASE \E v \in Verdicts : ~v.deep /\ Reach(c, v, TRUE)
  BY <1>1, <1>2, <1>3, ReachMoves DEF Here, RowRight, Fresh
<1>4. CASE Goto(c, "fail") /\ UNCHANGED cache
  <2>1. LET j == [job[c] EXCEPT !.pc = "fail"] IN RowRight(j, row[c], ctxDone) /\ JobRight(j, row[c])
    BY <1>1, <1>2 DEF Here, RowRight, JobRight, JobPoints, Fresh, Judged, Shown
  <2>2. GoesTo(c, "fail", row[c])
    BY <1>1, <1>2, <1>4, <2>1 DEF GoesTo, Here, CacheOK, JobPoints, JobRight, Fresh
  <2> QED BY <2>2, GotoMoves
<1> QED BY <1>3, <1>4 DEF Verify

LEMMA SettleMoves ==
  ASSUME VerifyInv, NEW c \in Claims, Settle(c)
  PROVE  VerifyInv'
<1>1. Here(c)
  BY ClaimAt
<1>2. /\ job[c].pc = "settle" /\ Goto(c, "tally") /\ UNCHANGED sessionVars /\ UNCHANGED <<cache, tally, panel>>
      /\ Show(c, "verified", job[c].verdict) \/ (ctxDone /\ UNCHANGED row)
  BY DEF Settle
<1> DEFINE r == [status |-> "verified", verdict |-> job[c].verdict]
           j == [job[c] EXCEPT !.pc = "tally"]
<1>3. job[c].verdict \in AllVerdicts \cup {NoVerdict}
  BY <1>1 DEF Here, JobRec
<1>4. CASE Show(c, "verified", job[c].verdict)
  <2>1. row' = [row EXCEPT ![c] = r] /\ r \in RowRec
    BY <1>3, <1>4, ShowRow DEF Statuses
  <2>2. RowRight(j, r, ctxDone) /\ JobRight(j, r)
    BY <1>1, <1>2 DEF Here, RowRight, JobRight, JobPoints, Fresh, Judged, Shown
  <2>3. GoesTo(c, "tally", r)
    BY <1>1, <1>2, <2>1, <2>2 DEF GoesTo, Here, CacheOK, JobPoints, JobRight, Fresh
  <2> QED BY <2>3, GotoMoves
<1>5. CASE ctxDone /\ UNCHANGED row
  <2>1. RowRight(j, row[c], ctxDone) /\ JobRight(j, row[c])
    BY <1>1, <1>2, <1>5 DEF Here, RowRight, JobRight, JobPoints, Fresh, Judged, Shown
  <2>2. GoesTo(c, "tally", row[c])
    BY <1>1, <1>2, <1>5, <2>1 DEF GoesTo, Here, CacheOK, JobPoints, JobRight, Fresh
  <2> QED BY <2>2, GotoMoves
<1> QED BY <1>2, <1>4, <1>5

LEMMA ShedMoves ==
  ASSUME VerifyInv, NEW c \in Claims, Shed(c)
  PROVE  VerifyInv'
<1>1. Here(c)
  BY ClaimAt
<1>2. /\ job[c].pc = "shed" /\ Goto(c, "done") /\ UNCHANGED sessionVars /\ UNCHANGED <<cache, tally, panel>>
      /\ Show(c, "unchecked", NoVerdict) \/ (ctxDone /\ UNCHANGED row)
  BY DEF Shed
<1> DEFINE r == [status |-> "unchecked", verdict |-> NoVerdict]
           j == [job[c] EXCEPT !.pc = "done"]
<1>3. NoVerdict \in AllVerdicts \cup {NoVerdict}
  BY <1>1 DEF Here, JobRec
<1>4. CASE Show(c, "unchecked", NoVerdict)
  <2>1. row' = [row EXCEPT ![c] = r] /\ r \in RowRec
    BY <1>3, <1>4, ShowRow DEF Statuses
  <2>2. RowRight(j, r, ctxDone) /\ JobRight(j, r)
    BY <1>1, <1>2 DEF Here, RowRight, JobRight, JobPoints, Fresh, Judged, Shown
  <2>3. GoesTo(c, "done", r)
    BY <1>1, <1>2, <2>1, <2>2 DEF GoesTo, Here, CacheOK, JobPoints, JobRight, Fresh
  <2> QED BY <2>3, GotoMoves
<1>5. CASE ctxDone /\ UNCHANGED row
  <2>1. RowRight(j, row[c], ctxDone) /\ JobRight(j, row[c])
    BY <1>1, <1>2, <1>5 DEF Here, RowRight, JobRight, JobPoints, Fresh, Judged, Shown
  <2>2. GoesTo(c, "done", row[c])
    BY <1>1, <1>2, <1>5, <2>1 DEF GoesTo, Here, CacheOK, JobPoints, JobRight, Fresh
  <2> QED BY <2>2, GotoMoves
<1> QED BY <1>2, <1>4, <1>5

LEMMA FailMoves ==
  ASSUME VerifyInv, NEW c \in Claims, Fail(c)
  PROVE  VerifyInv'
<1>1. Here(c)
  BY ClaimAt
<1>2. /\ job[c].pc = "fail" /\ Goto(c, "done") /\ UNCHANGED sessionVars /\ UNCHANGED <<cache, tally, panel>>
      /\ Show(c, "error", NoVerdict) \/ (ctxDone /\ UNCHANGED row)
  BY DEF Fail
<1> DEFINE r == [status |-> "error", verdict |-> NoVerdict]
           j == [job[c] EXCEPT !.pc = "done"]
<1>3. NoVerdict \in AllVerdicts \cup {NoVerdict}
  BY <1>1 DEF Here, JobRec
<1>4. CASE Show(c, "error", NoVerdict)
  <2>1. row' = [row EXCEPT ![c] = r] /\ r \in RowRec
    BY <1>3, <1>4, ShowRow DEF Statuses
  <2>2. RowRight(j, r, ctxDone) /\ JobRight(j, r)
    BY <1>1, <1>2 DEF Here, RowRight, JobRight, JobPoints, Fresh, Judged, Shown
  <2>3. GoesTo(c, "done", r)
    BY <1>1, <1>2, <2>1, <2>2 DEF GoesTo, Here, CacheOK, JobPoints, JobRight, Fresh
  <2> QED BY <2>3, GotoMoves
<1>5. CASE ctxDone /\ UNCHANGED row
  <2>1. RowRight(j, row[c], ctxDone) /\ JobRight(j, row[c])
    BY <1>1, <1>2, <1>5 DEF Here, RowRight, JobRight, JobPoints, Fresh, Judged, Shown
  <2>2. GoesTo(c, "done", row[c])
    BY <1>1, <1>2, <1>5, <2>1 DEF GoesTo, Here, CacheOK, JobPoints, JobRight, Fresh
  <2> QED BY <2>2, GotoMoves
<1> QED BY <1>2, <1>4, <1>5

\* A claim whose verdict was sent is done as it is.
LEMMA ShownDone ==
  ASSUME NEW d \in JobRec, NEW r, d.pc \in Shown, RowRight(d, r, ctxDone), JobRight(d, r)
  PROVE  RowRight([d EXCEPT !.pc = "done"], r, ctxDone) /\ JobRight([d EXCEPT !.pc = "done"], r)
<1>1. PICK j : j = [d EXCEPT !.pc = "done"]
  OBVIOUS
<1>2. j.pc = "done" /\ j.verdict = d.verdict /\ j.judged = d.judged
  BY <1>1 DEF JobRec
<1>3. d.verdict # NoVerdict /\ JobRight(d, r)
  BY DEF JobRight, Judged, Shown
<1>4. r.status = "verified" \/ (ctxDone /\ r.status \in {"pending", "checking"})
  BY DEF RowRight
<1>5. RowRight(j, r, ctxDone)
  BY <1>2, <1>3, <1>4 DEF RowRight, Shown
<1>6. JobRight(j, r)
  BY <1>2, <1>3 DEF JobRight, Fresh, Judged
<1> QED BY <1>1, <1>5, <1>6

LEMMA UpgradeMoves ==
  ASSUME VerifyInv, NEW c \in Claims, Upgrade(c)
  PROVE  VerifyInv'
<1>1. Here(c)
  BY ClaimAt
<1>2. /\ job[c].pc = "upgrade" /\ Goto(c, "done") /\ UNCHANGED sessionVars /\ UNCHANGED <<cache, tally, panel>>
      /\ Show(c, "verified", job[c].deeper) \/ (ctxDone /\ UNCHANGED row)
  BY DEF Upgrade
<1> DEFINE r == [status |-> "verified", verdict |-> job[c].deeper]
           j == [job[c] EXCEPT !.pc = "done"]
<1>3. job[c].deeper \in AllVerdicts \cup {NoVerdict}
  BY <1>1 DEF Here, JobRec
<1>4. CASE Show(c, "verified", job[c].deeper)
  <2>1. row' = [row EXCEPT ![c] = r] /\ r \in RowRec
    BY <1>3, <1>4, ShowRow DEF Statuses
  <2>2. RowRight(j, r, ctxDone) /\ JobRight(j, r)
    BY <1>1, <1>2 DEF Here, RowRight, JobRight, JobPoints, Fresh, Judged, Shown
  <2>3. GoesTo(c, "done", r)
    BY <1>1, <1>2, <2>1, <2>2 DEF GoesTo, Here, CacheOK, JobPoints, JobRight, Fresh
  <2> QED BY <2>3, GotoMoves
<1>5. CASE ctxDone /\ UNCHANGED row
  <2>1. RowRight(j, row[c], ctxDone) /\ JobRight(j, row[c])
    <3>1. job[c] \in JobRec /\ job[c].pc \in Shown /\ RowRight(job[c], row[c], ctxDone) /\ JobRight(job[c], row[c])
      BY <1>1, <1>2 DEF Here, Shown
    <3> QED BY <3>1, ShownDone, Zenon
  <2>2. GoesTo(c, "done", row[c])
    BY <1>1, <1>2, <1>5, <2>1 DEF GoesTo, Here, CacheOK, JobPoints, JobRight, Fresh
  <2> QED BY <2>2, GotoMoves
<1> QED BY <1>2, <1>4, <1>5

LEMMA ConsistencyMoves ==
  ASSUME VerifyInv, NEW c \in Claims, Consistency(c)
  PROVE  VerifyInv'
<1>1. Here(c)
  BY ClaimAt
<1>2. job[c].pc = "consistency" /\ UNCHANGED sessionVars /\ UNCHANGED <<cache, tally, row, panel>>
  BY DEF Consistency
<1>3. PICK p \in {"done", "reverify"} : Goto(c, p) /\ (p = "reverify" => Qualifies(c))
  BY DEF Consistency
<1>4. PICK j : j = [job[c] EXCEPT !.pc = p]
  OBVIOUS
<1>5. j.pc = p /\ j.verdict = job[c].verdict /\ j.deeper = job[c].deeper /\ j.judged = job[c].judged
  <2>1. p \in JobPoints
    BY <1>3 DEF JobPoints
  <2> QED BY <1>1, <1>4, <2>1 DEF Here
<1>6. RowRight(j, row[c], ctxDone) /\ JobRight(j, row[c])
  <2>1. /\ job[c].verdict # NoVerdict /\ JobRight(job[c], row[c])
        /\ \/ row[c].status = "verified" /\ row[c].verdict = job[c].verdict
           \/ ctxDone /\ row[c].status \in {"pending", "checking"}
    BY <1>1, <1>2 DEF Here, RowRight, JobRight, Judged, Shown
  <2>2. CASE p = "done"
    BY <1>5, <2>1, <2>2 DEF RowRight, JobRight, Fresh, Judged, Shown
  <2>3. CASE p = "reverify"
    <3>1. RowRight(j, row[c], ctxDone)
      BY <1>1, <1>2, <1>5, <2>3 DEF Here, RowRight, Shown
    <3>2. JobRight(j, row[c])
      BY <1>3, <1>5, <2>1, <2>3 DEF JobRight, Fresh, Judged, Qualifies
    <3> QED BY <3>1, <3>2
  <2> QED BY <1>3, <2>2, <2>3
<1>7. GoesTo(c, p, row[c])
  BY <1>1, <1>2, <1>3, <1>4, <1>6 DEF GoesTo, Here, CacheOK, JobPoints, JobRight, Fresh
<1> QED BY <1>7, GotoMoves

LEMMA ReverifyMoves ==
  ASSUME VerifyInv, NEW c \in Claims, Reverify(c)
  PROVE  VerifyInv'
<1>1. Here(c)
  BY ClaimAt
<1>2. job[c].pc = "reverify" /\ UNCHANGED sessionVars /\ UNCHANGED <<tally, row, panel>>
  BY DEF Reverify
<1>3. CASE Goto(c, "done") /\ UNCHANGED cache
  <2>1. LET j == [job[c] EXCEPT !.pc = "done"] IN RowRight(j, row[c], ctxDone) /\ JobRight(j, row[c])
    <3>1. job[c] \in JobRec /\ job[c].pc \in Shown /\ RowRight(job[c], row[c], ctxDone) /\ JobRight(job[c], row[c])
      BY <1>1, <1>2 DEF Here, Shown
    <3> QED BY <3>1, ShownDone, Zenon
  <2>2. GoesTo(c, "done", row[c])
    BY <1>1, <1>2, <1>3, <2>1 DEF GoesTo, Here, CacheOK, JobPoints, JobRight, Fresh
  <2> QED BY <2>2, GotoMoves
<1>4. CASE \E v \in Verdicts :
             /\ v.deep /\ v.grounded /\ cache' = Cached(c, v)
             /\ job' = [job EXCEPT ![c].pc = "upgrade", ![c].deeper = v]
  <2>1. PICK v \in Verdicts :
          /\ v.deep /\ v.grounded /\ cache' = Cached(c, v)
          /\ job' = [job EXCEPT ![c].pc = "upgrade", ![c].deeper = v]
    BY <1>4
  <2> DEFINE j == [job[c] EXCEPT !.pc = "upgrade", !.deeper = v]
  <2>2. job' = [job EXCEPT ![c] = j] /\ j \in JobRec
    <3>1. job' = [job EXCEPT ![c] = j]
      BY <2>1, Types
    <3>2. j \in JobRec
      BY <1>1, VerdictsAssumption DEF Here, JobRec, JobPoints
    <3> QED BY <3>1, <3>2
  <2>3. j.pc = "upgrade" /\ j.deeper = v /\ j.verdict = job[c].verdict /\ j.judged = job[c].judged
    BY <1>1 DEF Here, JobRec
  <2>4. Moves(c, j, row[c])
    <3>1. RowRight(j, row[c], ctxDone) /\ JobRight(j, row[c])
      BY <1>1, <1>2, <2>1, <2>3 DEF Here, RowRight, JobRight, Fresh, Judged, Shown
    <3> HIDE DEF j
    <3> QED BY <1>1, <1>2, <2>2, <2>3, <3>1 DEF Moves, Here
  <2>5. Quiet(c, j)
    BY <1>1, <1>2, <2>3 DEF Here, Quiet, CountedJob, JobRight, Judged
  <2>6. CacheOK'
    BY <1>1, <2>1 DEF Here, CacheOK, Cached
  <2> QED BY <2>4, <2>5, <2>6, QuietMoves
<1> QED BY <1>3, <1>4 DEF Reverify

-----------------------------------------------------------------------------
(* The tally.                                                              *)

LEMMA SnapshotTypes ==
  ASSUME VerifyInv, NEW s \in Speakers
  PROVE  /\ \A x \in Snapshots(s) : x \in Tallies /\ Sample(x) \in Nat
         /\ tally[s] \in Snapshots(s) /\ panel[s] \in Snapshots(s)
         /\ \A c \in Sending(s) : job[c].snap \in Snapshots(s)
<1>1. \A x \in Snapshots(s) : x \in Tallies
  BY Types DEF Snapshots, Sending, JobRec, TalliesOK
<1> QED BY <1>1, SampleType DEF Snapshots

LEMMA TallyMoves ==
  ASSUME VerifyInv, NEW c \in Claims, Tally(c)
  PROVE  VerifyInv'
<1> DEFINE S == Speaker(c)
           k == job[c].verdict.state
<1>1. Here(c) /\ job \in [Claims -> JobRec] /\ TalliesOK
  BY ClaimAt, Types
<1>2. job[c].pc = "tally" /\ UNCHANGED sessionVars /\ UNCHANGED <<cache, row, panel>>
  BY DEF Tally
<1>3. CacheOK'
  BY <1>1, <1>2 DEF Here, CacheOK
<1>4. CASE S = Unknown
  <2> DEFINE j == [job[c] EXCEPT !.pc = "consistency"]
  <2>1. Goto(c, "consistency") /\ UNCHANGED tally
    BY <1>4 DEF Tally
  <2>2. Moves(c, j, row[c])
    <3>1. RowRight(j, row[c], ctxDone) /\ JobRight(j, row[c])
      BY <1>1, <1>2 DEF Here, RowRight, JobRight, JobPoints, Fresh, Judged, Shown
    <3>2. j \in JobRec /\ j.pc = "consistency"
      BY <1>1 DEF Here, JobPoints
    <3> QED BY <1>1, <1>2, <2>1, <3>1, <3>2 DEF Moves, Here, Goto
  <2>3. \A d \in Claims : d # c => job'[d] = job[d]
    BY <1>1, <2>1 DEF Goto
  <2>4. job'[c].pc = "consistency"
    BY <1>1, <2>1 DEF Goto, JobRec
  <2>5. \A s \in Speakers : c \notin Sending(s) /\ c \notin Sending(s)' /\ Speaker(c) # s
    BY <1>2, <1>4, <2>4, UnitsAssumption DEF Sending
  <2>6. \A s \in Speakers : Sending(s)' = Sending(s)
    BY <2>3, <2>5 DEF Sending
  <2>7. \A s \in Speakers : Snapshots(s)' = Snapshots(s)
    <3> TAKE s \in Speakers
    <3>1. {job'[d].snap : d \in Sending(s)'} = {job[d].snap : d \in Sending(s)}
      BY <2>3, <2>5, <2>6 DEF Sending
    <3> QED BY <1>2, <2>1, <3>1 DEF Snapshots
  <2>8. Tallied'
    <3>1. \A s \in Speakers : \A q \in States : Counted(s, q)' = Counted(s, q)
      BY <2>3, <2>5 DEF Counted, CountedJob
    <3> QED BY <2>1, <3>1 DEF VerifyInv, Tallied
  <2>9. InLine' /\ Latest' /\ Known'
    <3>1. InLine'
      BY <2>1, <2>7 DEF VerifyInv, InLine
    <3>2. Latest'
      <4> SUFFICES ASSUME ~ctxDone, NEW s \in Speakers
                   PROVE  panel[s] = tally[s] \/ \E d \in Sending(s) : job'[d].snap = tally[s]
        BY <1>2, <2>1, <2>6 DEF Latest, sessionVars
      <4>1. panel[s] = tally[s] \/ \E d \in Sending(s) : job[d].snap = tally[s]
        BY DEF VerifyInv, Latest
      <4>2. \A d \in Sending(s) : job'[d] = job[d]
        BY <2>3, <2>5 DEF Sending
      <4> QED BY <4>1, <4>2
    <3>3. Known'
      BY <2>3, <2>4 DEF VerifyInv, Known
    <3> QED BY <3>1, <3>2, <3>3
  <2>10. TalliesOK'
    BY <1>1, <1>2, <2>1 DEF TalliesOK
  <2> QED BY <1>3, <2>2, <2>8, <2>9, <2>10, ClaimMoves DEF VerifyInv
<1>5. CASE S # Unknown
  <2> DEFINE new == [tally[S] EXCEPT ![k] = @ + 1]
             j == [job[c] EXCEPT !.pc = "send tally", !.snap = new]
  <2>1. S \in Speakers
    BY <1>5, UnitsAssumption DEF Speaker
  <2>2. job[c].verdict \in AllVerdicts /\ job[c].verdict # NoVerdict /\ k \in States
    BY <1>1, <1>2, VerdictsAssumption DEF Here, JobRight, Judged, AllVerdicts
  <2>3. tally[S] \in Tallies /\ new \in Tallies
    BY <1>1, <2>1, <2>2 DEF TalliesOK, Tallies
  <2>4. /\ tally' = [tally EXCEPT ![S] = new]
        /\ tally'[S] = new
        /\ job' = [job EXCEPT ![c] = j]
    <3>1. tally' = [tally EXCEPT ![S] = new]
      BY <1>5, Zenon DEF Tally
    <3>2. tally'[S] = new
      BY <1>1, <2>1, <3>1 DEF TalliesOK
    <3>3. job' = [job EXCEPT ![c].pc = "send tally", ![c].snap = tally'[S]]
      BY <1>5, Zenon DEF Tally
    <3> HIDE DEF new
    <3> QED BY <1>1, <3>1, <3>2, <3>3
  <2>5. j \in JobRec /\ j.pc = "send tally" /\ j.snap = new /\ j.verdict = job[c].verdict /\ j.judged = job[c].judged
    <3>1. PICK q \in JobPoints : q = "send tally"
      BY DEF JobPoints
    <3> HIDE DEF new
    <3> QED BY <1>1, <2>3, <3>1 DEF Here, JobRec
  <2> HIDE DEF j
  <2>6. Moves(c, j, row[c])
    <3>1. RowRight(j, row[c], ctxDone) /\ JobRight(j, row[c])
      BY <1>1, <1>2, <2>2, <2>5 DEF Here, RowRight, JobRight, Fresh, Judged, Shown
    <3> QED BY <1>1, <1>2, <2>4, <2>5, <3>1 DEF Moves, Here
  <2>7. \A d \in Claims : job'[d] = IF d = c THEN j ELSE job[d]
    BY <1>1, <2>4
  <2>8. TalliesOK'
    BY <1>1, <1>2, <2>3, <2>4 DEF TalliesOK
  <2>9. \A s \in Speakers : tally'[s] = IF s = S THEN new ELSE tally[s]
    BY <1>1, <2>4 DEF TalliesOK
  <2>10. Tallied'
    <3> SUFFICES ASSUME NEW s \in Speakers, NEW q \in States
                 PROVE  tally'[s][q] = Cardinality(Counted(s, q)')
      BY DEF Tallied
    <3>1. IsFiniteSet(Counted(s, q)) /\ tally[s][q] = Cardinality(Counted(s, q))
      BY UnitsAssumption, FS_Subset DEF VerifyInv, Tallied, Counted
    <3>2. CASE s = S /\ q = k
      <4>1. Counted(s, q)' = Counted(s, q) \cup {c} /\ c \notin Counted(s, q)
        <5>1. CountedJob(j) /\ j.verdict.state = q /\ ~CountedJob(job[c]) /\ Speaker(c) = s
          BY <1>2, <2>2, <2>5, <3>2 DEF CountedJob
        <5> QED BY <2>7, <5>1 DEF Counted
      <4>2. tally'[s][q] = tally[s][q] + 1
        BY <2>3, <2>9, <3>2 DEF Tallies
      <4> QED BY <3>1, <4>1, <4>2, FS_AddElement
    <3>3. CASE ~(s = S /\ q = k)
      <4>1. Counted(s, q)' = Counted(s, q)
        BY <1>2, <2>5, <2>7, <3>3 DEF Counted, CountedJob
      <4>2. tally'[s][q] = tally[s][q]
        BY <2>3, <2>9, <3>3 DEF Tallies
      <4> QED BY <3>1, <4>1, <4>2
    <3> QED BY <3>2, <3>3
  <2>11. Sample(new) = Sample(tally[S]) + 1
    BY <2>2, <2>3, SampleCounts
  <2> HIDE DEF new
  <2>12. \A s \in Speakers : Sending(s)' = IF s = S THEN Sending(s) \cup {c} ELSE Sending(s)
    BY <1>2, <2>5, <2>7 DEF Sending
  <2>13. \A s \in Speakers : \A x \in Snapshots(s)' : x \in Snapshots(s) \/ (s = S /\ x = new)
    <3> TAKE s \in Speakers
    <3>1. \A d \in Sending(s)' : job'[d].snap \in {job[e].snap : e \in Sending(s)} \/ (s = S /\ job'[d].snap = new)
      BY <1>2, <2>5, <2>7, <2>12 DEF Sending
    <3> QED BY <1>2, <2>9, <3>1 DEF Snapshots
  <2>14. InLine'
    <3> SUFFICES ASSUME NEW s \in Speakers, NEW x \in Snapshots(s)', NEW y \in Snapshots(s)'
                 PROVE  Sample(x) <= Sample(tally'[s]) /\ (Sample(x) = Sample(y) => x = y)
      BY DEF InLine
    <3>1. \A z \in Snapshots(s) : Sample(z) \in Nat /\ Sample(z) <= Sample(tally[s])
      BY SnapshotTypes DEF VerifyInv, InLine
    <3>2. \A u, z \in Snapshots(s) : Sample(u) = Sample(z) => u = z
      BY DEF VerifyInv, InLine
    <3>3. Sample(tally[s]) \in Nat
      BY SnapshotTypes
    <3>4. CASE s = S
      BY <2>9, <2>11, <2>13, <3>1, <3>2, <3>3, <3>4
    <3>5. CASE s # S
      BY <2>9, <2>13, <3>1, <3>2, <3>5
    <3> QED BY <3>4, <3>5
  <2>15. Latest'
    <3> SUFFICES ASSUME ~ctxDone', NEW s \in Speakers
                 PROVE  panel'[s] = tally'[s] \/ \E d \in Sending(s)' : job'[d].snap = tally'[s]
      BY DEF Latest
    <3>1. CASE s = S
      BY <2>5, <2>7, <2>9, <2>12, <3>1
    <3>2. CASE s # S
      <4>1. panel[s] = tally[s] \/ \E d \in Sending(s) : job[d].snap = tally[s]
        BY <1>2 DEF VerifyInv, Latest, sessionVars
      <4>2. \A d \in Sending(s) : job'[d] = job[d]
        BY <1>2, <2>7 DEF Sending
      <4> QED BY <1>2, <2>9, <2>12, <3>2, <4>1, <4>2
    <3> QED BY <3>1, <3>2
  <2>16. Known'
    BY <1>5, <2>7 DEF VerifyInv, Known
  <2> QED BY <1>3, <2>6, <2>8, <2>10, <2>14, <2>15, <2>16, ClaimMoves DEF VerifyInv
<1> QED BY <1>4, <1>5

LEMMA SendTallyMoves ==
  ASSUME VerifyInv, NEW c \in Claims, SendTally(c)
  PROVE  VerifyInv'
<1> DEFINE S == Speaker(c)
           snap == job[c].snap
           j == [job[c] EXCEPT !.pc = "consistency"]
<1>1. Here(c) /\ job \in [Claims -> JobRec] /\ TalliesOK
  BY ClaimAt, Types
<1>2. job[c].pc = "send tally" /\ Goto(c, "consistency") /\ UNCHANGED sessionVars /\ UNCHANGED <<cache, tally, row>>
  BY DEF SendTally
<1>3. CacheOK'
  BY <1>1, <1>2 DEF Here, CacheOK
<1>4. S \in Speakers /\ c \in Sending(S)
  BY <1>2, UnitsAssumption DEF VerifyInv, Known, Speaker, Sending
<1>5. j \in JobRec /\ j.pc = "consistency" /\ j.verdict = job[c].verdict /\ job' = [job EXCEPT ![c] = j]
  BY <1>1, <1>2 DEF Here, JobPoints, Goto
<1>6. Moves(c, j, row[c])
  <2>1. RowRight(j, row[c], ctxDone) /\ JobRight(j, row[c])
    BY <1>1, <1>2 DEF Here, RowRight, JobRight, JobPoints, Fresh, Judged, Shown
  <2> HIDE DEF j
  <2> QED BY <1>1, <1>2, <1>5, <2>1 DEF Moves, Here
<1> HIDE DEF j
<1>7. \A d \in Claims : job'[d] = IF d = c THEN j ELSE job[d]
  BY <1>1, <1>5
<1>8. snap \in Tallies
  BY <1>1 DEF Here, JobRec
<1>9. /\ \A s \in Speakers : s # S => panel'[s] = panel[s]
      /\ panel'[S] \in {panel[S], snap} /\ TalliesOK'
      /\ ~ctxDone => panel'[S] = Newer(S, snap)
  <2>1. panel' = [panel EXCEPT ![S] = Newer(S, snap)] \/ (ctxDone /\ UNCHANGED panel)
    BY DEF SendTally
  <2>2. Newer(S, snap) \in {panel[S], snap}
    BY DEF Newer
  <2>3. panel[S] \in Tallies
    BY <1>1, <1>4 DEF TalliesOK
  <2> QED BY <1>1, <1>2, <1>4, <1>8, <2>1, <2>2, <2>3 DEF TalliesOK
<1>10. Tallied'
  <2>1. \A d \in Claims : (CountedJob(job'[d]) <=> CountedJob(job[d])) /\ job'[d].verdict = job[d].verdict
    <3>1. CountedJob(j) <=> CountedJob(job[c])
      BY <1>2, <1>5 DEF CountedJob
    <3> QED BY <1>5, <1>7, <3>1
  <2>2. \A s, q : Counted(s, q)' = Counted(s, q)
    BY <2>1 DEF Counted
  <2> QED BY <1>2, <2>2 DEF VerifyInv, Tallied
<1>11. \A s \in Speakers : Sending(s)' = Sending(s) \ {c}
  BY <1>5, <1>7 DEF Sending
<1>12. \A s \in Speakers : \A d \in Sending(s)' : d # c /\ d \in Sending(s) /\ job'[d] = job[d]
  BY <1>5, <1>7, <1>11 DEF Sending
<1>13. \A s \in Speakers : Snapshots(s)' \subseteq Snapshots(s)
  <2> TAKE s \in Speakers
  <2>1. \A d \in Sending(s)' : job'[d].snap \in Snapshots(s)
    BY <1>12, SnapshotTypes
  <2>2. panel'[s] \in Snapshots(s)
    BY <1>4, <1>9, SnapshotTypes
  <2>3. tally'[s] \in Snapshots(s)
    BY <1>2, SnapshotTypes
  <2> QED BY <2>1, <2>2, <2>3 DEF Snapshots
<1>14. InLine'
  BY <1>2, <1>13 DEF VerifyInv, InLine
<1>15. Latest'
  <2> SUFFICES ASSUME ~ctxDone, NEW s \in Speakers
               PROVE  panel'[s] = tally'[s] \/ \E d \in Sending(s)' : job'[d].snap = tally'[s]
    BY <1>2 DEF Latest, sessionVars
  <2>1. panel[s] = tally[s] \/ \E d \in Sending(s) : job[d].snap = tally[s]
    BY DEF VerifyInv, Latest
  <2>2. CASE s # S
    <3>1. c \notin Sending(s)
      BY <2>2 DEF Sending
    <3> QED BY <1>2, <1>9, <1>11, <1>12, <2>1, <2>2, <3>1
  <2>3. CASE s = S
    <3>1. /\ Sample(panel[S]) \in Nat /\ Sample(snap) \in Nat /\ Sample(tally[S]) \in Nat
          /\ Sample(panel[S]) <= Sample(tally[S]) /\ Sample(snap) <= Sample(tally[S])
          /\ Sample(panel[S]) = Sample(snap) => panel[S] = snap
      BY <1>4, SnapshotTypes DEF VerifyInv, InLine
    <3>2. panel'[S] = IF Sample(panel[S]) > Sample(snap) THEN panel[S] ELSE snap
      BY <1>9 DEF Newer
    <3>3. CASE panel[S] = tally[S]
      <4>1. panel'[S] = panel[S]
        BY <3>1, <3>2, <3>3
      <4> QED BY <1>2, <2>3, <3>3, <4>1
    <3>4. CASE \E d \in Sending(s) : job[d].snap = tally[s]
      <4>1. PICK d \in Sending(s) : job[d].snap = tally[s]
        BY <3>4
      <4>2. CASE d = c
        <5>1. panel'[S] = snap /\ snap = tally[S]
          BY <2>3, <3>1, <3>2, <4>1, <4>2
        <5> QED BY <1>2, <2>3, <5>1
      <4>3. CASE d # c
        BY <1>2, <1>11, <1>12, <4>1, <4>3
      <4> QED BY <4>2, <4>3
    <3> QED BY <2>1, <2>3, <3>3, <3>4
  <2> QED BY <2>2, <2>3
<1>16. Known'
  BY <1>5, <1>7 DEF VerifyInv, Known
<1> QED BY <1>3, <1>6, <1>9, <1>10, <1>14, <1>15, <1>16, ClaimMoves DEF VerifyInv

-----------------------------------------------------------------------------
(* A step of a worker.                                                     *)

LEMMA VerifyInit == Init => VerifyInv
<1> SUFFICES ASSUME Init PROVE VerifyInv
  OBVIOUS
<1>0. 0 <= Slots
  <2>1. Slots \in Nat
    BY PoolAssumption
  <2> QED BY <2>1
<1> USE DEF Init
<1>1. NoTally \in Tallies /\ NoJob \in JobRec /\ NoRow \in RowRec
  BY DEF NoTally, Tallies, NoJob, JobRec, JobPoints, NoRow, RowRec, Statuses
<1>2. Holders = {}
  BY DEF Holders, NoJob
<1>3. TypeOK
  <2>1. Cardinality(Holders) <= Slots
    <3>1. Cardinality(Holders) = 0
      BY <1>2, FS_EmptySet
    <3> QED BY <1>0, <3>1, Zenon
  <2>2. /\ next \in 1 .. Units + 1
        /\ worker \in [Workers -> [pc : {"idle", "gate", "answer", "announce", "claims"},
                                   unit : 0 .. Units, claims : SUBSET Claims]]
    BY UnitsAssumption DEF IdleWorker
  <2> HIDE DEF NoTally
  <2> QED BY <1>1, <2>1, <2>2 DEF TypeOK, JobRec, RowRec
<1>4. WorkersKeep /\ Alone
  BY DEF WorkersKeep, Alone, IdleWorker
<1>5. \A c \in Claims : job[c] = NoJob /\ row[c] = NoRow /\ NoJob.pc = "none" /\ NoJob.verdict = NoVerdict /\ ~NoJob.judged
  BY DEF NoJob
<1>6. Begun
  BY <1>5 DEF Begun, IdleWorker, Waiting
<1>7. Left
  BY UnitsAssumption DEF Left, Handled
<1>8. ClaimsRight
  BY <1>5 DEF ClaimsRight, RowRight, JobRight, Fresh, Judged, Shown
<1>9. Tallied
  <2>1. \A s \in Speakers : \A k \in States : Counted(s, k) = {} /\ tally[s][k] = 0
    BY <1>5 DEF Counted, CountedJob, NoTally
  <2> QED BY <2>1, FS_EmptySet DEF Tallied
<1>10. \A s : Sending(s) = {}
  BY <1>5 DEF Sending
<1>11. InLine
  <2>1. \A s \in Speakers : \A x \in Snapshots(s) : x = NoTally /\ tally[s] = NoTally
    BY <1>10 DEF Snapshots
  <2>2. Sample(NoTally) \in Nat
    BY <1>1, SampleType
  <2> HIDE DEF NoTally
  <2> QED BY <2>1, <2>2 DEF InLine
<1>12. Latest /\ Known
  BY <1>5 DEF Latest, Known
<1> QED BY <1>3, <1>4, <1>6, <1>7, <1>8, <1>9, <1>11, <1>12 DEF VerifyInv

\* A step that moves neither claims nor tallies.
LEMMA ClaimsRest ==
  ASSUME VerifyInv, UNCHANGED <<job, cache, tally, row, panel, ctxDone>>
  PROVE  ClaimsRight' /\ Tallied' /\ InLine' /\ Latest' /\ Known'
<1>1. ClaimsRight'
  BY DEF VerifyInv, ClaimsRight
<1>2. Tallied'
  BY DEF VerifyInv, Tallied, Counted
<1>3. InLine' /\ Latest'
  <2>1. \A s : Sending(s)' = Sending(s) /\ Snapshots(s)' = Snapshots(s)
    BY DEF Snapshots, Sending
  <2> QED BY <2>1 DEF VerifyInv, InLine, Latest
<1>4. Known'
  BY DEF VerifyInv, Known
<1> QED BY <1>1, <1>2, <1>3, <1>4

WorkerRec == [pc : {"idle", "gate", "answer", "announce", "claims"}, unit : 0 .. Units, claims : SUBSET Claims]

LEMMA WorkerAt ==
  ASSUME VerifyInv
  PROVE  /\ worker \in [Workers -> WorkerRec] /\ next \in 1 .. Units + 1 /\ Units \in Nat
         /\ \A c \in Claims : UnitOf[c] \in 1 .. Units
BY UnitsAssumption DEF VerifyInv, TypeOK, WorkerRec

\* The types when only the pool moves.
LEMMA TypesKept ==
  ASSUME VerifyInv, UNCHANGED <<mode, job, cache, tally, row, panel>>,
         next' \in 1 .. Units + 1, worker' \in [Workers -> WorkerRec], answered' \subseteq 1 .. Units, ctxDone' \in BOOLEAN
  PROVE  TypeOK'
<1>1. Holders' = Holders
  BY DEF Holders
<1> QED BY <1>1 DEF VerifyInv, TypeOK, WorkerRec

LEMMA TakeUnitMoves ==
  ASSUME VerifyInv, NEW w \in Workers, TakeUnit(w)
  PROVE  VerifyInv'
<1>1. /\ worker[w].pc = "idle" /\ worker[w].unit = 0 /\ next <= Units /\ next' = next + 1
      /\ worker' = [worker EXCEPT ![w] = [pc |-> "gate", unit |-> next, claims |-> {}]]
      /\ UNCHANGED <<mode, job, cache, tally, row, panel, answered, ctxDone>>
  BY DEF TakeUnit, VerifyInv, WorkersKeep
<1>2. /\ worker \in [Workers -> WorkerRec] /\ next \in 1 .. Units + 1 /\ Units \in Nat
      /\ \A c \in Claims : UnitOf[c] \in 1 .. Units
  BY WorkerAt
<1>3. /\ \A x \in Workers : x # w => worker'[x] = worker[x]
      /\ worker'[w].pc = "gate" /\ worker'[w].unit = next /\ worker'[w].claims = {}
  BY <1>1, <1>2
<1>4. TypeOK'
  <2>1. worker' \in [Workers -> WorkerRec] /\ next' \in 1 .. Units + 1
    BY <1>1, <1>2 DEF WorkerRec
  <2> QED BY <1>1, <2>1, TypesKept DEF VerifyInv, TypeOK
<1>5. WorkersKeep'
  <2> SUFFICES ASSUME NEW x \in Workers
               PROVE  /\ worker'[x].pc = "idle" <=> worker'[x].unit = 0
                      /\ worker'[x].unit < next'
                      /\ worker'[x].claims \subseteq ClaimsOf(worker'[x].unit)
                      /\ worker'[x].pc \in {"idle", "gate", "answer"} => worker'[x].claims = {}
                      /\ worker'[x].pc \in {"announce", "claims"} => worker'[x].claims # {}
    BY DEF WorkersKeep, ClaimsOf
  <2>1. CASE x = w
    BY <1>1, <1>2, <1>3, <2>1
  <2>2. CASE x # w
    <3>1. worker[x].unit \in 0 .. Units /\ worker[x].unit < next
      BY <1>2 DEF VerifyInv, WorkersKeep, WorkerRec
    <3> QED BY <1>1, <1>2, <1>3, <2>2, <3>1 DEF VerifyInv, WorkersKeep
  <2> QED BY <2>1, <2>2
<1>6. Alone'
  BY <1>2, <1>3 DEF VerifyInv, WorkersKeep, Alone
<1>7. Begun'
  <2>1. \A c \in Claims : job[c].pc # "none" => UnitOf[c] < next' /\ UnitOf[c] # next
    BY <1>1, <1>2 DEF VerifyInv, Begun
  <2>2. \A c \in Claims, x \in Workers : Waiting(x, c)' <=> x # w /\ Waiting(x, c)
    BY <1>3 DEF Waiting
  <2>3. \A c \in Claims : job[c].pc \notin {"none", "done"} => \E x \in Workers : worker'[x].unit = UnitOf[c]
    BY <1>1, <1>2, <1>3 DEF VerifyInv, Begun
  <2>4. \A x \in Workers : \A c \in worker'[x].claims : c \in Claims /\ c \in worker[x].claims
    BY <1>2, <1>3 DEF WorkerRec
  <2> QED BY <1>1, <1>3, <2>1, <2>2, <2>3, <2>4 DEF VerifyInv, Begun
<1>8. \A u \in 1 .. Units : Handled(u)' <=> Handled(u)
  BY <1>1, <1>2, <1>3 DEF Handled, VerifyInv
<1>9. Left'
  <2>1. answered \subseteq 1 .. Units
    BY DEF VerifyInv, TypeOK
  <2> QED BY <1>1, <1>8, <2>1 DEF VerifyInv, Left, ClaimsOf
<1> QED BY <1>1, <1>4, <1>5, <1>6, <1>7, <1>9, ClaimsRest DEF VerifyInv, TypeOK

LEMMA GateMoves ==
  ASSUME VerifyInv, NEW w \in Workers, Gate(w)
  PROVE  VerifyInv'
<1>1. PICK p \in {"answer", "announce"}, S \in SUBSET ClaimsOf(worker[w].unit) :
        /\ worker' = [worker EXCEPT ![w].pc = p, ![w].claims = S]
        /\ p = "answer" <=> S = {}
  <2>1. worker[w].pc = "gate" /\ worker[w].claims = {} /\ worker \in [Workers -> WorkerRec]
    BY WorkerAt DEF Gate, VerifyInv, WorkersKeep
  <2>2. CASE worker' = [worker EXCEPT ![w].pc = "answer"]
    <3>1. worker' = [worker EXCEPT ![w].pc = "answer", ![w].claims = {}]
      BY <2>1, <2>2 DEF WorkerRec
    <3> QED BY <3>1
  <2>3. CASE \E S \in (SUBSET {c \in Claims : UnitOf[c] = worker[w].unit}) \ {{}} :
               worker' = [worker EXCEPT ![w].pc = "announce", ![w].claims = S]
    <3>1. PICK S \in SUBSET ClaimsOf(worker[w].unit) :
            S # {} /\ worker' = [worker EXCEPT ![w].pc = "announce", ![w].claims = S]
      <4>1. PICK S \in (SUBSET {c \in Claims : UnitOf[c] = worker[w].unit}) \ {{}} :
              worker' = [worker EXCEPT ![w].pc = "announce", ![w].claims = S]
        BY <2>3, Zenon
      <4>2. S \in SUBSET ClaimsOf(worker[w].unit) /\ S # {}
        BY <4>1, Zenon DEF ClaimsOf
      <4> QED BY <4>1, <4>2, Zenon
    <3> QED BY <3>1, Zenon
  <2> QED BY <2>2, <2>3 DEF Gate
<1>2. worker[w].pc = "gate" /\ UNCHANGED <<mode, next, job, cache, tally, row, panel, answered, ctxDone>>
  BY DEF Gate
<1>3. /\ worker \in [Workers -> WorkerRec] /\ next \in 1 .. Units + 1 /\ Units \in Nat
      /\ \A c \in Claims : UnitOf[c] \in 1 .. Units
  BY WorkerAt
<1>4. /\ \A x \in Workers : x # w => worker'[x] = worker[x]
      /\ worker'[w].pc = p /\ worker'[w].unit = worker[w].unit /\ worker'[w].claims = S
  BY <1>1, <1>3 DEF WorkerRec
<1>5. TypeOK'
  <2>1. worker' \in [Workers -> WorkerRec]
    BY <1>1, <1>3 DEF WorkerRec, ClaimsOf
  <2> QED BY <1>2, <2>1, TypesKept DEF VerifyInv, TypeOK
<1>6. WorkersKeep' /\ Alone'
  <2>1. \A x \in Workers : worker'[x].unit = worker[x].unit
    BY <1>4
  <2>2. worker[w].unit # 0
    BY <1>2 DEF VerifyInv, WorkersKeep
  <2>3. ClaimsOf(worker[w].unit)' = ClaimsOf(worker[w].unit)
    BY <2>1 DEF ClaimsOf
  <2>4. WorkersKeep'
    <3> SUFFICES ASSUME NEW x \in Workers
                 PROVE  /\ worker'[x].pc = "idle" <=> worker'[x].unit = 0
                        /\ worker'[x].unit < next'
                        /\ worker'[x].claims \subseteq ClaimsOf(worker'[x].unit)
                        /\ worker'[x].pc \in {"idle", "gate", "answer"} => worker'[x].claims = {}
                        /\ worker'[x].pc \in {"announce", "claims"} => worker'[x].claims # {}
      BY DEF WorkersKeep, ClaimsOf
    <3>1. CASE x = w
      <4>1. worker[w].unit < next
        BY DEF VerifyInv, WorkersKeep
      <4> QED BY <1>1, <1>2, <1>4, <2>2, <3>1, <4>1
    <3>2. CASE x # w
      BY <1>2, <1>4, <3>2 DEF VerifyInv, WorkersKeep
    <3> QED BY <3>1, <3>2
  <2>5. Alone'
    BY <2>1 DEF VerifyInv, Alone
  <2> QED BY <2>4, <2>5
<1>7. Begun'
  <2>1. \A c \in Claims, x \in Workers : x # w => (Waiting(x, c)' <=> Waiting(x, c))
    BY <1>4 DEF Waiting
  <2>2. \A c \in Claims : ~Waiting(w, c) /\ ~Waiting(w, c)'
    BY <1>2, <1>4 DEF Waiting
  <2>3. \A c \in ClaimsOf(worker[w].unit) : c \in Claims
    BY DEF ClaimsOf
  <2>4. \A x \in Workers : worker'[x].unit = worker[x].unit
    BY <1>4
  <2>5. \A c \in Claims : job'[c].pc # "none" =>
          /\ UnitOf[c] < next' /\ UnitOf[c] \notin answered'
          /\ \A x \in Workers : worker'[x].unit = UnitOf[c] => Waiting(x, c)'
    BY <1>2, <2>1, <2>2, <2>4 DEF VerifyInv, Begun
  <2>6. \A c \in Claims : job'[c].pc \notin {"none", "done"} => \E x \in Workers : worker'[x].unit = UnitOf[c]
    BY <1>2, <2>4 DEF VerifyInv, Begun
  <2>7. \A x \in Workers : \A c \in worker'[x].claims : Waiting(x, c)' => job'[c].pc # "none"
    <3>1. \A x \in Workers : worker[x].claims \subseteq Claims
      BY <1>3 DEF WorkerRec
    <3> QED BY <1>2, <1>4, <2>1, <2>2, <2>3, <3>1 DEF VerifyInv, Begun
  <2> QED BY <2>5, <2>6, <2>7 DEF Begun
<1>8. \A u : Handled(u)' <=> Handled(u)
  BY <1>2, <1>4 DEF Handled
<1>9. Left'
  BY <1>2, <1>8 DEF VerifyInv, Left, ClaimsOf
<1> QED BY <1>2, <1>5, <1>6, <1>7, <1>9, ClaimsRest DEF VerifyInv, TypeOK

\* A worker leaves its unit.
LEMMA LeaveMoves ==
  ASSUME VerifyInv, NEW w \in Workers, worker[w].unit # 0,
         worker' = [worker EXCEPT ![w] = IdleWorker],
         UNCHANGED <<mode, next, job, cache, tally, row, panel, ctxDone>>,
         answered' \in {answered, answered \cup {worker[w].unit}},
         \A c \in ClaimsOf(worker[w].unit) :
           job[c].pc \in {"none", "done"} /\ (worker[w].unit \in answered' => job[c].pc = "none"),
         \/ ctxDone
         \/ worker[w].unit \in answered'
         \/ \E c \in ClaimsOf(worker[w].unit) : job[c].pc = "done"
  PROVE  VerifyInv'
<1> DEFINE u0 == worker[w].unit
<1>1. /\ worker \in [Workers -> WorkerRec] /\ next \in 1 .. Units + 1 /\ Units \in Nat
      /\ \A c \in Claims : UnitOf[c] \in 1 .. Units
  BY WorkerAt
<1>2. /\ \A x \in Workers : x # w => worker'[x] = worker[x] /\ worker[x].unit # u0
      /\ worker'[w].pc = "idle" /\ worker'[w].unit = 0 /\ worker'[w].claims = {}
      /\ u0 \in 1 .. Units /\ u0 < next
  <2>1. \A x \in Workers : x # w => worker'[x] = worker[x] /\ worker[x].unit # u0
    BY <1>1 DEF VerifyInv, Alone
  <2>2. worker'[w].pc = "idle" /\ worker'[w].unit = 0 /\ worker'[w].claims = {}
    BY <1>1 DEF IdleWorker
  <2>3. u0 \in 1 .. Units /\ u0 < next
    BY <1>1 DEF VerifyInv, WorkersKeep, WorkerRec
  <2> QED BY <2>1, <2>2, <2>3
<1>3. TypeOK'
  <2>1. worker' \in [Workers -> WorkerRec]
    BY <1>1 DEF WorkerRec, IdleWorker
  <2>2. answered' \subseteq 1 .. Units
    BY <1>2 DEF VerifyInv, TypeOK
  <2> QED BY <2>1, <2>2, TypesKept DEF VerifyInv, TypeOK
<1>4. WorkersKeep' /\ Alone'
  <2>1. WorkersKeep'
    <3> SUFFICES ASSUME NEW x \in Workers
                 PROVE  /\ worker'[x].pc = "idle" <=> worker'[x].unit = 0
                        /\ worker'[x].unit < next
                        /\ worker'[x].claims \subseteq ClaimsOf(worker'[x].unit)
                        /\ worker'[x].pc \in {"idle", "gate", "answer"} => worker'[x].claims = {}
                        /\ worker'[x].pc \in {"announce", "claims"} => worker'[x].claims # {}
      BY DEF WorkersKeep, ClaimsOf
    <3>1. CASE x = w
      BY <1>1, <1>2, <3>1
    <3>2. CASE x # w
      BY <1>2, <3>2 DEF VerifyInv, WorkersKeep
    <3> QED BY <3>1, <3>2
  <2>2. Alone'
    BY <1>2 DEF VerifyInv, Alone
  <2> QED BY <2>1, <2>2
<1>5. \A c \in Claims : c \in ClaimsOf(u0) <=> UnitOf[c] = u0
  BY DEF ClaimsOf
<1>6. Begun'
  <2>1. \A c \in Claims, x \in Workers : Waiting(x, c)' <=> x # w /\ Waiting(x, c)
    BY <1>2 DEF Waiting
  <2>2. \A c \in Claims : job[c].pc # "none" => UnitOf[c] \notin answered'
    BY <1>5 DEF VerifyInv, Begun
  <2>3. \A c \in Claims : job[c].pc \notin {"none", "done"} => \E x \in Workers : worker'[x].unit = UnitOf[c]
    BY <1>2, <1>5 DEF VerifyInv, Begun
  <2>4. \A c \in Claims : job[c].pc # "none" =>
          UnitOf[c] < next /\ \A x \in Workers : worker'[x].unit = UnitOf[c] => Waiting(x, c)'
    BY <1>1, <1>2, <2>1 DEF VerifyInv, Begun
  <2>5. \A x \in Workers : \A c \in worker'[x].claims : Waiting(x, c)' => job[c].pc # "none"
    <3>1. \A x \in Workers : worker[x].claims \subseteq Claims
      BY <1>1 DEF WorkerRec
    <3> QED BY <1>2, <2>1, <3>1 DEF VerifyInv, Begun
  <2> QED BY <2>2, <2>3, <2>4, <2>5 DEF Begun
<1>7. \A u \in 1 .. Units : Handled(u)' <=> Handled(u) \/ u = u0
  BY <1>2 DEF Handled
<1>8. Left'
  <2>1. answered' \subseteq 1 .. Units
    BY <1>3 DEF TypeOK
  <2>2. \A u \in answered' : Handled(u)'
    BY <1>7, <2>1 DEF VerifyInv, Left
  <2>3. ASSUME ~ctxDone, NEW u \in 1 .. Units, Handled(u)', u \notin answered'
        PROVE  \E c \in ClaimsOf(u) : job[c].pc = "done"
    <3>1. CASE u = u0
      BY <2>3, <3>1
    <3>2. CASE u # u0
      BY <1>7, <2>3, <3>2 DEF VerifyInv, Left
    <3> QED BY <3>1, <3>2
  <2> QED BY <2>2, <2>3 DEF Left, ClaimsOf
<1> QED BY <1>3, <1>4, <1>6, <1>8, ClaimsRest DEF VerifyInv

LEMMA AnswerUnitMoves ==
  ASSUME VerifyInv, NEW w \in Workers, AnswerUnit(w)
  PROVE  VerifyInv'
<1>1. /\ worker[w].pc = "answer" /\ worker' = [worker EXCEPT ![w] = IdleWorker]
      /\ UNCHANGED <<mode, next, job, cache, tally, row, panel, ctxDone>>
      /\ answered' = answered \cup {worker[w].unit} \/ (ctxDone /\ UNCHANGED answered)
  BY DEF AnswerUnit
<1>2. worker[w].unit # 0
  BY <1>1 DEF VerifyInv, WorkersKeep
<1>3. \A c \in ClaimsOf(worker[w].unit) : job[c].pc = "none"
  BY <1>1 DEF VerifyInv, Begun, Waiting, ClaimsOf
<1> QED BY <1>1, <1>2, <1>3, LeaveMoves

LEMMA UnitDoneMoves ==
  ASSUME VerifyInv, NEW w \in Workers, UnitDone(w)
  PROVE  VerifyInv'
<1>1. /\ worker[w].pc = "claims" /\ worker' = [worker EXCEPT ![w] = IdleWorker]
      /\ UNCHANGED <<mode, next, job, cache, tally, row, panel, answered, ctxDone>>
      /\ \A c \in worker[w].claims : job[c].pc = "done"
  BY DEF UnitDone
<1>2. worker[w].unit # 0 /\ worker[w].claims # {} /\ worker[w].claims \subseteq ClaimsOf(worker[w].unit)
  BY <1>1 DEF VerifyInv, WorkersKeep
<1>3. \A c \in ClaimsOf(worker[w].unit) : job[c].pc \in {"none", "done"}
  BY <1>1 DEF VerifyInv, Begun, Waiting, ClaimsOf
<1>4. worker[w].unit \notin answered
  BY <1>1 DEF VerifyInv, Left, Handled
<1> QED BY <1>1, <1>2, <1>3, <1>4, LeaveMoves

LEMMA AnnounceMoves ==
  ASSUME VerifyInv, NEW w \in Workers, Announce(w)
  PROVE  VerifyInv'
<1> DEFINE S == worker[w].claims
<1>1. worker[w].pc = "announce" /\ UNCHANGED <<mode, next, cache, tally, panel, answered, ctxDone>>
  BY DEF Announce
<1>2. /\ worker \in [Workers -> WorkerRec] /\ next \in 1 .. Units + 1 /\ Units \in Nat
      /\ \A c \in Claims : UnitOf[c] \in 1 .. Units
  BY WorkerAt
<1>3. /\ worker[w].unit # 0 /\ S \subseteq ClaimsOf(worker[w].unit) /\ S \subseteq Claims
      /\ worker[w].unit < next /\ worker[w].unit \in 1 .. Units
  BY <1>1, <1>2 DEF VerifyInv, WorkersKeep, ClaimsOf, WorkerRec
<1>4. \A c \in ClaimsOf(worker[w].unit) : job[c].pc = "none" /\ c \in Claims /\ UnitOf[c] = worker[w].unit
  BY <1>1 DEF VerifyInv, Begun, Waiting, ClaimsOf
<1>5. CASE ctxDone /\ worker' = [worker EXCEPT ![w] = IdleWorker] /\ UNCHANGED <<row, job>>
  <2>1. worker[w].unit \notin answered
    BY <1>3 DEF VerifyInv, Left, Handled
  <2> QED BY <1>1, <1>3, <1>4, <1>5, <2>1, LeaveMoves
<1>6. CASE /\ row' = [c \in Claims |-> IF c \in S THEN [NoRow EXCEPT !.status = "pending"] ELSE row[c]]
           /\ job' = [c \in Claims |-> IF c \in S THEN [NoJob EXCEPT !.pc = "lookup"] ELSE job[c]]
           /\ worker' = [worker EXCEPT ![w].pc = "claims"]
  <2> DEFINE r == [NoRow EXCEPT !.status = "pending"]
             j == [NoJob EXCEPT !.pc = "lookup"]
  <2>1. /\ r.status = "pending" /\ r \in RowRec
        /\ j.pc = "lookup" /\ j.verdict = NoVerdict /\ j.judged = FALSE /\ j \in JobRec
    BY DEF NoRow, RowRec, Statuses, NoJob, JobRec, JobPoints, NoTally, Tallies
  <2>2. \A c \in Claims : /\ job'[c] = IF c \in S THEN j ELSE job[c]
                          /\ row'[c] = IF c \in S THEN r ELSE row[c]
    BY <1>6
  <2>3. job \in [Claims -> JobRec] /\ row \in [Claims -> RowRec]
    BY Types
  <2> HIDE DEF r, j
  <2>4. job' \in [Claims -> JobRec] /\ row' \in [Claims -> RowRec]
    BY <1>6, <2>1, <2>3 DEF r, j
  <2>5. /\ \A x \in Workers : x # w => worker'[x] = worker[x]
        /\ worker'[w].pc = "claims" /\ worker'[w].unit = worker[w].unit /\ worker'[w].claims = S
        /\ worker' \in [Workers -> WorkerRec]
    BY <1>2, <1>6 DEF WorkerRec
  <2>6. TypeOK'
    <3>1. Holders' = Holders
      BY <1>3, <1>4, <2>1, <2>2 DEF Holders
    <3> QED BY <1>1, <2>4, <2>5, <3>1 DEF VerifyInv, TypeOK, WorkerRec, JobRec, RowRec
  <2>7. WorkersKeep' /\ Alone'
    <3>1. \A x \in Workers : worker'[x].unit = worker[x].unit /\ worker'[x].claims = worker[x].claims
      BY <2>5
    <3> QED BY <1>1, <2>5, <3>1 DEF VerifyInv, WorkersKeep, Alone, ClaimsOf
  <2>8. Begun'
    <3>1. \A c \in Claims : job'[c].pc # "none" <=> (job[c].pc # "none" \/ c \in S)
      BY <1>3, <1>4, <2>1, <2>2
    <3>2. \A c \in Claims, x \in Workers : Waiting(x, c)' <=> (Waiting(x, c) \/ (x = w /\ c \in S))
      BY <1>1, <2>5 DEF Waiting
    <3>3. \A c \in Claims : job'[c].pc \notin {"none", "done"} => c \in S \/ job[c].pc \notin {"none", "done"}
      BY <2>2
    <3>4. \A x \in Workers : worker'[x].unit = worker[x].unit /\ worker'[x].claims = worker[x].claims /\ worker[x].claims \subseteq Claims
      BY <1>2, <2>5 DEF WorkerRec
    <3>5. \A c \in S : /\ UnitOf[c] < next /\ UnitOf[c] \notin answered
                       /\ \A x \in Workers : worker[x].unit = UnitOf[c] => x = w
      BY <1>3, <1>4 DEF VerifyInv, Left, Handled, Alone
    <3>6. \A c \in Claims : job'[c].pc # "none" =>
            /\ UnitOf[c] < next' /\ UnitOf[c] \notin answered'
            /\ \A x \in Workers : worker'[x].unit = UnitOf[c] => Waiting(x, c)'
      BY <1>1, <3>1, <3>2, <3>4, <3>5 DEF VerifyInv, Begun
    <3>7. \A c \in Claims : job'[c].pc \notin {"none", "done"} => \E x \in Workers : worker'[x].unit = UnitOf[c]
      BY <1>3, <1>4, <3>3, <3>4 DEF VerifyInv, Begun
    <3>8. \A x \in Workers : \A c \in worker'[x].claims : Waiting(x, c)' => job'[c].pc # "none"
      BY <3>1, <3>2, <3>4 DEF VerifyInv, Begun
    <3> QED BY <3>6, <3>7, <3>8 DEF Begun
  <2>9. Left'
    <3>1. \A u : Handled(u)' <=> Handled(u)
      BY <1>1, <2>5 DEF Handled
    <3>2. \A c \in Claims : job[c].pc = "done" => job'[c].pc = "done"
      BY <1>3, <1>4, <2>2
    <3> QED BY <1>1, <3>1, <3>2 DEF VerifyInv, Left, ClaimsOf
  <2>10. ClaimsRight'
    <3>1. RowRight(j, r, ctxDone) /\ JobRight(j, r)
      BY <2>1 DEF RowRight, JobRight, Fresh, Judged, Shown
    <3> QED BY <1>1, <2>2, <3>1 DEF VerifyInv, ClaimsRight
  <2>11. \A c \in S : job[c].verdict = NoVerdict
    BY <1>3, <1>4 DEF VerifyInv, ClaimsRight, JobRight, Fresh
  <2>12. Tallied'
    <3>1. \A s, k : Counted(s, k)' = Counted(s, k)
      BY <2>1, <2>2, <2>11 DEF Counted, CountedJob
    <3> QED BY <1>1, <3>1 DEF VerifyInv, Tallied
  <2>13. \A s : Sending(s)' = Sending(s) /\ \A c \in Sending(s) : job'[c] = job[c]
    BY <1>3, <1>4, <2>1, <2>2 DEF Sending
  <2>14. InLine'
    <3>1. \A s : {job'[c].snap : c \in Sending(s)'} = {job[c].snap : c \in Sending(s)}
      BY <2>13
    <3>2. \A s : Snapshots(s)' = Snapshots(s)
      BY <1>1, <3>1 DEF Snapshots
    <3> QED BY <1>1, <3>2 DEF VerifyInv, InLine
  <2>15. Latest'
    BY <1>1, <2>13 DEF VerifyInv, Latest
  <2>16. Known'
    BY <2>1, <2>2 DEF VerifyInv, Known
  <2> QED BY <2>6, <2>7, <2>8, <2>9, <2>10, <2>12, <2>14, <2>15, <2>16 DEF VerifyInv
<1> QED BY <1>5, <1>6 DEF Announce

LEMMA CancelMoves == VerifyInv /\ Cancel => VerifyInv'
<1> SUFFICES ASSUME VerifyInv, Cancel PROVE VerifyInv'
  OBVIOUS
<1>1. ctxDone' = TRUE /\ UNCHANGED <<mode, next, worker, job, cache, tally, row, panel, answered>>
  BY DEF Cancel
<1>2. TypeOK'
  BY <1>1, WorkerAt, TypesKept DEF VerifyInv, TypeOK
<1>3. WorkersKeep' /\ Alone' /\ Begun'
  BY <1>1 DEF VerifyInv, WorkersKeep, Alone, Begun, Waiting, ClaimsOf
<1>4. Left' /\ Latest' /\ Known'
  BY <1>1 DEF VerifyInv, Left, Handled, Latest, Known
<1>5. ClaimsRight'
  BY <1>1 DEF VerifyInv, ClaimsRight, RowRight, JobRight
<1>6. Tallied' /\ InLine'
  <2>1. \A s : Snapshots(s)' = Snapshots(s) /\ \A k : Counted(s, k)' = Counted(s, k)
    BY <1>1 DEF Snapshots, Sending, Counted
  <2> QED BY <1>1, <2>1 DEF VerifyInv, Tallied, InLine
<1> QED BY <1>2, <1>3, <1>4, <1>5, <1>6 DEF VerifyInv

LEMMA VerifyStep == VerifyInv /\ [Next]_vars => VerifyInv'
<1> SUFFICES ASSUME VerifyInv, [Next]_vars PROVE VerifyInv'
  OBVIOUS
<1>1. CASE \E w \in Workers : WorkerStep(w)
  BY <1>1, TakeUnitMoves, GateMoves, AnswerUnitMoves, AnnounceMoves, UnitDoneMoves DEF WorkerStep
<1>2. CASE \E c \in Claims : ClaimStep(c)
  BY <1>2, LookupMoves, RetrieveMoves, RouteMoves, CheckingMoves, AcquireMoves, WaitMoves, VerifyMoves, SettleMoves,
     ShedMoves, FailMoves, TallyMoves, SendTallyMoves, ConsistencyMoves, ReverifyMoves, UpgradeMoves DEF ClaimStep
<1>3. CASE Cancel
  BY <1>3, CancelMoves
<1>4. CASE UNCHANGED vars
  <2>1. UNCHANGED <<mode, next, worker, job, cache, tally, row, panel, answered, ctxDone>>
    BY <1>4 DEF vars
  <2>2. TypeOK'
    BY <2>1, WorkerAt, TypesKept DEF VerifyInv, TypeOK
  <2>3. WorkersKeep' /\ Alone' /\ Begun' /\ Left'
    BY <2>1 DEF VerifyInv, WorkersKeep, Alone, Begun, Waiting, ClaimsOf, Left, Handled
  <2> QED BY <2>1, <2>2, <2>3, ClaimsRest DEF VerifyInv
<1> QED BY <1>1, <1>2, <1>3, <1>4 DEF Next

\* Every unit is answered in one way, and what is shown of a claim whose unit
\* was left is terminal.
LEMMA UnitsAnswered == VerifyInv => UnitAnswered
<1> SUFFICES ASSUME VerifyInv, NEW u \in 1 .. Units, Handled(u), ~ctxDone
             PROVE  LET announced == {c \in ClaimsOf(u) : row[c].status # "none"}
                    IN /\ u \in answered <=> announced = {}
                       /\ \A c \in announced : Terminal(c)
  BY DEF UnitAnswered
<1>1. \A c \in ClaimsOf(u) :
        /\ c \in Claims /\ UnitOf[c] = u /\ job[c].pc \in {"none", "done"}
        /\ row[c].status # "none" <=> job[c].pc = "done"
        /\ job[c].pc = "done" => Terminal(c)
  <2> TAKE c \in ClaimsOf(u)
  <2>1. c \in Claims /\ UnitOf[c] = u /\ job[c].pc \in {"none", "done"}
    BY DEF ClaimsOf, VerifyInv, Begun, Handled
  <2>2. RowRight(job[c], row[c], ctxDone)
    BY <2>1 DEF VerifyInv, ClaimsRight
  <2>3. CASE job[c].pc = "none"
    <3>1. row[c] = NoRow /\ NoRow.status = "none"
      BY <2>2, <2>3 DEF RowRight, NoRow
    <3> QED BY <2>1, <2>3, <3>1
  <2>4. CASE job[c].pc = "done"
    <3>1. row[c].status # "none" /\ row[c].status \in {"verified", "unchecked", "error"}
      BY <2>2, <2>4 DEF RowRight
    <3> QED BY <2>1, <2>4, <3>1 DEF Terminal
  <2> QED BY <2>1, <2>3, <2>4
<1>2. u \in answered => \A c \in ClaimsOf(u) : job[c].pc = "none"
  <2> SUFFICES ASSUME u \in answered, NEW c \in ClaimsOf(u) PROVE job[c].pc = "none"
    OBVIOUS
  <2>1. c \in Claims /\ UnitOf[c] = u
    BY <1>1
  <2> QED BY <2>1 DEF VerifyInv, Begun
<1>3. u \notin answered => \E c \in ClaimsOf(u) : job[c].pc = "done"
  BY DEF VerifyInv, Left
<1> DEFINE announced == {c \in ClaimsOf(u) : row[c].status # "none"}
<1>4. \A c \in ClaimsOf(u) : c \in announced <=> job[c].pc = "done"
  BY <1>1
<1>5. announced \subseteq ClaimsOf(u)
  OBVIOUS
<1> HIDE DEF announced
<1>6. u \in answered <=> announced = {}
  <2>1. CASE u \in answered
    BY <1>2, <1>4, <1>5, <2>1
  <2>2. CASE u \notin answered
    BY <1>3, <1>4, <2>2
  <2> QED BY <2>1, <2>2
<1>7. \A c \in announced : Terminal(c)
  BY <1>1, <1>4, <1>5
<1> QED BY <1>6, <1>7 DEF announced

\* The tally shown counts the verdicts.
LEMMA TalliesFaithful == VerifyInv => TallyFaithful
<1> SUFFICES ASSUME VerifyInv, ~ctxDone, \A c \in Claims : job[c].pc \in {"none", "done"},
                    NEW s \in Speakers, NEW k \in States
             PROVE  panel[s][k] = Cardinality({c \in Claims : /\ Speaker(c) = s /\ row[c].status = "verified"
                                                              /\ job[c].verdict.state = k})
  BY DEF TallyFaithful
<1>1. panel[s] = tally[s]
  BY DEF VerifyInv, Latest, Sending
<1>2. \A c \in Claims : row[c].status = "verified" <=> CountedJob(job[c])
  <2> TAKE c \in Claims
  <2>1. RowRight(job[c], row[c], ctxDone) /\ job[c].pc \in {"none", "done"}
    BY DEF VerifyInv, ClaimsRight
  <2>2. CASE job[c].pc = "none"
    <3>1. job[c] = NoJob /\ row[c] = NoRow
      BY <2>1, <2>2 DEF RowRight
    <3> QED BY <3>1 DEF CountedJob, NoJob, NoRow
  <2>3. CASE job[c].pc = "done"
    BY <2>1, <2>3 DEF RowRight, CountedJob
  <2> QED BY <2>1, <2>2, <2>3
<1>3. Counted(s, k) = {c \in Claims : Speaker(c) = s /\ row[c].status = "verified" /\ job[c].verdict.state = k}
  BY <1>2 DEF Counted
<1> QED BY <1>1, <1>3 DEF VerifyInv, Tallied

\* Units are answered and tallies faithful, for any pool, claims and verdicts
\* (scoreUnit, scoreClaim, recordSpeakerTally, applySpeakerTallyFrame).
THEOREM VerifyIsSound == Spec => []VerifySound
<1>1. VerifyInv => VerifySound
  BY UnitsAnswered, TalliesFaithful DEF VerifySound, VerifyInv
<1> QED BY <1>1, VerifyInit, VerifyStep, PTL DEF Spec

-----------------------------------------------------------------------------
(* Each step of the path is one of ClaimLifecycle or leaves its state alone. *)

Finished == {c \in Claims : Handled(UnitOf[c])}
Same == UNCHANGED <<row, ctxDone>> /\ Finished' = Finished
Follows == Lifecycle!Next \/ Same

\* Only workers finish claims.
LEMMA PoolAtRest ==
  ASSUME UNCHANGED <<next, worker>>
  PROVE  Finished' = Finished
BY DEF Finished, Handled

LEMMA ClaimStays ==
  ASSUME UNCHANGED sessionVars, UNCHANGED row
  PROVE  Follows
BY PoolAtRest DEF Follows, Same, sessionVars

\* What a claim's row becomes is one of the abstract row's steps.
LEMMA ClaimShows ==
  ASSUME VerifyInv, NEW c \in Claims, UNCHANGED sessionVars,
         NEW status \in {"checking", "verified", "unchecked", "error"}, NEW v,
         row' = [row EXCEPT ![c] = [status |-> status, verdict |-> v]],
         \/ status = "checking" /\ v = NoVerdict /\ row[c].status = "pending"
         \/ /\ status = "verified" /\ v \in Verdicts
            /\ \/ row[c].status \in {"pending", "checking"} /\ ~v.deep
               \/ row[c].status = "pending"
               \/ /\ v.grounded /\ v.deep
                  /\ \/ row[c].status = "verified" /\ row[c].verdict.grounded /\ ~row[c].verdict.deep
                     \/ ctxDone /\ ~Terminal(c)
         \/ status = "unchecked" /\ v = NoVerdict /\ row[c].status = "checking"
         \/ status = "error" /\ v = NoVerdict /\ row[c].status \in {"pending", "checking"}
  PROVE  Lifecycle!Next
<1>1. Finished' = Finished /\ UNCHANGED ctxDone
  BY PoolAtRest DEF sessionVars
<1>2. Lifecycle!Put(c, status, v)
  BY DEF Lifecycle!Put
<1>3. CASE status = "checking" /\ v = NoVerdict /\ row[c].status = "pending"
  <2>1. Lifecycle!Check(c)
    BY <1>1, <1>2, <1>3 DEF Lifecycle!Check, Finished
  <2> QED BY <2>1 DEF Lifecycle!Next
<1>4. CASE status = "verified" /\ v \in Verdicts /\ row[c].status \in {"pending", "checking"} /\ ~v.deep
  <2>1. Lifecycle!Verify(c, v)
    BY <1>1, <1>2, <1>4 DEF Lifecycle!Verify, Finished
  <2> QED BY <1>4, <2>1 DEF Lifecycle!Next
<1>5. CASE status = "verified" /\ v \in Verdicts /\ row[c].status = "pending"
  <2>1. Lifecycle!Replay(c, v)
    BY <1>1, <1>2, <1>5 DEF Lifecycle!Replay, Finished
  <2> QED BY <1>5, <2>1 DEF Lifecycle!Next
<1>6. CASE /\ status = "verified" /\ v \in Verdicts /\ v.grounded /\ v.deep
           /\ \/ row[c].status = "verified" /\ row[c].verdict.grounded /\ ~row[c].verdict.deep
              \/ ctxDone /\ ~Terminal(c)
  <2>1. Lifecycle!Upgrade(c, v)
    BY <1>1, <1>2, <1>6 DEF Lifecycle!Upgrade, Lifecycle!Terminal, Terminal, Finished
  <2> QED BY <1>6, <2>1 DEF Lifecycle!Next
<1>7. CASE /\ v = NoVerdict
           /\ \/ status = "unchecked" /\ row[c].status = "checking"
              \/ status = "error" /\ row[c].status \in {"pending", "checking"}
  <2>1. Lifecycle!GiveUp(c, status)
    BY <1>1, <1>2, <1>7 DEF Lifecycle!GiveUp, Finished
  <2> QED BY <1>7, <2>1 DEF Lifecycle!Next
<1> QED BY <1>3, <1>4, <1>5, <1>6, <1>7

LEMMA ClaimFollows ==
  ASSUME VerifyInv, NEW c \in Claims, ClaimStep(c)
  PROVE  Follows
<1>1. Here(c)
  BY ClaimAt
<1>2. CASE Lookup(c) \/ Retrieve(c) \/ Route(c) \/ Acquire(c) \/ Wait(c) \/ Verify(c) \/ Tally(c) \/ SendTally(c)
           \/ Consistency(c) \/ Reverify(c)
  <2>1. UNCHANGED sessionVars /\ UNCHANGED row
    BY <1>2 DEF Lookup, Retrieve, Route, Acquire, Wait, Verify, Tally, SendTally, Consistency, Reverify
  <2> QED BY <2>1, ClaimStays
<1>3. CASE Checking(c)
  <2>1. UNCHANGED sessionVars /\ job[c].pc = "checking" /\ (Show(c, "checking", NoVerdict) \/ UNCHANGED row)
    BY <1>3 DEF Checking
  <2>2. row[c].status = "pending"
    BY <1>1, <2>1 DEF Here, RowRight
  <2>3. Show(c, "checking", NoVerdict) => row' = [row EXCEPT ![c] = [status |-> "checking", verdict |-> NoVerdict]]
    BY <2>2, ShowRow DEF Statuses
  <2> QED BY <2>1, <2>2, <2>3, ClaimShows, ClaimStays DEF Follows
<1>4. CASE Settle(c)
  <2>1. UNCHANGED sessionVars /\ job[c].pc = "settle" /\ (Show(c, "verified", job[c].verdict) \/ UNCHANGED row)
    BY <1>4 DEF Settle
  <2>2. /\ row[c].status \in {"pending", "checking"} /\ (row[c].status = "pending" \/ ~job[c].verdict.deep)
        /\ job[c].verdict \in Verdicts /\ job[c].verdict \in AllVerdicts
    BY <1>1, <2>1, VerdictsAssumption DEF Here, RowRight, JobRight, Judged
  <2>3. Show(c, "verified", job[c].verdict) => row' = [row EXCEPT ![c] = [status |-> "verified", verdict |-> job[c].verdict]]
    BY <2>2, ShowRow DEF Statuses
  <2> QED BY <2>1, <2>2, <2>3, ClaimShows, ClaimStays DEF Follows
<1>5. CASE Shed(c)
  <2>1. UNCHANGED sessionVars /\ job[c].pc = "shed" /\ (Show(c, "unchecked", NoVerdict) \/ UNCHANGED row)
    BY <1>5 DEF Shed
  <2>2. row[c].status = "checking"
    BY <1>1, <2>1 DEF Here, RowRight
  <2>3. Show(c, "unchecked", NoVerdict) => row' = [row EXCEPT ![c] = [status |-> "unchecked", verdict |-> NoVerdict]]
    BY ShowRow DEF Statuses
  <2> QED BY <2>1, <2>2, <2>3, ClaimShows, ClaimStays DEF Follows
<1>6. CASE Fail(c)
  <2>1. UNCHANGED sessionVars /\ job[c].pc = "fail" /\ (Show(c, "error", NoVerdict) \/ UNCHANGED row)
    BY <1>6 DEF Fail
  <2>2. row[c].status \in {"pending", "checking"}
    BY <1>1, <2>1 DEF Here, RowRight
  <2>3. Show(c, "error", NoVerdict) => row' = [row EXCEPT ![c] = [status |-> "error", verdict |-> NoVerdict]]
    BY ShowRow DEF Statuses
  <2> QED BY <2>1, <2>2, <2>3, ClaimShows, ClaimStays DEF Follows
<1>7. CASE Upgrade(c)
  <2>1. UNCHANGED sessionVars /\ job[c].pc = "upgrade" /\ (Show(c, "verified", job[c].deeper) \/ UNCHANGED row)
    BY <1>7 DEF Upgrade
  <2>2. /\ job[c].deeper \in Verdicts /\ job[c].deeper \in AllVerdicts /\ job[c].deeper.deep /\ job[c].deeper.grounded
        /\ job[c].verdict.grounded /\ ~job[c].verdict.deep
    BY <1>1, <2>1, VerdictsAssumption DEF Here, JobRight
  <2>3. \/ row[c] = [status |-> "verified", verdict |-> job[c].verdict]
        \/ ctxDone /\ row[c].status \in {"pending", "checking"}
    BY <1>1, <2>1 DEF Here, RowRight, Shown
  <2>4. \/ row[c].status = "verified" /\ row[c].verdict.grounded /\ ~row[c].verdict.deep
        \/ ctxDone /\ ~Terminal(c)
    BY <2>2, <2>3 DEF Terminal
  <2>5. Show(c, "verified", job[c].deeper) => row' = [row EXCEPT ![c] = [status |-> "verified", verdict |-> job[c].deeper]]
    BY <2>2, ShowRow DEF Statuses
  <2> QED BY <2>1, <2>2, <2>4, <2>5, ClaimShows, ClaimStays DEF Follows
<1> QED BY <1>2, <1>3, <1>4, <1>5, <1>6, <1>7 DEF ClaimStep

\* A claim that has not begun shows nothing, and one that is done a terminal row.
LEMMA RowsOf ==
  ASSUME VerifyInv, NEW c \in Claims
  PROVE  /\ job[c].pc = "none" => row[c].status = "none"
         /\ job[c].pc = "done" => ctxDone \/ Terminal(c)
<1>1. RowRight(job[c], row[c], ctxDone)
  BY DEF VerifyInv, ClaimsRight
<1>2. NoRow.status = "none"
  BY DEF NoRow
<1>3. job[c].pc = "none" => row[c].status = "none"
  BY <1>1, <1>2 DEF RowRight
<1>4. job[c].pc = "done" => ctxDone \/ Terminal(c)
  BY <1>1 DEF RowRight, Terminal
<1> QED BY <1>3, <1>4

\* A worker that leaves its unit finishes the unit's claims.
LEMMA LeaveFollows ==
  ASSUME VerifyInv, NEW w \in Workers, worker[w].unit # 0, worker' = [worker EXCEPT ![w] = IdleWorker],
         UNCHANGED <<next, row, ctxDone>>,
         ctxDone \/ \A c \in ClaimsOf(worker[w].unit) : row[c].status = "none" \/ Terminal(c)
  PROVE  Follows
<1> DEFINE S == ClaimsOf(worker[w].unit)
<1>1. worker \in [Workers -> WorkerRec] /\ \A c \in Claims : UnitOf[c] \in 1 .. Units
  BY WorkerAt
<1>2. /\ \A x \in Workers : x # w => worker'[x] = worker[x] /\ worker[x].unit # worker[w].unit
      /\ worker'[w].unit = 0 /\ worker[w].unit < next
  BY <1>1 DEF VerifyInv, Alone, WorkersKeep, IdleWorker
<1>3. \A c \in Claims : Handled(UnitOf[c])' <=> Handled(UnitOf[c]) \/ UnitOf[c] = worker[w].unit
  BY <1>1, <1>2 DEF Handled
<1>4. Finished' = Finished \cup S
  BY <1>3 DEF Finished, ClaimsOf
<1>5. Lifecycle!Finish(S)
  BY <1>4 DEF Lifecycle!Finish, Lifecycle!Terminal, Terminal, Finished
<1>6. S \in SUBSET Claims
  BY DEF ClaimsOf
<1> QED BY <1>5, <1>6 DEF Follows, Lifecycle!Next

LEMMA WorkerFollows ==
  ASSUME VerifyInv, NEW w \in Workers, WorkerStep(w)
  PROVE  Follows
<1>1. /\ worker \in [Workers -> WorkerRec] /\ next \in 1 .. Units + 1 /\ Units \in Nat
      /\ \A c \in Claims : UnitOf[c] \in 1 .. Units
  BY WorkerAt
<1>2. CASE TakeUnit(w)
  <2>1. /\ worker[w].unit = 0 /\ next' = next + 1
        /\ worker' = [worker EXCEPT ![w] = [pc |-> "gate", unit |-> next, claims |-> {}]]
        /\ UNCHANGED <<row, ctxDone>>
    BY <1>2 DEF TakeUnit, VerifyInv, WorkersKeep
  <2>2. /\ \A x \in Workers : x # w => worker'[x] = worker[x]
        /\ worker'[w].unit = next
    BY <1>1, <2>1
  <2>3. \A u \in 1 .. Units : Handled(u)' <=> Handled(u)
    BY <1>1, <2>1, <2>2 DEF Handled
  <2>4. Finished' = Finished
    BY <1>1, <2>3 DEF Finished
  <2> QED BY <2>1, <2>4 DEF Follows, Same
<1>3. CASE Gate(w)
  <2>1. UNCHANGED <<next, row, ctxDone>> /\ \A x \in Workers : worker'[x].unit = worker[x].unit
    BY <1>1, <1>3 DEF Gate, WorkerRec
  <2>2. Finished' = Finished
    BY <2>1 DEF Finished, Handled
  <2> QED BY <2>1, <2>2 DEF Follows, Same
<1>4. CASE AnswerUnit(w)
  <2>1. /\ worker[w].pc = "answer" /\ worker' = [worker EXCEPT ![w] = IdleWorker] /\ UNCHANGED <<next, row, ctxDone>>
    BY <1>4 DEF AnswerUnit
  <2>2. worker[w].unit # 0 /\ \A c \in ClaimsOf(worker[w].unit) : c \in Claims /\ job[c].pc = "none"
    BY <2>1 DEF VerifyInv, WorkersKeep, Begun, Waiting, ClaimsOf
  <2>3. \A c \in ClaimsOf(worker[w].unit) : row[c].status = "none"
    BY <2>2, RowsOf
  <2> QED BY <2>1, <2>2, <2>3, LeaveFollows
<1>5. CASE UnitDone(w)
  <2>1. /\ worker[w].pc = "claims" /\ worker' = [worker EXCEPT ![w] = IdleWorker] /\ UNCHANGED <<next, row, ctxDone>>
        /\ \A c \in worker[w].claims : job[c].pc = "done"
    BY <1>5 DEF UnitDone
  <2>2. worker[w].unit # 0 /\ \A c \in ClaimsOf(worker[w].unit) : c \in Claims /\ job[c].pc \in {"none", "done"}
    BY <2>1 DEF VerifyInv, WorkersKeep, Begun, Waiting, ClaimsOf
  <2>3. ctxDone \/ \A c \in ClaimsOf(worker[w].unit) : row[c].status = "none" \/ Terminal(c)
    BY <2>2, RowsOf
  <2> QED BY <2>1, <2>2, <2>3, LeaveFollows
<1>6. CASE Announce(w)
  <2> DEFINE S == worker[w].claims
  <2>1. worker[w].pc = "announce" /\ UNCHANGED <<next, ctxDone>>
    BY <1>6 DEF Announce
  <2>2. worker[w].unit # 0 /\ S \subseteq ClaimsOf(worker[w].unit) /\ S \in SUBSET Claims
    BY <1>1, <2>1 DEF VerifyInv, WorkersKeep, WorkerRec
  <2>3. CASE ctxDone /\ worker' = [worker EXCEPT ![w] = IdleWorker] /\ UNCHANGED row
    BY <2>1, <2>2, <2>3, LeaveFollows
  <2>4. CASE /\ row' = [c \in Claims |-> IF c \in S THEN [NoRow EXCEPT !.status = "pending"] ELSE row[c]]
             /\ worker' = [worker EXCEPT ![w].pc = "claims"]
    <3>1. Finished' = Finished
      BY <1>1, <2>1, <2>4 DEF Finished, Handled, WorkerRec
    <3>2. \A c \in S : job[c].pc = "none" /\ c \notin Finished
      BY <2>1, <2>2 DEF VerifyInv, Begun, Waiting, ClaimsOf, Finished, Handled
    <3>3. \A c \in S : row[c].status = "none" /\ c \notin Finished
      <4>1. \A c \in S : c \in Claims
        BY <2>2
      <4> QED BY <3>2, <4>1, RowsOf
    <3>4. [NoRow EXCEPT !.status = "pending"] = [status |-> "pending", verdict |-> NoVerdict]
      BY DEF NoRow
    <3>5. row' = [c \in Claims |-> IF c \in S THEN [status |-> "pending", verdict |-> NoVerdict] ELSE row[c]]
      BY <2>4, <3>4
    <3>6. Lifecycle!Announce(S)
      BY <2>1, <3>1, <3>3, <3>5 DEF Lifecycle!Announce, Finished
    <3> QED BY <2>2, <3>6 DEF Follows, Lifecycle!Next
  <2> QED BY <1>6, <2>3, <2>4 DEF Announce
<1> QED BY <1>2, <1>3, <1>4, <1>5, <1>6 DEF WorkerStep

LEMMA StepFollows == VerifyInv /\ [Next]_vars => [Lifecycle!Next]_Lifecycle!lvars
<1> SUFFICES ASSUME VerifyInv, [Next]_vars PROVE Follows
  BY DEF Follows, Same, Lifecycle!lvars, Finished
<1>1. CASE Cancel
  <2>1. ~ctxDone /\ ctxDone' = TRUE /\ UNCHANGED row /\ Finished' = Finished
    BY <1>1, PoolAtRest DEF Cancel
  <2>2. Lifecycle!CancelSession
    BY <2>1 DEF Lifecycle!CancelSession, Finished
  <2> QED BY <2>2 DEF Follows, Lifecycle!Next
<1>2. CASE UNCHANGED vars
  BY <1>2, ClaimStays DEF vars, sessionVars
<1> QED BY <1>1, <1>2, WorkerFollows, ClaimFollows DEF Next

\* The path keeps what it promises a row's reader (ClaimLifecycle): one
\* terminal state, replaced only by a deeper verdict where both are grounded, and
\* a unit left only with its rows settled.
THEOREM VerifyKeepsPromise == Spec => ImplementsLifecycle
<1>1. Init => Lifecycle!Init
  <2>1. Init => Finished = {}
    BY UnitsAssumption DEF Init, Finished, Handled
  <2> QED BY <2>1 DEF Init, Lifecycle!Init, NoRow, Finished
<1> QED BY <1>1, VerifyInit, VerifyStep, StepFollows, PTL DEF Spec, ImplementsLifecycle, Lifecycle!Spec

-----------------------------------------------------------------------------
(* The client of the embedding provider.                                   *)

Waiters == {c \in Callers : At(c, "turn")}
CallErrors == Retriable \cup {"none", "refused", "malformed", "context", "budget"}
CallPoints == {"call", "turn", "request", "failed", "sleep", "done"}

\* The types.
CallRec == [pc : CallPoints, attempt : 1 .. MaxAttempts, wait : Nat, err : CallErrors, out : {<< >>, Batch}]
CallsOK ==
  /\ client \in [Callers -> CallRec] /\ owed \in [Callers -> Nat]
  /\ budget \in Nat \cup {Unlimited} /\ turn \in Nat /\ gap \in 0 .. Interval

\* Turns are an interval apart, the next one behind them all.
Turns ==
  /\ turn >= gap
  /\ \A c \in Waiters : gap <= client[c].wait /\ client[c].wait + Interval <= turn
  /\ \A c, d \in Waiters :
       c = d \/ client[c].wait + Interval <= client[d].wait \/ client[d].wait + Interval <= client[c].wait

\* The queue reaches no further than its callers take it.
Ahead ==
  /\ ~Over => turn <= Interval * Cardinality(Waiters) + gap
  /\ turn <= Interval * (Cardinality(Callers) + 1)
  /\ \A c \in Waiters : client[c].wait <= Interval * Cardinality(Callers)

\* What a call carries to its end, and what a sleep has left of its back-off o:
\* nothing once the sleep is over, but for what lay above the cap.  `over` is
\* whether the context is.
Sound(call, o, over) ==
  /\ call.err = "context" => over
  /\ call.pc = "failed" => call.err # "none" /\ (call.err \in Retriable => o \in RetryAfters)
  /\ call.pc = "sleep" => o <= call.wait \/ o - call.wait + MaxDelay \in RetryAfters
  /\ call.pc = "done" => /\ call.err = "none" => call.out = Batch
                         /\ call.err \in Retriable => call.attempt = MaxAttempts
  /\ call.pc # "turn" => call.wait \in 0 .. IF call.pc = "sleep" THEN MaxDelay ELSE 0

Sounds == \A c \in Callers : Sound(client[c], owed[c], Over)

EmbedInv == CallsOK /\ Turns /\ Ahead /\ Sounds

-----------------------------------------------------------------------------
(* Facts about the operators.                                              *)

\* An acceptable reply has one entry per index: what is put in order is the
\* batch itself.
LEMMA OrderedIsBatch ==
  ASSUME NEW data \in Replies, Acceptable(data)
  PROVE  OrderEmbeddings(data) = Batch
<1> DEFINE n == Len(Batch)
           place == [i \in 1 .. n |-> data[i].index + 1]
<1>1. /\ n \in Nat /\ DOMAIN Batch = 1 .. n
      /\ Batch = [i \in 1 .. n |-> Batch[i]]
  BY ClientAssumption
<1>2. data \in [1 .. n -> ReplyEntries]
  <2>1. PICK k \in 0 .. n + 1 : data \in [1 .. k -> ReplyEntries]
    BY DEF Replies
  <2>2. k \in Nat /\ Len(data) = k
    BY <2>1, <1>1
  <2> QED BY <2>1, <2>2 DEF Acceptable
<1>3. \A i \in 1 .. n : data[i].index \in 0 .. n - 1
  BY <1>1, <1>2 DEF Acceptable
<1>4. place \in Injection(1 .. n, 1 .. n)
  <2>1. place \in [1 .. n -> 1 .. n]
    BY <1>1, <1>3
  <2>2. ASSUME NEW i \in 1 .. n, NEW j \in 1 .. n, place[i] = place[j] PROVE i = j
    BY <2>2, <1>1, <1>2, <1>3 DEF Acceptable
  <2> QED BY <2>1, <2>2 DEF Injection, IsInjective
<1>5. place \in Surjection(1 .. n, 1 .. n)
  <2>1. 1 \in Int /\ n \in Int
    BY <1>1
  <2>2. IsFiniteSet(1 .. n)
    <3> HIDE DEF n
    <3> QED BY <2>1, FS_Interval
  <2> HIDE DEF place
  <2> QED BY <2>2, <1>4, FS_Injection
<1>6. ASSUME NEW i \in 1 .. n
      PROVE  VectorAt(CHOOSE e \in {data[j] : j \in DOMAIN data} : e.index = i - 1) = Batch[i]
  <2> DEFINE e == CHOOSE e \in {data[j] : j \in DOMAIN data} : e.index = i - 1
  <2>1. PICK j \in 1 .. n : place[j] = i
    BY <1>5 DEF Surjection
  <2>2. data[j] \in {data[k] : k \in DOMAIN data} /\ data[j].index = i - 1
    BY <2>1, <1>1, <1>2, <1>3
  <2>3. e.index = i - 1
    BY <2>2
  <2>4. e.index + 1 = i
    BY <2>3, <1>1
  <2> HIDE DEF e
  <2>5. VectorAt(e) = Batch[i]
    BY <2>4, <1>1 DEF VectorAt
  <2> QED BY <2>5 DEF e
<1> QED BY <1>1, <1>6 DEF OrderEmbeddings

\* A delay is within the cap, and at least what the provider asks for unless
\* that is above the cap.
LEMMA DelayInRange ==
  ASSUME NEW attempt \in 1 .. MaxAttempts, NEW ra \in Nat, NEW d \in DelayFor(attempt, ra)
  PROVE  d \in 0 .. MaxDelay /\ (ra <= d \/ d = MaxDelay)
<1>1. CASE ra <= 0
  BY <1>1, ClientAssumption DEF DelayFor, Backoff
<1>2. CASE ~(ra <= 0) /\ ra >= MaxDelay
  BY <1>2, ClientAssumption DEF DelayFor
<1>3. CASE ~(ra <= 0) /\ ~(ra >= MaxDelay)
  <2>1. /\ Least(BaseDelay, MaxDelay - ra) \in Nat
        /\ Least(BaseDelay, MaxDelay - ra) <= MaxDelay - ra
    BY <1>3, ClientAssumption DEF Least
  <2>2. d \in ra .. ra + Least(BaseDelay, MaxDelay - ra)
    BY <1>3 DEF DelayFor
  <2> HIDE DEF Least
  <2> QED BY <2>1, <2>2, ClientAssumption
<1> QED BY <1>1, <1>2, <1>3

LEMMA LessType == ASSUME NEW n \in Nat PROVE Less(n) \in Nat /\ Less(n) <= n /\ (n > 0 => Less(n) = n - 1)
BY DEF Less

\* Setting one call leaves the others.
LEMMA SetOne ==
  ASSUME CallsOK, NEW c \in Callers, NEW call \in CallRec, Set(c, call)
  PROVE  /\ client' \in [Callers -> CallRec] /\ client'[c] = call
         /\ \A d \in Callers : d # c => client'[d] = client[d]
BY DEF CallsOK, Set

\* A budget that is spent stays spent.
LEMMA OverStays == ASSUME CallsOK, [NextEmbed]_embedVars PROVE Over => Over'
<1>1. CASE Tick
  BY <1>1, ClientAssumption DEF Tick, Over, Less
<1>2. CASE Interrupt
  BY <1>2 DEF Interrupt, Over
<1>3. CASE \E c \in Callers : CallStep(c)
  BY <1>3 DEF CallStep, WaitTurn, TurnFails, Send, Replied, Reply, ReplyError, Retry, GiveUp, Wake, Over
<1>4. CASE UNCHANGED embedVars
  BY <1>4 DEF embedVars, Over
<1> QED BY <1>1, <1>2, <1>3, <1>4 DEF NextEmbed

\* The callers that wait are counted.
LEMMA WaitersFinite ==
  /\ IsFiniteSet(Waiters) /\ Cardinality(Waiters) \in Nat
  /\ Cardinality(Callers) \in Nat /\ Cardinality(Waiters) <= Cardinality(Callers)
BY ClientAssumption, FS_Subset, FS_CardinalityType DEF Waiters

LEMMA QueueBound ==
  ASSUME NEW m \in Nat, NEW k \in Nat, m <= k
  PROVE  /\ Interval * m \in Nat /\ Interval * k \in Nat /\ Interval * (k + 1) = Interval * k + Interval
         /\ Interval * m <= Interval * k
<1>1. Interval \in Nat
  BY ClientAssumption
<1> QED BY <1>1

\* Whoever leaves the limiter or moves elsewhere disturbs neither the order of
\* the turns nor their reach.
LEMMA QueueKept ==
  ASSUME CallsOK, Turns, Ahead, UNCHANGED <<turn, gap>>, Over => Over',
         Waiters' \subseteq Waiters, Waiters' = Waiters \/ Over',
         \A c \in Waiters' : client'[c].wait = client[c].wait
  PROVE  Turns' /\ Ahead'
<1>1. Turns'
  BY DEF Turns
<1>2. Ahead'
  BY DEF Ahead
<1> QED BY <1>1, <1>2

\* A step of one call: the others, sound before it, are sound after it.
LEMMA OthersSound ==
  ASSUME CallsOK, Sounds, NEW c \in Callers, NEW call \in CallRec, Set(c, call),
         owed' \in [Callers -> Nat], \A d \in Callers : d # c => owed'[d] = owed[d],
         Over => Over', Sound(call, owed'[c], Over')
  PROVE  Sounds'
<1> SUFFICES ASSUME NEW d \in Callers PROVE Sound(client'[d], owed'[d], Over')
  BY DEF Sounds
<1>1. CASE d = c
  BY <1>1, SetOne
<1>2. CASE d # c
  <2>1. client'[d] = client[d] /\ owed'[d] = owed[d]
    BY <1>2, SetOne
  <2> QED BY <2>1 DEF Sounds, Sound
<1> QED BY <1>1, <1>2

\* A step of one call that is neither in the queue before it nor after it, or
\* leaves it when the context is over.
LEMMA OneCall ==
  ASSUME EmbedInv, NEW c \in Callers, NEW call \in CallRec, Set(c, call),
         owed' \in [Callers -> Nat], \A d \in Callers : d # c => owed'[d] = owed[d],
         UNCHANGED <<budget, turn, gap>>, Sound(call, owed'[c], Over'),
         call.pc # "turn", ~At(c, "turn") \/ Over
  PROVE  EmbedInv'
<1> USE DEF EmbedInv
<1>1. /\ client' \in [Callers -> CallRec] /\ client'[c] = call
      /\ \A d \in Callers : d # c => client'[d] = client[d]
  BY SetOne
<1>2. Over' <=> Over
  BY DEF Over
<1>3. CallsOK'
  BY <1>1 DEF CallsOK
<1>4. Waiters' \subseteq Waiters /\ (Waiters' = Waiters \/ Over')
  BY <1>1, <1>2 DEF Waiters, At
<1>5. \A d \in Waiters' : client'[d].wait = client[d].wait
  BY <1>1 DEF Waiters, At
<1>6. Turns' /\ Ahead'
  BY <1>2, <1>4, <1>5, QueueKept
<1>7. Sounds'
  BY <1>2, OthersSound
<1> QED BY <1>3, <1>6, <1>7

-----------------------------------------------------------------------------
(* The steps.                                                              *)

LEMMA EmbedInit == InitEmbed => EmbedInv
<1> SUFFICES ASSUME InitEmbed PROVE EmbedInv
  OBVIOUS
<1>1. \A c \in Callers : /\ client[c].pc = "call" /\ client[c].err = "none" /\ client[c].wait = 0
                         /\ client[c] \in CallRec
  BY ClientAssumption DEF InitEmbed, CallRec, CallPoints, CallErrors
<1>2. CallsOK
  BY ClientAssumption DEF InitEmbed, CallsOK, CallRec, CallPoints, CallErrors
<1>3. Waiters = {}
  BY <1>1 DEF Waiters, At
<1>4. Turns
  BY <1>3 DEF Turns, InitEmbed
<1>5. Ahead
  <2>1. Interval * Cardinality(Waiters) \in Nat /\ Interval * (Cardinality(Callers) + 1) \in Nat
    <3>1. Cardinality(Callers) + 1 \in Nat
      BY WaitersFinite
    <3> QED BY <3>1, QueueBound, WaitersFinite
  <2>2. turn = 0 /\ gap = 0
    BY DEF InitEmbed
  <2> QED BY <1>3, <2>1, <2>2 DEF Ahead
<1>6. Sounds
  BY <1>1 DEF Sounds, Sound, Retriable
<1> QED BY <1>2, <1>4, <1>5, <1>6 DEF EmbedInv

\* An error that names its cause ends a call.
LEMMA EndsWell ==
  ASSUME EmbedInv, NEW c \in Callers, NEW err \in CallErrors \ {"none"}, Ends(c, err),
         err = "context" => Over, err \in Retriable => client[c].attempt = MaxAttempts,
         UNCHANGED <<budget, turn, gap, owed>>, ~At(c, "turn") \/ Over
  PROVE  EmbedInv'
<1> DEFINE call == [client[c] EXCEPT !.pc = "done", !.wait = 0, !.err = err]
<1>1. call \in CallRec
  BY DEF EmbedInv, CallsOK, CallRec, CallPoints
<1>2. call.pc = "done" /\ call.wait = 0 /\ call.err = err /\ call.attempt = client[c].attempt
  BY DEF EmbedInv, CallsOK, CallRec
<1>3. Set(c, call)
  BY DEF Ends
<1> HIDE DEF call
<1>4. Sound(call, owed'[c], Over')
  BY <1>2 DEF Sound, Over
<1>5. owed' \in [Callers -> Nat]
  BY DEF EmbedInv, CallsOK
<1> QED BY <1>1, <1>2, <1>3, <1>4, <1>5, OneCall

LEMMA WaitTurnKeeps == ASSUME EmbedInv, NEW c \in Callers, WaitTurn(c) PROVE EmbedInv'
<1>1. CASE Outlasts(turn)
  <2>1. "budget" \in CallErrors \ {"none"} /\ "budget" \notin Retriable /\ ~At(c, "turn")
    BY DEF CallErrors, Retriable, WaitTurn, At
  <2> QED BY <1>1, <2>1, EndsWell DEF WaitTurn
<1>2. CASE ~Outlasts(turn)
  <2> DEFINE call == [client[c] EXCEPT !.pc = "turn", !.wait = turn]
  <2>1. Set(c, call) /\ turn' = turn + Interval /\ UNCHANGED <<budget, gap, owed>> /\ ~Over /\ ~At(c, "turn")
    BY <1>2 DEF WaitTurn, At
  <2>2. call \in CallRec /\ call.pc = "turn" /\ call.wait = turn /\ call.err = client[c].err
    BY DEF EmbedInv, CallsOK, CallRec, CallPoints
  <2> HIDE DEF call
  <2>3. /\ client' \in [Callers -> CallRec] /\ client'[c] = call
        /\ \A d \in Callers : d # c => client'[d] = client[d]
    BY <2>1, <2>2, SetOne DEF EmbedInv
  <2>4. CallsOK'
    BY <2>1, <2>3, ClientAssumption DEF CallsOK, EmbedInv
  <2>5. Waiters' = Waiters \cup {c} /\ c \notin Waiters
    BY <2>1, <2>2, <2>3 DEF Waiters, At
  <2>6. \A d \in Waiters : client'[d].wait = client[d].wait /\ client[d].wait \in Nat
    BY <2>3, <2>5 DEF Waiters, EmbedInv, CallsOK, CallRec
  <2>7. Interval \in Nat /\ turn \in Nat /\ gap \in Nat /\ gap <= Interval
    BY ClientAssumption DEF EmbedInv, CallsOK
  <2>8. Turns'
    BY <2>1, <2>2, <2>3, <2>5, <2>6, <2>7 DEF Turns, EmbedInv
  <2>9. Ahead'
    <3>1. Cardinality(Waiters') = Cardinality(Waiters) + 1 /\ Cardinality(Waiters') <= Cardinality(Callers)
      <4>1. Cardinality(Waiters') = Cardinality(Waiters) + 1
        BY <2>5, WaitersFinite, FS_AddElement
      <4>2. Waiters' \subseteq Callers
        BY DEF Waiters
      <4> QED BY <4>1, <4>2, ClientAssumption, FS_Subset
    <3> DEFINE w == Cardinality(Waiters)
               k == Cardinality(Callers)
    <3>2. w \in Nat /\ k \in Nat /\ w + 1 <= k /\ Cardinality(Waiters') = w + 1
      BY <3>1, WaitersFinite
    <3>3. turn <= Interval * w + gap /\ \A d \in Waiters : client[d].wait <= Interval * k
      BY <2>1 DEF Ahead, EmbedInv
    <3> HIDE DEF w, k
    <3>4. /\ Interval * w \in Nat /\ Interval * (w + 1) = Interval * w + Interval
          /\ Interval * (w + 1) <= Interval * k /\ Interval * (k + 1) = Interval * k + Interval
          /\ Interval * k \in Nat
      <4>1. w + 1 \in Nat
        BY <3>2
      <4> QED BY <3>2, <4>1, QueueBound
    <3>5. turn + Interval <= Interval * (w + 1) + gap /\ turn <= Interval * k
          /\ turn + Interval <= Interval * (k + 1)
      BY <2>7, <3>3, <3>4
    <3>6. \A d \in Waiters' : client'[d].wait <= Interval * k
      BY <2>2, <2>3, <2>5, <2>6, <3>3, <3>5
    <3> QED BY <2>1, <3>2, <3>5, <3>6 DEF Ahead, k
  <2>10. Sounds'
    <3>1. Sound(call, owed'[c], Over')
      BY <2>1, <2>2 DEF EmbedInv, Sounds, Sound, Over
    <3> QED BY <2>1, <2>2, <3>1, OthersSound DEF EmbedInv, CallsOK, Over
  <2> QED BY <2>4, <2>8, <2>9, <2>10 DEF EmbedInv
<1> QED BY <1>1, <1>2

LEMMA TurnFailsKeeps == ASSUME EmbedInv, NEW c \in Callers, TurnFails(c) PROVE EmbedInv'
<1>1. "context" \in CallErrors \ {"none"} /\ "context" \notin Retriable
  BY DEF CallErrors, Retriable
<1> QED BY <1>1, EndsWell DEF TurnFails

\* Whoever is at the head of the queue has waited out the gap, and the next in
\* it is an interval behind.
LEMMA SendKeeps == ASSUME EmbedInv, NEW c \in Callers, Send(c) PROVE EmbedInv' /\ gap = 0
<1> DEFINE call == [client[c] EXCEPT !.pc = "request"]
<1>1. Set(c, call) /\ gap' = Interval /\ UNCHANGED <<budget, turn, owed>> /\ c \in Waiters /\ client[c].wait = 0
  BY DEF Send, Waiters
<1>2. call \in CallRec /\ call.pc = "request" /\ call.wait = 0 /\ call.err = client[c].err
  BY <1>1 DEF EmbedInv, CallsOK, CallRec, CallPoints
<1> HIDE DEF call
<1>3. /\ client' \in [Callers -> CallRec] /\ client'[c] = call
      /\ \A d \in Callers : d # c => client'[d] = client[d]
  BY <1>1, <1>2, SetOne DEF EmbedInv
<1>4. Interval \in Nat /\ turn \in Nat /\ gap \in Nat
  BY ClientAssumption DEF EmbedInv, CallsOK
<1>5. gap = 0
  BY <1>1, <1>4 DEF EmbedInv, Turns
<1>6. CallsOK'
  BY <1>1, <1>3, <1>4 DEF CallsOK, EmbedInv
<1>7. Waiters' = Waiters \ {c}
  BY <1>1, <1>2, <1>3 DEF Waiters, At
<1>8. \A d \in Waiters : client[d].wait \in Nat
  BY DEF Waiters, EmbedInv, CallsOK, CallRec
<1>9. \A d \in Waiters' : client'[d].wait = client[d].wait /\ d \in Waiters /\ d # c
  BY <1>3, <1>7 DEF Waiters
<1>10. Turns'
  <2>1. turn >= Interval
    BY <1>1, <1>4 DEF EmbedInv, Turns
  <2>2. \A d \in Waiters' : Interval <= client[d].wait
    BY <1>1, <1>4, <1>8, <1>9 DEF EmbedInv, Turns
  <2> QED BY <1>1, <1>9, <2>1, <2>2 DEF EmbedInv, Turns
<1>11. Ahead'
  <2> DEFINE w == Cardinality(Waiters)
  <2>1. Cardinality(Waiters') = w - 1
    BY <1>1, <1>7, WaitersFinite, FS_RemoveElement
  <2>2. w \in Nat /\ w # 0 /\ w - 1 \in Nat
    <3>1. w \in Nat /\ w # 0
      BY <1>1, WaitersFinite, FS_EmptySet
    <3> QED BY <3>1
  <2>3. turn <= Interval * w \/ Over
    <3>1. Interval * w \in Nat
      BY <2>2, QueueBound
    <3> QED BY <1>4, <1>5, <3>1 DEF EmbedInv, Ahead
  <2> HIDE DEF w
  <2>4. Interval * w = Interval * (w - 1) + Interval
    <3>1. (w - 1) + 1 = w
      BY <2>2
    <3> QED BY <2>2, <3>1, QueueBound
  <2>5. ~Over' => turn' <= Interval * Cardinality(Waiters') + gap'
    BY <1>1, <2>1, <2>3, <2>4 DEF Over
  <2> QED BY <1>1, <1>9, <2>5 DEF EmbedInv, Ahead
<1>12. Sounds'
  <2>1. Sound(call, owed'[c], Over')
    BY <1>1, <1>2 DEF EmbedInv, Sounds, Sound, Over
  <2> QED BY <1>1, <1>2, <2>1, OthersSound DEF EmbedInv, CallsOK, Over
<1> QED BY <1>5, <1>6, <1>10, <1>11, <1>12 DEF EmbedInv

LEMMA ReplyKeeps ==
  ASSUME EmbedInv, NEW c \in Callers, NEW data \in Replies, Reply(c, data)
  PROVE  EmbedInv'
<1>0. UNCHANGED <<budget, turn, gap, owed>> /\ client[c] \in CallRec /\ owed' \in [Callers -> Nat] /\ ~At(c, "turn")
      /\ client[c].wait = 0
  BY DEF Reply, EmbedInv, CallsOK, At, Sounds, Sound
<1>1. CASE Acceptable(data)
  <2> DEFINE call == [client[c] EXCEPT !.pc = "done", !.err = "none", !.out = OrderEmbeddings(data)]
  <2>1. Set(c, call)
    BY <1>1 DEF Reply
  <2>2. call \in CallRec /\ call.pc = "done" /\ call.err = "none" /\ call.out = Batch /\ call.wait = 0
    BY <1>0, <1>1, OrderedIsBatch DEF CallRec, CallPoints, CallErrors
  <2> HIDE DEF call
  <2>3. Sound(call, owed'[c], Over')
    BY <2>2 DEF Sound, Retriable
  <2> QED BY <1>0, <2>1, <2>2, <2>3, OneCall
<1>2. CASE ~Acceptable(data)
  <2> DEFINE call == [client[c] EXCEPT !.pc = "failed", !.err = "malformed"]
  <2>1. Set(c, call)
    BY <1>2 DEF Reply
  <2>2. call \in CallRec /\ call.pc = "failed" /\ call.err = "malformed" /\ call.wait = 0
    BY <1>0 DEF CallRec, CallPoints, CallErrors
  <2> HIDE DEF call
  <2>3. Sound(call, owed'[c], Over')
    BY <2>2 DEF Sound, Retriable
  <2> QED BY <1>0, <2>1, <2>2, <2>3, OneCall
<1> QED BY <1>1, <1>2

LEMMA ReplyErrorKeeps ==
  ASSUME EmbedInv, NEW c \in Callers, NEW err \in Retriable \cup {"refused", "context"}, NEW ra \in RetryAfters,
         ReplyError(c, err, ra)
  PROVE  EmbedInv'
<1> DEFINE call == [client[c] EXCEPT !.pc = "failed", !.err = err]
<1>1. UNCHANGED <<budget, turn, gap>> /\ client[c] \in CallRec /\ ~At(c, "turn") /\ client[c].wait = 0
  BY DEF ReplyError, EmbedInv, CallsOK, At, Sounds, Sound
<1>2. Set(c, call) /\ owed' = [owed EXCEPT ![c] = ra] /\ (err = "context" => Over)
  BY DEF ReplyError
<1>3. call \in CallRec /\ call.pc = "failed" /\ call.err = err /\ call.wait = 0 /\ err # "none"
  BY <1>1 DEF CallRec, CallPoints, CallErrors, Retriable
<1> HIDE DEF call
<1>4. owed' \in [Callers -> Nat] /\ owed'[c] = ra /\ \A d \in Callers : d # c => owed'[d] = owed[d]
  BY <1>2, ClientAssumption DEF EmbedInv, CallsOK
<1>5. Sound(call, owed'[c], Over')
  BY <1>1, <1>2, <1>3, <1>4 DEF Sound, Over
<1> QED BY <1>1, <1>2, <1>3, <1>4, <1>5, OneCall

LEMMA RetryKeeps == ASSUME EmbedInv, NEW c \in Callers, Retry(c) PROVE EmbedInv'
<1>1. PICK d \in DelayFor(client[c].attempt, owed[c]) :
        Set(c, [client[c] EXCEPT !.pc = "sleep", !.attempt = @ + 1, !.wait = d])
  BY DEF Retry
<1> DEFINE call == [client[c] EXCEPT !.pc = "sleep", !.attempt = @ + 1, !.wait = d]
<1>2. /\ UNCHANGED <<budget, turn, gap, owed>> /\ client[c] \in CallRec /\ owed' \in [Callers -> Nat]
      /\ ~At(c, "turn") /\ ~Over /\ client[c].attempt < MaxAttempts /\ owed[c] \in RetryAfters /\ owed[c] \in Nat
      /\ client[c].err # "context"
  BY DEF Retry, EmbedInv, CallsOK, At, Sounds, Sound, Retriable
<1>3. d \in 0 .. MaxDelay /\ (owed[c] <= d \/ d = MaxDelay)
  BY <1>2, DelayInRange DEF CallRec
<1>4. call \in CallRec /\ call.pc = "sleep" /\ call.wait = d /\ call.err = client[c].err
  <2>1. client[c].attempt + 1 \in 1 .. MaxAttempts /\ d \in Nat
    BY <1>2, <1>3, ClientAssumption DEF CallRec
  <2> QED BY <1>2, <2>1 DEF CallRec, CallPoints
<1>5. Set(c, call)
  BY <1>1
<1> HIDE DEF call
<1>6. Sound(call, owed'[c], Over')
  BY <1>2, <1>3, <1>4, ClientAssumption DEF Sound
<1> QED BY <1>2, <1>4, <1>5, <1>6, OneCall

LEMMA GiveUpKeeps == ASSUME EmbedInv, NEW c \in Callers, GiveUp(c) PROVE EmbedInv'
<1>1. /\ "context" \in CallErrors \ {"none"} /\ "context" \notin Retriable /\ ~At(c, "turn")
      /\ client[c].err \in CallErrors \ {"none"} /\ (client[c].err = "context" => Over)
  BY DEF CallErrors, Retriable, GiveUp, At, EmbedInv, CallsOK, CallRec, Sounds, Sound
<1>2. CASE Over /\ Ends(c, "context")
  BY <1>1, <1>2, EndsWell DEF GiveUp
<1>3. CASE Ends(c, client[c].err) /\ (client[c].err \notin Retriable \/ client[c].attempt = MaxAttempts)
  BY <1>1, <1>3, EndsWell DEF GiveUp
<1> QED BY <1>2, <1>3 DEF GiveUp

LEMMA WakeKeeps == ASSUME EmbedInv, NEW c \in Callers, Wake(c) PROVE EmbedInv'
<1>1. CASE Over /\ Ends(c, "context")
  <2>1. "context" \in CallErrors \ {"none"} /\ "context" \notin Retriable
    BY DEF CallErrors, Retriable
  <2> QED BY <1>1, <2>1, EndsWell DEF Wake
<1>2. CASE ~Over /\ client[c].wait = 0 /\ Set(c, [client[c] EXCEPT !.pc = "call"])
  <2> DEFINE call == [client[c] EXCEPT !.pc = "call"]
  <2>1. UNCHANGED <<budget, turn, gap, owed>> /\ client[c] \in CallRec /\ owed' \in [Callers -> Nat] /\ ~At(c, "turn")
    BY DEF Wake, EmbedInv, CallsOK, At
  <2>2. call \in CallRec /\ call.pc = "call" /\ call.wait = 0 /\ call.err = client[c].err
    BY <1>2, <2>1 DEF CallRec, CallPoints
  <2>3. Set(c, call)
    BY <1>2
  <2> HIDE DEF call
  <2>4. Sound(call, owed'[c], Over')
    BY <2>1, <2>2 DEF Sound, EmbedInv, Sounds, Over
  <2> QED BY <2>1, <2>2, <2>3, <2>4, OneCall
<1> QED BY <1>1, <1>2 DEF Wake

LEMMA InterruptKeeps == ASSUME EmbedInv, Interrupt PROVE EmbedInv'
<1>1. Over' /\ UNCHANGED <<client, turn, gap, owed>> /\ Waiters' = Waiters
  BY DEF Interrupt, Over, Waiters, At
<1>2. CallsOK'
  BY <1>1 DEF Interrupt, EmbedInv, CallsOK
<1>3. Turns' /\ Ahead'
  <2>1. \A c \in Waiters' : client'[c].wait = client[c].wait
    BY <1>1
  <2> QED BY <1>1, <2>1, QueueKept DEF EmbedInv
<1>4. Sounds'
  BY <1>1 DEF EmbedInv, Sounds, Sound
<1> QED BY <1>2, <1>3, <1>4 DEF EmbedInv

\* Time passes for all alike: nobody in the queue is due, so a tick brings
\* every turn as much nearer as the next one.
LEMMA TickKeeps == ASSUME EmbedInv, Tick PROVE EmbedInv'
<1>1. \A c \in Callers : client[c] \in CallRec /\ client[c].wait \in Nat /\ owed[c] \in Nat
  BY DEF EmbedInv, CallsOK, CallRec
<1>2. client' \in [Callers -> CallRec] /\ owed' \in [Callers -> Nat]
  BY <1>1, LessType DEF Tick, CallRec, EmbedInv, CallsOK
<1>3. ASSUME NEW c \in Callers
      PROVE  /\ client'[c].wait = Less(client[c].wait) /\ client'[c].pc = client[c].pc
             /\ client'[c].err = client[c].err /\ client'[c].out = client[c].out
             /\ client'[c].attempt = client[c].attempt
             /\ owed'[c] = IF At(c, "sleep") /\ client[c].wait > 0 THEN Less(owed[c]) ELSE owed[c]
  BY <1>1 DEF Tick, CallRec
<1>4. turn \in Nat /\ gap \in 0 .. Interval /\ Interval \in Nat /\ turn' = Less(turn) /\ gap' = Less(gap)
  BY ClientAssumption DEF EmbedInv, CallsOK, Tick
<1>5. Over => Over'
  BY OverStays DEF EmbedInv, NextEmbed
<1>6. CallsOK'
  <2>1. budget' \in Nat \cup {Unlimited}
    BY LessType DEF EmbedInv, CallsOK, Tick
  <2>2. turn' \in Nat /\ gap' \in 0 .. Interval
    BY <1>4, LessType
  <2> QED BY <1>2, <2>1, <2>2 DEF CallsOK
<1>7. Waiters' = Waiters /\ \A c \in Waiters : client'[c].wait = client[c].wait - 1 /\ client[c].wait \in Nat \ {0}
  <2>1. Waiters' = Waiters
    BY <1>3 DEF Waiters, At
  <2>2. ASSUME NEW c \in Waiters PROVE client'[c].wait = client[c].wait - 1 /\ client[c].wait \in Nat \ {0}
    BY <1>1, <1>3, LessType DEF Waiters, Tick
  <2> QED BY <2>1, <2>2
<1>8. Turns'
  <2>1. turn' >= gap'
    BY <1>4 DEF Less, EmbedInv, Turns
  <2>2. ASSUME NEW c \in Waiters PROVE gap' <= client'[c].wait /\ client'[c].wait + Interval <= turn'
    BY <1>4, <1>7 DEF Less, EmbedInv, Turns
  <2>3. ASSUME NEW c \in Waiters, NEW d \in Waiters
        PROVE  c = d \/ client'[c].wait + Interval <= client'[d].wait \/ client'[d].wait + Interval <= client'[c].wait
    BY <1>4, <1>7 DEF EmbedInv, Turns
  <2> QED BY <1>7, <2>1, <2>2, <2>3 DEF Turns
<1>9. Ahead'
  <2> DEFINE w == Interval * Cardinality(Waiters)
             k == Interval * Cardinality(Callers)
             l == Interval * (Cardinality(Callers) + 1)
  <2>1. w \in Nat /\ k \in Nat /\ l \in Nat
    <3>1. Cardinality(Callers) + 1 \in Nat
      BY WaitersFinite
    <3> QED BY <3>1, WaitersFinite, QueueBound
  <2>2. (~Over => turn <= w + gap) /\ turn <= l /\ \A c \in Waiters : client[c].wait <= k
    BY DEF EmbedInv, Ahead
  <2> HIDE DEF w, k, l
  <2>3. (~Over' => turn' <= w + gap') /\ turn' <= l
    BY <1>4, <1>5, <2>1, <2>2 DEF Less
  <2>4. \A c \in Waiters : client'[c].wait <= k
    BY <1>7, <2>1, <2>2
  <2> QED BY <1>7, <2>3, <2>4 DEF Ahead, w, k, l
<1>10. Sounds'
  <2> SUFFICES ASSUME NEW c \in Callers PROVE Sound(client'[c], owed'[c], Over')
    BY DEF Sounds
  <2>1. Sound(client[c], owed[c], Over)
    BY DEF EmbedInv, Sounds
  <2>2. client[c].pc = "sleep" =>
          owed'[c] <= client'[c].wait \/ owed'[c] - client'[c].wait + MaxDelay \in RetryAfters
    <3> SUFFICES ASSUME client[c].pc = "sleep"
                 PROVE  owed'[c] <= client'[c].wait \/ owed'[c] - client'[c].wait + MaxDelay \in RetryAfters
      OBVIOUS
    <3>1. CASE client[c].wait = 0
      BY <1>1, <1>3, <2>1, <3>1 DEF Sound, Less
    <3>2. CASE client[c].wait > 0
      <4>1. client'[c].wait = client[c].wait - 1 /\ owed'[c] = Less(owed[c])
        BY <1>1, <1>3, <3>2, LessType DEF At
      <4>2. CASE owed[c] = 0
        BY <1>1, <3>2, <4>1, <4>2 DEF Less
      <4>3. CASE owed[c] > 0
        <5>1. owed'[c] = owed[c] - 1
          BY <4>1, <4>3, <1>1, LessType
        <5>2. owed'[c] - client'[c].wait = owed[c] - client[c].wait
          BY <1>1, <4>1, <5>1
        <5> QED BY <1>1, <2>1, <4>1, <5>1, <5>2 DEF Sound
      <4> QED BY <1>1, <4>2, <4>3
    <3> QED BY <1>1, <3>1, <3>2
  <2>3. client[c].pc # "turn" => client'[c].wait \in 0 .. IF client[c].pc = "sleep" THEN MaxDelay ELSE 0
    <3>1. client'[c].wait \in Nat /\ client'[c].wait <= client[c].wait
      BY <1>1, <1>3, LessType
    <3>2. client[c].pc # "turn" => client[c].wait \in 0 .. IF client[c].pc = "sleep" THEN MaxDelay ELSE 0
      BY <2>1 DEF Sound
    <3> QED BY <1>1, <3>1, <3>2, ClientAssumption
  <2>4. client[c].pc = "failed" => owed'[c] = owed[c]
    BY <1>3 DEF At
  <2> QED BY <1>3, <1>5, <2>1, <2>2, <2>3, <2>4 DEF Sound
<1> QED BY <1>6, <1>8, <1>9, <1>10 DEF EmbedInv

LEMMA EmbedStep == EmbedInv /\ [NextEmbed]_embedVars => EmbedInv'
<1> SUFFICES ASSUME EmbedInv, [NextEmbed]_embedVars PROVE EmbedInv'
  OBVIOUS
<1>1. ASSUME NEW c \in Callers, CallStep(c) PROVE EmbedInv'
  BY <1>1, WaitTurnKeeps, TurnFailsKeeps, SendKeeps, ReplyKeeps, ReplyErrorKeeps, RetryKeeps, GiveUpKeeps, WakeKeeps
     DEF CallStep, Replied
<1>2. CASE UNCHANGED embedVars
  <2>1. UNCHANGED <<client, budget, turn, gap, owed>>
    BY <1>2 DEF embedVars
  <2>2. CallsOK'
    BY <2>1 DEF EmbedInv, CallsOK
  <2>3. Turns' /\ Ahead'
    BY <2>1 DEF EmbedInv, Turns, Ahead, Waiters, At, Over
  <2>4. Sounds'
    BY <2>1 DEF EmbedInv, Sounds, Sound, Over
  <2> QED BY <2>2, <2>3, <2>4 DEF EmbedInv
<1> QED BY <1>1, <1>2, TickKeeps, InterruptKeeps DEF NextEmbed

-----------------------------------------------------------------------------
(* The theorems.                                                           *)

\* The client's inductive invariant.
THEOREM EmbedInvariant == EmbedSpec => []EmbedInv
BY EmbedInit, EmbedStep, PTL DEF EmbedSpec

LEMMA InvIsSound == EmbedInv => EmbedSound
<1> SUFFICES ASSUME EmbedInv PROVE EmbedSound
  OBVIOUS
<1>1. EmbedTypeOK
  <2>1. ASSUME NEW c \in Callers
        PROVE  /\ client[c].pc \in {"call", "turn", "request", "failed", "sleep", "done"}
               /\ client[c].attempt \in 1 .. MaxAttempts
               /\ client[c].err \in Retriable \cup {"none", "refused", "malformed", "context", "budget"}
               /\ owed[c] \in Nat
    BY DEF EmbedInv, CallsOK, CallRec, CallPoints, CallErrors
  <2>2. ASSUME NEW c \in Callers
        PROVE  client[c].wait \in 0 .. IF At(c, "sleep") THEN MaxDelay ELSE Interval * Cardinality(Callers)
    <3>1. Interval * Cardinality(Callers) \in Nat /\ client[c].wait \in Nat
      BY WaitersFinite, QueueBound DEF EmbedInv, CallsOK, CallRec
    <3>2. CASE At(c, "turn")
      BY <3>1, <3>2 DEF EmbedInv, Ahead, Waiters, At
    <3>3. CASE ~At(c, "turn")
      BY <3>1, <3>3 DEF EmbedInv, Sounds, Sound, At
    <3> QED BY <3>2, <3>3
  <2>3. budget \in Nat \cup {Unlimited} /\ turn \in 0 .. Interval * (Cardinality(Callers) + 1) /\ gap \in 0 .. Interval
    <3>1. Interval * (Cardinality(Callers) + 1) \in Nat
      <4>1. Cardinality(Callers) + 1 \in Nat
        BY WaitersFinite
      <4> QED BY <4>1, QueueBound
    <3> QED BY <3>1 DEF EmbedInv, CallsOK, Ahead
  <2> QED BY <2>1, <2>2, <2>3 DEF EmbedTypeOK
<1>2. RightVectors
  BY DEF EmbedInv, Sounds, Sound, RightVectors, At
<1>3. CauseNamed
  BY DEF EmbedInv, Sounds, Sound, CauseNamed, At
<1> QED BY <1>1, <1>2, <1>3 DEF EmbedSound

\* A call that succeeds gives every text its own vector, whatever the reply's
\* entries; one that fails names its cause; no back-off exceeds its cap and no
\* turn lies further ahead than the callers of the limiter account for.
THEOREM EmbedIsSound == EmbedSpec => []EmbedSound
BY EmbedInvariant, InvIsSound, PTL

\* Who moves in a step: one call, or time and signals, which move none.
LEMMA OthersRest ==
  ASSUME EmbedInv, [NextEmbed]_embedVars, NEW c \in Callers, ~CallStep(c)
  PROVE  client'[c].pc = client[c].pc
<1>1. CASE Tick
  BY <1>1 DEF Tick, EmbedInv, CallsOK, CallRec
<1>2. CASE Interrupt \/ UNCHANGED embedVars
  BY <1>2 DEF Interrupt, embedVars
<1>3. ASSUME NEW d \in Callers, d # c, CallStep(d) PROVE client'[c].pc = client[c].pc
  <2>1. \E call : client' = [client EXCEPT ![d] = call]
    BY <1>3 DEF CallStep, WaitTurn, TurnFails, Send, Replied, Reply, ReplyError, Retry, GiveUp, Wake, Ends, Set
  <2> QED BY <1>3, <2>1 DEF EmbedInv, CallsOK
<1> QED BY <1>1, <1>2, <1>3 DEF NextEmbed

LEMMA PacedStep ==
  ASSUME EmbedInv, [NextEmbed]_embedVars, NEW c \in Callers, At(c, "request")', ~At(c, "request")
  PROVE  gap = 0 /\ ~Over
<1>1. CallStep(c)
  BY OthersRest DEF At
<1>2. Send(c)
  BY <1>1 DEF CallStep, WaitTurn, TurnFails, Replied, Reply, ReplyError, Retry, GiveUp, Wake, Ends, Set, At,
      EmbedInv, CallsOK, CallRec
<1> QED BY <1>2, SendKeeps DEF Send

LEMMA HonouredStep ==
  ASSUME EmbedInv, [NextEmbed]_embedVars, NEW c \in Callers, At(c, "sleep"), At(c, "call")', owed[c] > 0
  PROVE  owed[c] + MaxDelay \in RetryAfters
<1>1. CallStep(c)
  BY OthersRest DEF At
<1>2. Wake(c)
  BY <1>1 DEF CallStep, WaitTurn, TurnFails, Send, Replied, Reply, ReplyError, Retry, GiveUp, At
<1>3. client[c].wait = 0
  BY <1>2 DEF Wake, Ends, Set, At, EmbedInv, CallsOK, CallRec
<1>4. owed[c] \in Nat /\ MaxDelay \in Nat /\ owed[c] - 0 = owed[c]
  BY ClientAssumption DEF EmbedInv, CallsOK
<1>5. owed[c] <= 0 \/ owed[c] - 0 + MaxDelay \in RetryAfters
  BY <1>3 DEF EmbedInv, Sounds, Sound, At
<1> QED BY <1>4, <1>5

LEMMA OutranksStep ==
  ASSUME EmbedInv, [NextEmbed]_embedVars, NEW c \in Callers, Over, ~At(c, "done")
  PROVE  /\ At(c, "request")' => At(c, "request")
         /\ At(c, "done")' /\ ~At(c, "request") => client'[c].err = "context"
<1>1. At(c, "request")' => At(c, "request")
  BY PacedStep
<1>2. ASSUME At(c, "done")', ~At(c, "request") PROVE client'[c].err = "context"
  <2>1. CallStep(c)
    BY <1>2, OthersRest DEF At
  <2>2. TurnFails(c) \/ (GiveUp(c) /\ Ends(c, "context")) \/ (Wake(c) /\ Ends(c, "context"))
    BY <1>2, <2>1 DEF CallStep, WaitTurn, TurnFails, Send, Replied, Reply, ReplyError, Retry, GiveUp, Wake
  <2>3. Ends(c, "context")
    BY <2>2 DEF TurnFails
  <2> QED BY <2>3 DEF Ends, Set, EmbedInv, CallsOK, CallRec
<1> QED BY <1>1, <1>2

\* Requests of all the workers together keep the limiter's interval, a caller
\* waits out the back-off it was asked for up to the cap, and once the context
\* is over nothing is sent and its error is what a call reports.
THEOREM EmbedIsPolite == EmbedSpec => EmbedPolite
<1>1. EmbedInv /\ [NextEmbed]_embedVars =>
        [(\E c \in Callers : At(c, "request")' /\ ~At(c, "request")) => gap = 0]_embedVars
  BY PacedStep
<1>2. EmbedInv /\ [NextEmbed]_embedVars =>
        [\A c \in Callers : At(c, "sleep") /\ At(c, "call")' /\ owed[c] > 0 =>
            owed[c] + MaxDelay \in RetryAfters]_embedVars
  BY HonouredStep
<1>3. EmbedInv /\ [NextEmbed]_embedVars =>
        [\A c \in Callers : Over /\ ~At(c, "done") =>
           /\ (At(c, "request")' => At(c, "request"))
           /\ (At(c, "done")' /\ ~At(c, "request")) => client'[c].err = "context"]_embedVars
  BY OutranksStep
<1> QED BY <1>1, <1>2, <1>3, EmbedInvariant, PTL DEF EmbedSpec, EmbedPolite, Paced, BackoffHonoured, ContextOutranks
\* A call returns what belongs to it and keeps the limiter's pace, the back-offs
\* asked for and the rank of its context (EmbedTexts, retry, RateLimited).
THEOREM EmbedKeeps == EmbedSpec => EmbedKept
BY EmbedIsSound, EmbedIsPolite, PTL DEF EmbedKept
=============================================================================
