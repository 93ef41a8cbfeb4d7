---------------------------- MODULE SpeakerMemory ----------------------------
(***************************************************************************)
(* internal/service/consistency.go and detectConsistency of live.go: a     *)
(* session's record of what each speaker said, and the detection of a      *)
(* speaker contradicting themselves.  Workers take statements from the     *)
(* unit queue in the order they were spoken, score them for an arbitrary   *)
(* time, and then detect under the speaker's lock: read the speaker's      *)
(* prior statements, ask the stance model about the most similar ones,     *)
(* flag the first contradiction, remember the statement.                   *)
(*                                                                         *)
(* Statements are numbered in the order they were spoken.  mu is a leaf    *)
(* lock held for one map access, so it does not appear: prior, remember    *)
(* and speakerLock are atomic.                                             *)
(***************************************************************************)
EXTENDS Naturals, Sequences, FiniteSets

CONSTANTS
  Workers,
  Speakers,
  Unknown,          \* the empty label: never attributed
  NoWorker,
  MaxStatements,    \* bound: statements of the session
  Similarity,       \* Similarity[<<i, j>>]: cosine of two statements, scaled
  Floor,            \* consistencyFloor
  TopK,             \* consistencyTopK
  StanceSlots       \* cap(stanceSem)

Statements == 1 .. MaxStatements

ASSUME MaxAssumption == MaxStatements \in Nat
ASSUME LabelsAssumption == Unknown \notin Speakers /\ NoWorker \notin Workers
ASSUME SimilarityAssumption ==
  Similarity \in [Statements \X Statements -> Nat] /\ Floor \in Nat
ASSUME StanceAssumption == TopK \in Nat \ {0} /\ StanceSlots \in Nat \ {0}

VARIABLES
  speakerOf,   \* speakerOf[i]: label of statement i
  next,        \* the next statement the queue delivers
  det,         \* det[w]: control point, statement, candidates left
  lock,        \* lock[s]: the worker detecting for speaker s
  history,     \* bySpeaker
  seen,        \* seen[i]: the priors statement i was ranked against
  flags,       \* consistency events taken by the consumer
  ctxDone

vars == <<speakerOf, next, det, lock, history, seen, flags, ctxDone>>

Points == {"idle", "scoring", "lock", "prior", "compare", "stance", "flag",
           "remember"}
Flags == [stmt : Statements, earlier : Statements]
Detections == [pc : Points, stmt : Statements \cup {0}, left : SUBSET Statements,
               hit : Statements \cup {0}]

\* The statement field is 0 when the worker has none.
Idle == [pc |-> "idle", stmt |-> 0, left |-> {}, hit |-> 0]

\* Workers waiting for the stance model: they hold a slot of stanceSem.
InStance == {w \in Workers : det[w].pc = "stance"}

TypeOK ==
  /\ speakerOf \in [Statements -> Speakers \cup {Unknown}]
  /\ next \in 1 .. MaxStatements + 1
  /\ det \in [Workers -> Detections]
  /\ lock \in [Speakers -> Workers \cup {NoWorker}]
  /\ history \in [Speakers -> Seq(Statements)]
  /\ seen \in [Statements -> SUBSET Statements]
  /\ flags \subseteq Flags
  /\ Cardinality(InStance) <= StanceSlots
  /\ ctxDone \in BOOLEAN

Init ==
  /\ speakerOf \in [Statements -> Speakers \cup {Unknown}]
  /\ next = 1
  /\ det = [w \in Workers |-> Idle]
  /\ lock = [s \in Speakers |-> NoWorker]
  /\ history = [s \in Speakers |-> << >>]
  /\ seen = [i \in Statements |-> {}]
  /\ flags = {}
  /\ ctxDone = FALSE

-----------------------------------------------------------------------------

Priors(s) == {history[s][k] : k \in 1 .. Len(history[s])}

\* rankBySimilarity: those above the floor, the TopK most similar; the sort is
\* stable, so a tie goes to the one remembered first.
Position(s, p) == CHOOSE k \in 1 .. Len(history[s]) : history[s][k] = p
Closer(s, i, p, q) ==
  \/ Similarity[<<i, p>>] > Similarity[<<i, q>>]
  \/ /\ Similarity[<<i, p>>] = Similarity[<<i, q>>]
     /\ Position(s, p) < Position(s, q)
Candidates(s, i) == {p \in Priors(s) : Similarity[<<i, p>>] >= Floor}
Ranked(s, i) ==
  {p \in Candidates(s, i) :
     Cardinality({q \in Candidates(s, i) : Closer(s, i, q, p)}) < TopK}

Speaker(w) == speakerOf[det[w].stmt]
Closest(w) == CHOOSE p \in det[w].left :
                \A q \in det[w].left \ {p} : Closer(Speaker(w), det[w].stmt, p, q)

Unlocked(w) == [lock EXCEPT ![Speaker(w)] = NoWorker]

-----------------------------------------------------------------------------

\* A worker takes the next unit of the queue and scores it.
Take(w) ==
  /\ det[w].pc = "idle"
  /\ next <= MaxStatements
  /\ det' = [det EXCEPT ![w] = [pc |-> "scoring", stmt |-> next, left |-> {}, hit |-> 0]]
  /\ next' = next + 1
  /\ UNCHANGED <<speakerOf, lock, history, seen, flags, ctxDone>>

\* The verdict is out.  A statement that is not checkable, or whose speaker is
\* unknown, is neither compared nor remembered.
Scored(w) ==
  /\ det[w].pc = "scoring"
  /\ \/ det' = [det EXCEPT ![w] = Idle]
     \/ /\ Speaker(w) # Unknown
        /\ det' = [det EXCEPT ![w].pc = "lock"]
  /\ UNCHANGED <<speakerOf, next, lock, history, seen, flags, ctxDone>>

\* Mutant: detection for one speaker is not serialized.
LockNobody(w) ==
  /\ det[w].pc = "lock"
  /\ det' = [det EXCEPT ![w].pc = "prior"]
  /\ UNCHANGED <<speakerOf, next, lock, history, seen, flags, ctxDone>>

Lock(w) ==
  /\ det[w].pc = "lock"
  /\ lock[Speaker(w)] = NoWorker
  /\ lock' = [lock EXCEPT ![Speaker(w)] = w]
  /\ det' = [det EXCEPT ![w].pc = "prior"]
  /\ UNCHANGED <<speakerOf, next, history, seen, flags, ctxDone>>

Prior(w) ==
  /\ det[w].pc = "prior"
  /\ LET s == Speaker(w)
         i == det[w].stmt
     IN /\ seen' = [seen EXCEPT ![i] = Priors(s)]
        /\ det' = [det EXCEPT ![w].pc = "compare", ![w].left = Ranked(s, i)]
  /\ UNCHANGED <<speakerOf, next, lock, history, flags, ctxDone>>

\* The loop over the ranked priors: classifyStance waits for a slot.
Compare(w) ==
  /\ det[w].pc = "compare"
  /\ \/ /\ det[w].left = {}
        /\ det' = [det EXCEPT ![w].pc = "remember"]
     \/ /\ det[w].left # {}
        /\ Cardinality(InStance) < StanceSlots
        /\ det' = [det EXCEPT ![w].pc = "stance", ![w].hit = Closest(w),
                              ![w].left = @ \ {Closest(w)}]
     \/ /\ det[w].left # {}
        /\ ctxDone   \* classifyStance gives up: the next prior is tried
        /\ det' = [det EXCEPT ![w].left = @ \ {Closest(w)}]
  /\ UNCHANGED <<speakerOf, next, lock, history, seen, flags, ctxDone>>

\* The model answers: a contradiction, or none or an error.
Stance(w) ==
  /\ det[w].pc = "stance"
  /\ \/ det' = [det EXCEPT ![w].pc = "flag"]
     \/ det' = [det EXCEPT ![w].pc = "compare", ![w].hit = 0]
  /\ UNCHANGED <<speakerOf, next, lock, history, seen, flags, ctxDone>>

Flag(w) == [stmt |-> det[w].stmt, earlier |-> det[w].hit]

\* Mutant: the early return keeps the speaker's lock.
EmitFlagKeepsLock(w) ==
  /\ det[w].pc = "flag"
  /\ \/ /\ flags' = flags \cup {Flag(w)}
        /\ det' = [det EXCEPT ![w].pc = "remember"]
     \/ /\ ctxDone
        /\ det' = [det EXCEPT ![w] = Idle]
        /\ UNCHANGED flags
  /\ UNCHANGED <<speakerOf, next, lock, history, seen, ctxDone>>

\* The event is taken, or the session is over: then nothing is remembered.
EmitFlag(w) ==
  /\ det[w].pc = "flag"
  /\ \/ /\ flags' = flags \cup {Flag(w)}
        /\ det' = [det EXCEPT ![w].pc = "remember"]
        /\ UNCHANGED lock
     \/ /\ ctxDone
        /\ det' = [det EXCEPT ![w] = Idle]
        /\ lock' = Unlocked(w)
        /\ UNCHANGED flags
  /\ UNCHANGED <<speakerOf, next, history, seen, ctxDone>>

Remember(w) ==
  /\ det[w].pc = "remember"
  /\ history' = [history EXCEPT ![Speaker(w)] = Append(@, det[w].stmt)]
  /\ lock' = Unlocked(w)
  /\ det' = [det EXCEPT ![w] = Idle]
  /\ UNCHANGED <<speakerOf, next, seen, flags, ctxDone>>

Cancel ==
  /\ ~ctxDone
  /\ ctxDone' = TRUE
  /\ UNCHANGED <<speakerOf, next, det, lock, history, seen, flags>>

Detect(w) == \/ Scored(w) \/ Lock(w) \/ Prior(w) \/ Compare(w) \/ Stance(w)
             \/ EmitFlag(w) \/ Remember(w)

Next == \/ \E w \in Workers : Take(w) \/ Detect(w)
        \/ Cancel

Spec == Init /\ [][Next]_vars

(***************************************************************************)
(* A stance or scoring call returns (its client has a timeout), Go's       *)
(* mutexes and channels serve their waiters in turn (a detector waits for  *)
(* one of them at a time).                                                 *)
(***************************************************************************)
Fairness ==
  \A w \in Workers : WF_vars(Detect(w)) /\ SF_vars(Lock(w) \/ Compare(w))

FairSpec == Spec /\ Fairness

-----------------------------------------------------------------------------

\* Two statements of one speaker are always compared, in one order or the
\* other, however the workers interleave: the later one in the history ranked
\* the earlier one (speakerLock's promise).
NoPairMissed ==
  \A s \in Speakers : \A k, l \in 1 .. Len(history[s]) :
    k < l => history[s][k] \in seen[history[s][l]]

\* A flag links two different statements of one known speaker, and the one it
\* points to had been remembered when the flagged one was ranked.
FlagsAreSound ==
  \A f \in flags : /\ f.stmt # f.earlier
                   /\ speakerOf[f.stmt] # Unknown
                   /\ speakerOf[f.stmt] = speakerOf[f.earlier]
                   /\ f.earlier \in seen[f.stmt]

\* A statement is flagged at most once, against the closest contradiction.
OneFlagEach ==
  \A f, g \in flags : f.stmt = g.stmt => f = g

\* The memory is typed, its stance slots are never exceeded, every pair it
\* holds was compared, and what it flags is sound and flagged once.
MemorySound == TypeOK /\ NoPairMissed /\ FlagsAreSound /\ OneFlagEach

\* Nobody keeps a speaker's lock: a detection that starts ends.
DetectionEnds ==
  \A w \in Workers : (det[w].pc # "idle") ~> (det[w].pc = "idle")

\* consistency.go documents EarlierID as the speaker's own earlier statement.
EarlierWasSaidEarlier == \A f \in flags : f.earlier < f.stmt
==============================================================================
