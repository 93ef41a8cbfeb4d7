---------------------------- MODULE LoginLimiter ----------------------------
(***************************************************************************)
(* internal/middleware/ratelimit.go: the limiter of login attempts, a      *)
(* token bucket per client.  Buckets are forgotten: by a sweep at most     *)
(* once in StaleAfter, when their last allowed attempt is as old, and one  *)
(* at a time when the map is full, if a sample of it holds one that is     *)
(* full again.  A tick is the time one token takes to come back.           *)
(***************************************************************************)
EXTENDS Naturals, FiniteSets, Functions

CONSTANTS Keys, Burst, StaleAfter, MaxBuckets, EvictSample

\* 5 tokens, one every 30 s: full again long before the 15 minutes of a sweep.
ASSUME LimiterAssumption ==
  /\ {Burst, MaxBuckets, EvictSample} \subseteq Nat \ {0}
  /\ StaleAfter \in Nat /\ Burst <= StaleAfter

VARIABLES
  buckets,      \* a client's tokens, and the age of its last allowed attempt
  sinceSweep    \* the age of the last sweep; both ages are capped at StaleAfter

limiterVars == <<buckets, sinceSweep>>

BucketRec == [tokens : 0 .. Burst, age : 0 .. StaleAfter]
Capped(n, cap) == IF n < cap THEN n + 1 ELSE n

InitLimiter == buckets = << >> /\ sinceSweep = StaleAfter

Tick ==
  /\ buckets' = [k \in DOMAIN buckets |->
                   [tokens |-> Capped(buckets[k].tokens, Burst), age |-> Capped(buckets[k].age, StaleAfter)]]
  /\ sinceSweep' = Capped(sinceSweep, StaleAfter)

\* Mutant: a sweep drops every bucket.
SweptAll == IF sinceSweep < StaleAfter THEN buckets ELSE << >>

Swept ==
  IF sinceSweep < StaleAfter THEN buckets
  ELSE Restrict(buckets, {k \in DOMAIN buckets : buckets[k].age < StaleAfter})
SweptAt == IF sinceSweep < StaleAfter THEN sinceSweep ELSE 0

\* evictRefilled: what it may leave of a full map, itself if the sample has no full bucket.
Refills(map) == {k \in DOMAIN map : map[k].tokens = Burst}
Evicted(map) ==
  {Restrict(map, DOMAIN map \ {k}) : k \in Refills(map)} \cup
  {m \in {map} : Cardinality(DOMAIN map \ Refills(map)) >= EvictSample \/ Refills(map) = {}}

\* The maps with room for a client, if room can be made.
Roomy(map, k) ==
  IF k \in DOMAIN map \/ Cardinality(DOMAIN map) < MaxBuckets THEN {map} ELSE Evicted(map)
HasRoom(map, k) == k \in DOMAIN map \/ Cardinality(DOMAIN map) < MaxBuckets
Tokens(map, k) == IF k \in DOMAIN map THEN map[k].tokens ELSE Burst
Spent(map, k) ==
  [x \in DOMAIN map \cup {k} |-> IF x = k THEN [tokens |-> Tokens(map, k) - 1, age |-> 0] ELSE map[x]]

\* One call of Allow, under the mutex from end to end.
Allow(k) ==
  \E map \in Roomy(Swept, k) :
    /\ HasRoom(map, k) /\ Tokens(map, k) > 0
    /\ buckets' = Spent(map, k) /\ sinceSweep' = SweptAt

Deny(k) ==
  \E map \in Roomy(Swept, k) :
    /\ ~HasRoom(map, k) \/ Tokens(map, k) = 0
    /\ buckets' = map /\ sinceSweep' = SweptAt

NextLimiter == Tick \/ \E k \in Keys : Allow(k) \/ Deny(k)
LimiterSpec == InitLimiter /\ [][NextLimiter]_limiterVars

-----------------------------------------------------------------------------
LimiterTypeOK ==
  /\ DOMAIN buckets \subseteq Keys /\ buckets \in [DOMAIN buckets -> BucketRec]
  /\ sinceSweep \in 0 .. StaleAfter

(* However many clients try, the limiter never holds more buckets than its    *)
(* cap, and a bucket it may forget by age is full again (evictRefilled,       *)
(* sweep).                                                                    *)
LimiterSound ==
  /\ LimiterTypeOK /\ Cardinality(DOMAIN buckets) <= MaxBuckets
  /\ \A k \in DOMAIN buckets : buckets[k].age >= StaleAfter => buckets[k].tokens = Burst

(* Forgetting a bucket never gives a client attempts back: the limiter is one  *)
(* that keeps a bucket for every client for good (evictRefilled, sweep).       *)
Endless == INSTANCE TokenBuckets WITH level <- [k \in Keys |-> Tokens(buckets, k)]
LimiterKeeps == Endless!BucketsSpec
=============================================================================
