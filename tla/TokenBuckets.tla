---------------------------- MODULE TokenBuckets ----------------------------
(***************************************************************************)
(* What a rate limiter promises: every key has a bucket of Burst tokens    *)
(* from the start and for good, a tick puts one token back, and an attempt *)
(* that is let through takes one.  Attempts may be turned down at will.    *)
(***************************************************************************)
EXTENDS Naturals

CONSTANTS Keys, Burst

VARIABLE level

InitBuckets == level = [k \in Keys |-> Burst]
Refilled(n) == IF n < Burst THEN n + 1 ELSE n
Refill == level' = [k \in Keys |-> Refilled(level[k])]
LetThrough(k) == level[k] > 0 /\ level' = [level EXCEPT ![k] = @ - 1]

NextBuckets == Refill \/ \E k \in Keys : LetThrough(k)
BucketsSpec == InitBuckets /\ [][NextBuckets]_level
=============================================================================
