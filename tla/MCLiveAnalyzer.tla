--------------------------- MODULE MCLiveAnalyzer ----------------------------
(***************************************************************************)
(* A small session: two speakers, texts that end a sentence or break off.  *)
(* Beside it the scans its sentence counts come from (TextScan), which     *)
(* share no state with it: in LiveSpec a behaviour moves one of the two,   *)
(* `part`, and leaves the other at rest.                                   *)
(***************************************************************************)
EXTENDS LiveAnalyzer, TextScan, TLC

CONSTANTS a, b, w1, w2

VARIABLE part

\* "One sentence." and "and then the" (two words at most make a sentence here).
Sentence == [stops |-> 1, words |-> 1, tail |-> 0]
Fragment == [stops |-> 0, words |-> 1, tail |-> 1]
\* Three sentences in one segment: alone above a cap of two.
Tirade == [stops |-> 3, words |-> 3, tail |-> 0]

MCSegments == {[speaker |-> a, shape |-> Sentence],
               [speaker |-> b, shape |-> Fragment],
               [speaker |-> Unknown, shape |-> Fragment]}
WideSegments == MCSegments \cup {[speaker |-> a, shape |-> Tirade]}

WorkerSymmetry == Permutations(Workers)

NextLive ==
  \/ part = "session" /\ Next /\ UNCHANGED <<part, scanVars>>
  \/ part = "scans" /\ NextScan /\ UNCHANGED <<part, vars>>

InitLive == part \in {"session", "scans"} /\ Init /\ InitScan
LiveSpec == InitLive /\ [][NextLive]_<<part, vars, scanVars>>

\* The session alone, as its goroutines are scheduled.
InitSession == part = "session" /\ Init /\ InitScan
SessionSpec == /\ InitSession /\ [][Next /\ UNCHANGED <<part, scanVars>>]_<<part, vars, scanVars>>
               /\ Fairness
==============================================================================
