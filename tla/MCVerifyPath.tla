---------------------------- MODULE MCVerifyPath -----------------------------
(***************************************************************************)
(* Two workers on two units, the first of which may be split into a claim  *)
(* the second one repeats (VerifyPath); and two callers of the client that *)
(* embeds texts (EmbedClient), whose replies have entries missing,         *)
(* repeated, out of range or too short.  The verify path knows of a call   *)
(* only its outcome, so the two share no state: a behaviour moves one of   *)
(* them, `part`, and leaves the other at rest, and a run pays their sum,   *)
(* not their product.                                                      *)
(***************************************************************************)
EXTENDS VerifyPath, EmbedClient, TLC

CONSTANTS w1, w2, c1, c3, s1, a, b

VARIABLE part

PairUnitOf == (c1 :> 1) @@ (c3 :> 2)
PairTextOf == (c1 :> "a") @@ (c3 :> "a")
OneSpeaker == [u \in 1 .. 2 |-> s1]

FastStates == {"credible", "unverifiable"}
Credible == [state |-> "credible", grounded |-> TRUE, deep |-> FALSE]
Deeper == [state |-> "unverifiable", grounded |-> TRUE, deep |-> TRUE]
DeepVerdicts == {Credible, Unverifiable, Deeper}

MCBatch == <<a, b>>
MCReplyEntries == [index : {0, 1}, wide : {TRUE}] \cup {[index |-> 2, wide |-> TRUE], [index |-> 0, wide |-> FALSE]}
MCBudgets == {1, 4, Unlimited}

VerifyMoves == part = "verify"
EmbedMoves  == part = "embed"

\* Both calls have returned.
EmbedAtRest ==
  /\ client = [c \in Callers |-> [pc |-> "done", attempt |-> 1, wait |-> 0, err |-> "none", out |-> Batch]]
  /\ budget = Unlimited /\ turn = 0 /\ gap = 0 /\ owed = [c \in Callers |-> 0]

InitBoth ==
  /\ part \in {"verify", "embed"}
  /\ Init /\ (EmbedMoves => mode = "second pass")
  /\ IF EmbedMoves THEN InitEmbed ELSE EmbedAtRest

NextBoth ==
  \/ VerifyMoves /\ Next /\ UNCHANGED <<part, embedVars>>
  \/ EmbedMoves /\ NextEmbed /\ UNCHANGED <<part, vars>>

\* Fairness and EmbedFairness, each while its part moves.
BothFair ==
  /\ \A w \in Workers : WF_vars(VerifyMoves /\ WorkerStep(w))
  /\ \A c \in Claims : WF_vars(VerifyMoves /\ ClaimStep(c))
  /\ WF_embedVars(EmbedMoves /\ Tick)
  /\ \A c \in Callers : WF_embedVars(EmbedMoves /\ CallStep(c))

BothSpec == InitBoth /\ [][NextBoth]_<<part, vars, embedVars>> /\ BothFair

\* Every claim gets its verdict, and every call for vectors returns.
CallsSettle == ClaimsSettle /\ CallsEnd
==============================================================================
