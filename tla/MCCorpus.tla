------------------------------ MODULE MCCorpus ------------------------------
(***************************************************************************)
(* The corpus with its producers and fleet (Corpus), and the job that      *)
(* clusters what is embedded (ClusterJob, with its own image of the live   *)
(* and the staging table).  They share no state: a behaviour moves one of  *)
(* them, `part`, and leaves the other at rest, and a run pays their sum,   *)
(* not their product.                                                      *)
(***************************************************************************)
EXTENDS Corpus, ClusterJob

VARIABLE part

\* One page of two chunks that shrinks to another chunk and is deleted.
MCShape == <<<<"a", "b">>, <<"c">>, << >>>>
MCGone == {3}

CorpusMoves  == part = "corpus"
ClusterMoves == part = "cluster"

InitTables ==
  /\ part \in {"corpus", "cluster"}
  /\ Init /\ (CorpusMoves \/ live = << >>)
  /\ InitCluster /\ (ClusterMoves \/ chunk = << >>)

NextTables ==
  \/ CorpusMoves  /\ Next        /\ UNCHANGED <<part, clusterVars>>
  \/ ClusterMoves /\ NextCluster /\ UNCHANGED <<part, vars>>

TablesSpec == InitTables /\ [][NextTables]_<<part, vars, clusterVars>>
=============================================================================
