----------------------------- MODULE ClusterJob -----------------------------
(***************************************************************************)
(* cmd/wikicluster over the live evidence table: the job reads every       *)
(* embedded chunk a page at a time, groups them, and writes a group and an *)
(* importance beside each chunk in batches, while ingestion changes,       *)
(* embeds and deletes chunks.  The score a chunk got in a run stands for   *)
(* both, kept with the text it was computed from.  A bulk run lays out the *)
(* next corpus in a staging table and publishes what is left to embed with *)
(* the priority of the chunk's last score.                                 *)
(***************************************************************************)
EXTENDS Naturals, FiniteSets, FiniteSetsExt, Functions

CONSTANTS
  ChunkKeys, ChunkTexts,
  ReadBatch, ScoreBatch,
  MaxClusterRuns,
  MaxChanges,     \* writes of ingestion
  NoVector

ASSUME ClusterAssumption ==
  /\ ChunkKeys \subseteq Nat \ {0} /\ IsFiniteSet(ChunkKeys) /\ NoVector \notin ChunkTexts
  /\ {ReadBatch, ScoreBatch} \subseteq Nat \ {0} /\ {MaxClusterRuns, MaxChanges} \subseteq Nat

VARIABLES
  chunk,     \* the live table: the text and the vector (the text it is of) of a chunk
  score,     \* what the clustering wrote into a chunk's metadata
  staged,    \* the staging table: the same, without scores
  clustering,
  runsLeft, changes,
  settled    \* history: the chunks embedded with one text since the job started

clusterVars == <<chunk, score, staged, clustering, runsLeft, changes, settled>>

ChunkRow(text, vector) == [text |-> text, vector |-> vector]
NoClusterJob == [pc |-> "off", cursor |-> 0, scored |-> << >>]
EmbeddedIn(table) == {k \in DOMAIN table : table[k].vector # NoVector}
FirstOf(keys, limit) == {k \in keys : Cardinality({x \in keys : x < k}) < limit}
Without(f, keys) == Restrict(f, DOMAIN f \ keys)

InitCluster ==
  /\ chunk \in UNION {[some -> {ChunkRow(t, t) : t \in ChunkTexts}] : some \in SUBSET ChunkKeys}
  /\ score = << >> /\ staged = << >> /\ clustering = NoClusterJob
  /\ runsLeft = MaxClusterRuns /\ changes = 0 /\ settled = {}

-----------------------------------------------------------------------------
(* The clustering. *)
StartClustering ==
  /\ clustering.pc = "off" /\ runsLeft > 0 /\ runsLeft' = runsLeft - 1
  /\ clustering' = [NoClusterJob EXCEPT !.pc = "read"]
  /\ settled' = EmbeddedIn(chunk)
  /\ UNCHANGED <<chunk, score, staged, changes>>

\* Mutant: a page starts after as many rows as have been read.
ByOffset(cursor) == LET n == Cardinality(DOMAIN clustering.scored)
                    IN FirstOf(EmbeddedIn(chunk) \ FirstOf(EmbeddedIn(chunk), n), ReadBatch)

AfterCursor(cursor) == FirstOf({k \in EmbeddedIn(chunk) : k > cursor}, ReadBatch)

\* A page of EmbeddedChunks; a short one is the last.
ReadEmbedded ==
  LET page == AfterCursor(clustering.cursor)
      read == [k \in DOMAIN clustering.scored \cup page |-> IF k \in page THEN chunk[k].vector ELSE clustering.scored[k]]
  IN /\ clustering.pc = "read"
     /\ clustering' = IF Cardinality(page) = ReadBatch
               THEN [clustering EXCEPT !.cursor = Max(page), !.scored = read]
               ELSE IF read = << >> THEN NoClusterJob
               ELSE [pc |-> "write", cursor |-> 0, scored |-> read]
     /\ UNCHANGED <<chunk, score, staged, runsLeft, changes, settled>>

ClusteringOf(k) == [text |-> clustering.scored[k], run |-> runsLeft]

\* An update by key: a chunk that has gone stays gone.
SetChunkClustering(batch) ==
  LET there == batch \cap DOMAIN chunk
  IN score' = [k \in DOMAIN score \cup there |-> IF k \in there THEN ClusteringOf(k) ELSE score[k]]

WriteClustering ==
  LET left == {k \in DOMAIN clustering.scored : k > clustering.cursor}
      batch == FirstOf(left, ScoreBatch)
  IN /\ clustering.pc = "write"
     /\ SetChunkClustering(batch)
     /\ clustering' = IF batch = left THEN NoClusterJob ELSE [clustering EXCEPT !.cursor = Max(batch)]
     /\ UNCHANGED <<chunk, staged, runsLeft, changes, settled>>

\* A query fails or the process is stopped: what is written stays.
ClusteringFails ==
  /\ clustering.pc # "off" /\ changes < MaxChanges /\ changes' = changes + 1
  /\ clustering' = NoClusterJob
  /\ UNCHANGED <<chunk, score, staged, runsLeft, settled>>

-----------------------------------------------------------------------------
(* Ingestion. *)
Change == changes < MaxChanges /\ changes' = changes + 1 /\ UNCHANGED <<clustering, runsLeft>>

\* UpsertEvidenceChunk: a vector survives if the text does, a score survives.
Ingest(k, text) ==
  LET same == k \in DOMAIN chunk /\ chunk[k].text = text
  IN /\ Change /\ ~same
     /\ chunk' = [x \in DOMAIN chunk \cup {k} |-> IF x = k THEN ChunkRow(text, NoVector) ELSE chunk[x]]
     /\ settled' = settled \ {k} /\ UNCHANGED <<score, staged>>

Embed(k) ==
  /\ Change /\ k \in DOMAIN chunk \ EmbeddedIn(chunk)
  /\ chunk' = [chunk EXCEPT ![k].vector = chunk[k].text]
  /\ UNCHANGED <<score, staged, settled>>

Delete(k) ==
  /\ Change /\ k \in DOMAIN chunk
  /\ chunk' = Without(chunk, {k}) /\ score' = Without(score, {k})
  /\ settled' = settled \ {k} /\ UNCHANGED staged

\* The staging table of a bulk run, with the vectors of unchanged chunks carried forward.
LayOut(texts) ==
  /\ Change /\ staged = << >>
  /\ staged' = [k \in DOMAIN texts |->
                  ChunkRow(texts[k], IF k \in DOMAIN chunk /\ chunk[k].text = texts[k] THEN chunk[k].vector ELSE NoVector)]
  /\ UNCHANGED <<chunk, score, settled>>

\* The fleet has embedded it and it takes the live table's place, without scores.
Swap ==
  /\ Change /\ staged # << >>
  /\ chunk' = [k \in DOMAIN staged |-> ChunkRow(staged[k].text, staged[k].text)]
  /\ staged' = << >> /\ score' = << >>
  /\ settled' = {}

Layouts == UNION {[some -> ChunkTexts] : some \in SUBSET ChunkKeys} \ {<< >>}
NextCluster ==
  \/ StartClustering \/ ReadEmbedded \/ WriteClustering \/ ClusteringFails \/ Swap
  \/ \E k \in ChunkKeys : Embed(k) \/ Delete(k) \/ \E text \in ChunkTexts : Ingest(k, text)
  \/ \E texts \in Layouts : LayOut(texts)

ClusterSpec == InitCluster /\ [][NextCluster]_clusterVars

-----------------------------------------------------------------------------
ClusterTypeOK ==
  /\ DOMAIN chunk \subseteq ChunkKeys /\ \A k \in DOMAIN chunk : chunk[k].vector \in {NoVector, chunk[k].text}
  /\ DOMAIN score \subseteq DOMAIN chunk /\ clustering.pc \in {"off", "read", "write"}
  /\ DOMAIN clustering.scored \subseteq ChunkKeys /\ settled \subseteq EmbeddedIn(chunk)

(* When a run of the job ends by itself, every chunk that stayed embedded      *)
(* from its start has the score of this run, of its own text, whatever was     *)
(* ingested or deleted around it (clusterCorpus, readEmbedded).                *)
ClusteringEnds == clustering.pc # "off" /\ clustering'.pc = "off" /\ changes' = changes
ScoresSettled == \A k \in settled : k \in DOMAIN score' /\ score'[k] = [text |-> chunk[k].text, run |-> runsLeft]
ClustersAll == []ClusterTypeOK /\ [][ClusteringEnds => ScoresSettled]_clusterVars

(* The priority of a staged chunk left to embed (UnembeddedStaging): the score *)
(* of the live chunk with its identity and content.                            *)
PriorScore(k) == IF k \in DOMAIN chunk /\ chunk[k].text = staged[k].text /\ k \in DOMAIN score THEN score[k].text ELSE NoVector

(* "a chunk whose text changed does not inherit the stale importance of the    *)
(* old text": refuted, an ingest into the live table keeps the score of a      *)
(* chunk it gives a new text.                                                  *)
PriorOfItsText ==
  \A k \in DOMAIN staged : staged[k].vector = NoVector => PriorScore(k) \in {NoVector, staged[k].text}
=============================================================================
