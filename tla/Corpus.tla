------------------------------- MODULE Corpus -------------------------------
(***************************************************************************)
(* The evidence corpus and the commands that write it: the bulk sync of a  *)
(* Wikipedia dump, into the live table or through a staging table that is  *)
(* swapped in; the delta sync that follows recent changes; the ingest of   *)
(* statistics; and the embedding workers.  The crawl's worker, which       *)
(* writes the same table, is in Ingestion and not here.  The wiki is       *)
(* outside: a page changes or is deleted at a tick of the clock, and the   *)
(* tick is its new revision and the change's timestamp.                    *)
(***************************************************************************)
EXTENDS EmbedFleet

CONSTANTS
  Pages,        \* the wiki's pages
  StatDoc,      \* the one series of the statistics corpus
  StatTexts,    \* the passages it renders to over time
  Gone,         \* the revisions that are deletions
  MaxClock, MaxRuns,
  PageLimit,    \* rows per page of a keyset scan
  Retention,    \* the window recent changes cover
  DumpTimes,    \* when dumps come out
  FreshDumps,   \* a bulk run starts from a dump no older than the checkpoint
  Overlap       \* runs of different producers may overlap

ASSUME CorpusAssumption ==
  /\ Pages \subseteq Nat /\ StatDoc \in Nat \ Pages
  /\ MaxClock \in Nat \ {0} /\ DOMAIN Shape = 1..MaxClock /\ Gone \subseteq 2..MaxClock
  /\ {PageLimit, Retention} \subseteq Nat \ {0}

VARIABLES
  clock, history,   \* now, and when each page changed
  sync,             \* evidence_sync_state
  prod,             \* the bulk and the statistics run
  delta,            \* the delta run
  runs

runVars == <<clock, history, sync, prod, delta, runs>>
vars == <<fleetVars, runVars>>

Producers == {"bulk", "stats"}
NoProducer == [pc |-> "off", mode |-> "live", version |-> 0, todo |-> {}, half |-> {}, cursor |-> -1, page |-> {}]
NoSync == [version |-> 0, ts |-> 0]
NoDelta == [pc |-> "off", sync |-> NoSync, max |-> 0, edits |-> << >>, dels |-> {},
            revs |-> << >>, cursor |-> -1, batch |-> << >>]

Latest(p) == Max(history[p])
At(p, t) == Max({r \in history[p] : r <= t \/ r = 1})
DumpRevs(version) == [p \in {q \in Pages : At(q, version) \notin Gone} |-> At(p, version)]

(* A run of a producer, one of MaxRuns; unless Overlap, one at a time. *)
AllOff == delta.pc = "off" /\ \A p \in Producers : prod[p].pc = "off"
Begin == runs < MaxRuns /\ runs' = runs + 1 /\ (AllOff \/ Overlap)

Set(p, fields) == prod' = [prod EXCEPT ![p] = fields @@ @]
SetDelta(fields) == delta' = fields @@ delta
Off(p) == prod' = [prod EXCEPT ![p] = NoProducer]

Embedded(rows) == [k \in DOMAIN rows |-> [rows[k] EXCEPT !.vec = rows[k].text]]

(* Nothing is stored yet, or an earlier release left the corpus whole with a  *)
(* timestamped checkpoint.                                                    *)
Baselined == live = Embedded(AllChunks([p \in Pages |-> 1])) /\ sync = [version |-> 0, ts |-> 1]

Init ==
  /\ queue = EmptyBag /\ worker = [w \in Workers |-> Idle] /\ dropped = FALSE /\ faults = 0
  /\ (live = << >> /\ sync = NoSync) \/ Baselined
  /\ staging = NoStaging
  /\ clock = 1 /\ history = [p \in Pages |-> {1}]
  /\ prod = [p \in Producers |-> NoProducer] /\ delta = NoDelta /\ runs = 0

(* Time passes, and some pages change. *)
Edits(pages) ==
  /\ clock < MaxClock /\ clock' = clock + 1
  /\ history' = [p \in Pages |-> IF p \in pages THEN history[p] \cup {clock + 1} ELSE history[p]]
  /\ UNCHANGED <<fleetVars, sync, prod, delta, runs>>

-----------------------------------------------------------------------------
(* The bulk sync. *)

StagingPlan(version) ==
  IF staging.stamp # "none"
  THEN IF staging.stamp = "ready" /\ staging.version = version THEN "resume" ELSE "build"
  ELSE IF CurrentAt(sync, version, live) THEN "current" ELSE "build"

StartBulk(mode, version) ==
  LET plan == StagingPlan(version)
  IN /\ prod["bulk"].pc = "off" /\ Begin
     /\ FreshDumps => version >= sync.ts
     /\ plan # "current"
     /\ Set("bulk", [mode |-> mode, version |-> version, todo |-> DOMAIN DumpRevs(version),
                     pc |-> IF mode = "live" THEN "ingest" ELSE IF plan = "resume" THEN "publish" ELSE "reset"])
     /\ UNCHANGED <<fleetVars, clock, history, sync, delta>>

ResetStaging ==
  /\ prod["bulk"].pc = "reset"
  /\ staging' = [stamp |-> "building", version |-> prod["bulk"].version, rows |-> << >>]
  /\ Set("bulk", [pc |-> "ingest"])
  /\ UNCHANGED <<queue, worker, live, dropped, faults, clock, history, sync, delta, runs>>

Ingesting(mode) == prod["bulk"].pc = "ingest" /\ prod["bulk"].mode = mode
Revision(page) == DumpRevs(prod["bulk"].version)[page]

(* A stream of the dump, here a page, goes to the live table and then loses  *)
(* its stale tail; a page whose lead is empty is skipped.                    *)
UpsertLive(page) ==
  LET kept == Shape[Revision(page)] # << >>
  IN /\ Ingesting("live") /\ page \in prod["bulk"].todo
     /\ live' = Upserted(live, Chunks(page, Revision(page)))
     /\ Set("bulk", [todo |-> prod["bulk"].todo \ {page}, half |-> prod["bulk"].half \cup {x \in {page} : kept}])
     /\ UNCHANGED <<queue, worker, staging, dropped, faults, clock, history, sync, delta, runs>>

TrimLive(page) ==
  /\ Ingesting("live") /\ page \in prod["bulk"].half
  /\ live' = Trimmed(live, page :> Len(Shape[Revision(page)]))
  /\ Set("bulk", [half |-> prod["bulk"].half \ {page}])
  /\ UNCHANGED <<queue, worker, staging, dropped, faults, clock, history, sync, delta, runs>>

UpsertStaging(page) ==
  /\ Ingesting("atomic") /\ page \in prod["bulk"].todo
  /\ staging' = [staging EXCEPT !.rows = Over(@, Chunks(page, Revision(page)))]
  /\ Set("bulk", [todo |-> prod["bulk"].todo \ {page}])
  /\ UNCHANGED <<queue, worker, live, dropped, faults, clock, history, sync, delta, runs>>

Streamed == prod["bulk"].todo = {} /\ prod["bulk"].half = {} /\ DumpRevs(prod["bulk"].version) # << >>

CarryForward ==
  /\ Ingesting("atomic") /\ Streamed
  /\ staging' = [staging EXCEPT !.rows = CarriedForward(@, live)]
  /\ Set("bulk", [pc |-> "stamp"])
  /\ UNCHANGED <<queue, worker, live, dropped, faults, clock, history, sync, delta, runs>>

MarkStagingReady ==
  /\ prod["bulk"].pc = "stamp"
  /\ staging' = [staging EXCEPT !.stamp = "ready", !.version = prod["bulk"].version]
  /\ Set("bulk", [pc |-> "publish"])
  /\ UNCHANGED <<queue, worker, live, dropped, faults, clock, history, sync, delta, runs>>

(* What the dump's version says of its time: it is a date such as 20260601,   *)
(* which is no HTTP time, so the checkpoint keeps none.                       *)
DumpTime(version) == 0
Checkpoint(version) == [version |-> version, ts |-> DumpTime(version)]

RecordBulkLive ==
  /\ Ingesting("live") /\ Streamed
  /\ sync' = Checkpoint(prod["bulk"].version)
  /\ Set("bulk", [pc |-> "publish"])
  /\ UNCHANGED <<fleetVars, clock, history, delta, runs>>

(* The fleet has drained the staging table. *)
Drained ==
  /\ prod["bulk"].pc = "drain" /\ Unembedded(staging.rows) = {}
  /\ Set("bulk", [pc |-> "swap"])
  /\ UNCHANGED <<fleetVars, clock, history, sync, delta, runs>>

FinalizeStaging ==
  /\ prod["bulk"].pc = "swap" /\ Swappable(staging.rows)
  /\ live' = staging.rows /\ staging' = NoStaging
  /\ sync' = Checkpoint(prod["bulk"].version)
  /\ Off("bulk")
  /\ UNCHANGED <<queue, worker, dropped, faults, clock, history, delta, runs>>

Reset ==
  /\ Begin /\ AllOff
  /\ live' = << >> /\ staging' = NoStaging /\ sync' = NoSync
  /\ UNCHANGED <<queue, worker, dropped, faults, clock, history, prod, delta>>

-----------------------------------------------------------------------------
(* Statistics go to the live table as they are, under a corpus of their own. *)

StartStats(text) ==
  /\ prod["stats"].pc = "off" /\ Begin
  /\ live' = Upserted(live, Key(StatDoc, 0) :> Row(text, None, 0))
  /\ Set("stats", [pc |-> "publish"])
  /\ UNCHANGED <<queue, worker, staging, dropped, faults, clock, history, sync, delta>>

-----------------------------------------------------------------------------
(* Publishing, one page of un-embedded rows at a time. *)

Staged(p) == prod[p].mode = "atomic"
Table(p) == IF Staged(p) THEN staging.rows ELSE live
Scope(p) == IF p = "stats" THEN {k \in DOMAIN live : Doc(k) = StatDoc} ELSE DOMAIN Table(p)

ReadPage(p) ==
  LET keys == NextKeys(Table(p), Scope(p), prod[p].cursor, PageLimit)
  IN /\ prod[p].pc = "publish"
     /\ IF keys # {} THEN Set(p, [pc |-> "send", page |-> {Job(k, Table(p)[k].text, Staged(p), 0) : k \in keys}])
        ELSE IF Staged(p) THEN Set(p, [pc |-> "drain"])
        ELSE Off(p)
     /\ UNCHANGED <<fleetVars, clock, history, sync, delta, runs>>

SendPage(p) ==
  LET page == prod[p].page
  IN /\ prod[p].pc = "send"
     /\ queue' = Published(queue, page)
     /\ Set(p, [pc |-> "publish", page |-> {}, cursor |-> Max({j.key : j \in page})])
     /\ UNCHANGED <<worker, live, staging, dropped, faults, clock, history, sync, delta, runs>>

(* A producer may fail or be stopped wherever it is, a dump without pages, a  *)
(* stalled drain and a staging table that must not be swapped included.       *)
StopProducer(p) ==
  /\ prod[p].pc # "off" /\ Failing
  /\ queue' \in PublishedSome(queue, prod[p].page)
  /\ Off(p)
  /\ UNCHANGED <<worker, live, staging, dropped, clock, history, sync, delta, runs>>

-----------------------------------------------------------------------------
(* The delta sync. *)

StartDelta ==
  /\ delta.pc = "off" /\ Begin
  /\ sync.ts # 0 /\ clock - sync.ts <= Retention /\ staging.stamp = "none"
  /\ SetDelta([pc |-> "changes", sync |-> sync])
  /\ UNCHANGED <<fleetVars, clock, history, sync, prod>>

(* Recent changes since the checkpoint, the latest of each page. *)
RecentChanges ==
  LET changed == {p \in Pages : Latest(p) >= delta.sync.ts}
      edited == {p \in changed : Latest(p) \notin Gone}
  IN /\ delta.pc = "changes"
     /\ IF changed = {} THEN delta' = NoDelta
        ELSE SetDelta([pc |-> "fetch", max |-> Max({Latest(p) : p \in changed}),
                       edits |-> [p \in edited |-> Latest(p)], dels |-> changed \ edited])
     /\ UNCHANGED <<fleetVars, clock, history, sync, prod, runs>>

(* What the pages whose revision moved say by now. *)
Extracts ==
  LET refetch == {p \in DOMAIN delta.edits : StoredRevision(live, p) # delta.edits[p]}
      missing == {p \in refetch : Latest(p) \in Gone}
  IN /\ delta.pc = "fetch"
     /\ SetDelta([pc |-> "trim", revs |-> [p \in refetch \ missing |-> Latest(p)], dels |-> delta.dels \cup missing])
     /\ UNCHANGED <<fleetVars, clock, history, sync, prod, runs>>

DeltaTrim ==
  /\ delta.pc = "trim"
  /\ live' = Trimmed(live, [p \in DOMAIN delta.revs |-> Len(Shape[delta.revs[p]])])
  /\ SetDelta([pc |-> "upsert"])
  /\ UNCHANGED <<queue, worker, staging, dropped, faults, clock, history, sync, prod, runs>>

DeltaUpsert ==
  /\ delta.pc = "upsert"
  /\ live' = Upserted(live, AllChunks(delta.revs))
  /\ SetDelta([pc |-> "delete"])
  /\ UNCHANGED <<queue, worker, staging, dropped, faults, clock, history, sync, prod, runs>>

DeltaDelete ==
  /\ delta.pc = "delete"
  /\ live' = WithoutDocs(live, delta.dels)
  /\ SetDelta([pc |-> "embed"])
  /\ UNCHANGED <<queue, worker, staging, dropped, faults, clock, history, sync, prod, runs>>

(* It embeds what is pending itself, whoever left it. *)
DeltaRead ==
  LET keys == NextKeys(live, DOMAIN live, delta.cursor, PageLimit)
  IN /\ delta.pc = "embed"
     /\ IF keys = {} THEN SetDelta([pc |-> "checkpoint"])
        ELSE SetDelta([pc |-> "write", batch |-> [k \in keys |-> live[k].text]])
     /\ UNCHANGED <<fleetVars, clock, history, sync, prod, runs>>

DeltaWrite ==
  /\ delta.pc = "write"
  /\ live' = SetByKey(live, delta.batch)
  /\ SetDelta([pc |-> "embed", batch |-> << >>, cursor |-> Max(DOMAIN delta.batch)])
  /\ UNCHANGED <<queue, worker, staging, dropped, faults, clock, history, sync, prod, runs>>

\* Mutant: the checkpoint is the time the run ends.
CheckpointNow ==
  /\ delta.pc = "checkpoint"
  /\ sync' = [delta.sync EXCEPT !.ts = clock]
  /\ delta' = NoDelta
  /\ UNCHANGED <<fleetVars, clock, history, prod, runs>>

DeltaCheckpoint ==
  /\ delta.pc = "checkpoint"
  /\ sync' = [delta.sync EXCEPT !.ts = delta.max]
  /\ delta' = NoDelta
  /\ UNCHANGED <<fleetVars, clock, history, prod, runs>>

StopDelta ==
  /\ delta.pc # "off" /\ Failing
  /\ delta' = NoDelta
  /\ UNCHANGED <<queue, worker, live, staging, dropped, clock, history, sync, prod, runs>>

-----------------------------------------------------------------------------
BulkStep ==
  \/ \E mode \in {"live", "atomic"}, version \in DumpTimes \cap 1..clock : StartBulk(mode, version)
  \/ \E page \in Pages : UpsertLive(page) \/ TrimLive(page) \/ UpsertStaging(page)
  \/ ResetStaging \/ CarryForward \/ MarkStagingReady \/ RecordBulkLive \/ Drained \/ FinalizeStaging \/ Reset
DeltaStep ==
  \/ StartDelta \/ RecentChanges \/ Extracts \/ DeltaTrim \/ DeltaUpsert \/ DeltaDelete
  \/ DeltaRead \/ DeltaWrite \/ DeltaCheckpoint \/ StopDelta
ProducerStep ==
  \/ \E text \in StatTexts : StartStats(text)
  \/ \E p \in Producers : ReadPage(p) \/ SendPage(p) \/ StopProducer(p)

Next ==
  \/ FleetStep /\ UNCHANGED runVars
  \/ BulkStep \/ DeltaStep \/ ProducerStep
  \/ \E pages \in SUBSET {p \in Pages : Latest(p) \notin Gone} : Edits(pages)

Spec == Init /\ [][Next]_vars

(* A worker goes on with its batch and takes what waits. *)
FairSpec ==
  /\ Spec
  /\ \A w \in Workers :
       /\ WF_vars(Work(w) /\ UNCHANGED runVars)
       /\ WF_vars((\E job \in Waiting(queue) : Take(w, job)) /\ UNCHANGED runVars)

-----------------------------------------------------------------------------
AllTexts == UNION {Range(Shape[r]) : r \in DOMAIN Shape} \cup StatTexts
Tables == {live, staging.rows}

TypeOK ==
  /\ \A t \in Tables : \A k \in DOMAIN t :
       /\ Doc(k) \in Pages \cup {StatDoc} /\ t[k].text \in AllTexts /\ t[k].vec \in AllTexts \cup {None}
       /\ t[k].rev \in 0..clock
  /\ \A j \in Waiting(queue) \cup HeldJobs : j.text \in AllTexts /\ j.attempt \in 0..MaxAttempts - 1
  /\ \A w \in Workers : worker[w].phase # "collect" => worker[w].held # << >>
  /\ staging.stamp \in {"none", "building", "ready"} /\ (staging.stamp = "none" => staging = NoStaging)
  /\ sync.ts \in 0..clock /\ sync.version \in 0..clock

(* A vector belongs to the text of its row: a job that comes late, twice or   *)
(* for another revision never marks a row embedded with something else.       *)
VectorMatchesText == \A t \in Tables : \A k \in DOMAIN t : t[k].vec \in {None, t[k].text}

(* The newest row of a page still there is no older than the checkpoint says  *)
(* the corpus is, so what a delta run no longer asks for needs no refetch.    *)
Lost(r) == r \in Gone \/ Shape[r] = << >>
CheckpointHonest ==
  sync.ts # 0 => \A p \in Pages :
    LET r == At(p, sync.ts) IN (\A x \in history[p] : x >= r => ~Lost(x)) => StoredRevision(live, p) >= r

(* A swap installs the dump, the whole dump, every row of it embedded.        *)
SwapWhole ==
  [][staging.stamp # "none" /\ staging' = NoStaging /\ live' # << >> =>
       live' = Embedded(AllChunks(DumpRevs(sync'.version)))]_vars

(* When a run into the live table ends its publishing, every row still to     *)
(* embed has a job with its text, unless jobs have been given up.             *)
HasJob(k) == \E j \in Waiting(queue) \cup HeldJobs : j.key = k /\ j.text = live[k].text /\ ~j.staged
FinishesLive == prod["bulk"].pc = "publish" /\ prod["bulk"].mode = "live" /\ prod'["bulk"].pc = "off" /\ UNCHANGED faults
PublishedAll == [][FinishesLive /\ ~dropped => \A k \in Unembedded(live) : HasJob(k)]_vars

(* Types, rows that are never marked embedded with another text, and a         *)
(* checkpoint that promises no more than the table holds.                     *)
CorpusSound == TypeOK /\ VectorMatchesText /\ CheckpointHonest

(* A dump is in force whole, and what a live run leaves undone has its jobs.  *)
PublishedWhole == SwapWhole /\ PublishedAll

(* No page keeps a row from before the checkpoint: refuted, a bulk run that   *)
(* stops between a stream's upsert and its trim leaves a tail, and the delta  *)
(* sync takes the page for current because its newest row is.                 *)
NoStaleTail ==
  sync.ts # 0 => \A p \in Pages : \A k \in DOMAIN live :
    LET r == At(p, sync.ts) IN Doc(k) = p /\ (\A x \in history[p] : x >= r => ~Lost(x)) => live[k].rev >= r

(* A bulk run that finishes leaves no staging table behind to refuse the      *)
(* delta sync: refuted, a run into the live table never looks at it.          *)
StagingCleared == [][FinishesLive => staging.stamp = "none"]_vars

(* A swap leaves the rows of other sources alone: refuted.                    *)
OthersKept ==
  [][sync' # sync /\ sync'.version # 0 =>
       \A k \in DOMAIN live : Doc(k) = StatDoc => k \in DOMAIN live']_vars

(* After a bulk run the delta sync has a checkpoint to start from: refuted,   *)
(* none of them records a time.                                               *)
BaselineSet == [][sync' # sync /\ sync'.version # 0 => sync'.ts # 0]_vars

(* Every job is eventually done with: written, obsolete or given up on.       *)
QueueDrains == []<>(queue = EmptyBag /\ \A w \in Workers : worker[w] = Idle)
=============================================================================
