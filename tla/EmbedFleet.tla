----------------------------- MODULE EmbedFleet -----------------------------
(***************************************************************************)
(* The evidence tables and the embedding workers.                          *)
(*                                                                         *)
(* The statements of the evidence tables are operators on a table: a       *)
(* function from keys to rows.  A key stands for (source, document, chunk  *)
(* index) in the order of the primary key; a row keeps its text, the text  *)
(* its vector was computed from (None: NULL embedding) and its revision.   *)
(*                                                                         *)
(* A worker (internal/embedjob) collects a batch of deliveries, embeds it  *)
(* in one call, writes the vectors and acknowledges.  A batch whose call   *)
(* fails is embedded job by job; a failed job goes back to the queue with  *)
(* one more attempt, or is dropped when they are spent.  A worker that     *)
(* stops, or whose channel closes, gives back what it holds.               *)
(***************************************************************************)
EXTENDS Broker, Integers, Sequences, FiniteSets, FiniteSetsExt, Functions, SequencesExt

CONSTANTS
  Width,     \* room for chunk indices in a key
  Shape,     \* the chunk texts of each revision of a document
  None

ASSUME StoreAssumption == /\ Width \in Nat \ {0}
                          /\ \A r \in DOMAIN Shape : Len(Shape[r]) <= Width

Key(doc, i) == doc * Width + i
Doc(key) == key \div Width
Index(key) == key % Width

Row(text, vec, rev) == [text |-> text, vec |-> vec, rev |-> rev]
Over(table, rows) == [k \in DOMAIN table \cup DOMAIN rows |-> IF k \in DOMAIN rows THEN rows[k] ELSE table[k]]

(* What a document at a revision is cut into, not yet embedded. *)
Chunks(doc, rev) ==
  [k \in {Key(doc, i) : i \in 0..Len(Shape[rev]) - 1} |-> Row(Shape[rev][Index(k) + 1], None, rev)]
AllChunks(revs) == [k \in UNION {DOMAIN Chunks(d, revs[d]) : d \in DOMAIN revs} |-> Chunks(Doc(k), revs[Doc(k)])[k]]

(* A vector survives an upsert only if the text does. *)
KeptVector(table, k, text) ==
  IF k \in DOMAIN table /\ table[k].text = text THEN table[k].vec ELSE None
Upserted(table, rows) ==
  Over(table, [k \in DOMAIN rows |-> [rows[k] EXCEPT !.vec = KeptVector(table, k, rows[k].text)]])

UpsertedEmbedded(table, rows) ==
  Over(table, [k \in DOMAIN rows |-> [rows[k] EXCEPT !.vec = rows[k].text]])

Trimmed(table, from) ==
  Restrict(table, {k \in DOMAIN table : Doc(k) \in DOMAIN from => Index(k) < from[Doc(k)]})

WithoutDocs(table, docs) == Restrict(table, {k \in DOMAIN table : Doc(k) \notin docs})

StoredRevision(table, doc) == Max({0} \cup {table[k].rev : k \in {x \in DOMAIN table : Doc(x) = doc}})

Unembedded(table) == {k \in DOMAIN table : table[k].vec = None}

\* Mutant: the scan goes on after the key that follows the cursor.
SkippingKeys(table, scope, cursor, limit) ==
  LET after == {k \in Unembedded(table) \cap scope : k > cursor + 1}
  IN {k \in after : Cardinality({x \in after : x < k}) < limit}

(* One page of a keyset scan over the rows still to embed. *)
NextKeys(table, scope, cursor, limit) ==
  LET after == {k \in Unembedded(table) \cap scope : k > cursor}
  IN {k \in after : Cardinality({x \in after : x < k}) < limit}

(* The fleet's write: only a row that still holds the embedded text takes the vector. *)
SetGuarded(table, texts) ==
  [k \in DOMAIN table |-> IF <<k, table[k].text>> \in texts THEN [table[k] EXCEPT !.vec = table[k].text] ELSE table[k]]

(* The delta sync's write: the key alone decides. *)
SetByKey(table, texts) ==
  [k \in DOMAIN table |-> IF k \in DOMAIN texts THEN [table[k] EXCEPT !.vec = texts[k]] ELSE table[k]]

CarriedForward(staged, live) ==
  [k \in DOMAIN staged |-> [staged[k] EXCEPT !.vec = KeptVector(live, k, staged[k].text)]]

Swappable(staged) == staged # << >> /\ Unembedded(staged) = {}

CurrentAt(sync, version, table) == sync.version = version /\ Unembedded(table) = {}

-----------------------------------------------------------------------------
(* The fleet. *)
CONSTANTS Workers, BatchSize, MaxAttempts, MaxFaults

ASSUME FleetAssumption == BatchSize > 0 /\ MaxAttempts > 0 /\ MaxFaults \in Nat

VARIABLES
  queue,     \* embedding.jobs: a bag of jobs
  worker,    \* per worker: the batch it holds and how far it is
  live,      \* evidence_chunks
  staging,   \* the staging table with its stamp and version
  dropped,   \* a job was given up (history)
  faults     \* failures so far, at most MaxFaults

fleetVars == <<queue, worker, live, staging, dropped, faults>>

Job(key, text, staged, attempt) == [key |-> key, text |-> text, staged |-> staged, attempt |-> attempt]
Idle == [phase |-> "collect", held |-> << >>]
NoStaging == [stamp |-> "none", version |-> 0, rows |-> << >>]

Texts(jobs, staged) == {<<j.key, j.text>> : j \in {x \in Range(jobs) : x.staged = staged}}

(* Failures are free choices, MaxFaults of them; jobs on their last attempt   *)
(* may fail it beyond that.                                                   *)
Failing == faults < MaxFaults /\ faults' = faults + 1
FailingCall(w) == IF \A j \in Range(worker[w].held) : j.attempt = MaxAttempts - 1 THEN UNCHANGED faults ELSE Failing

Take(w, job) ==
  /\ worker[w].phase = "collect" /\ Len(worker[w].held) < BatchSize
  /\ queue' = Delivered(queue, job)
  /\ worker' = [worker EXCEPT ![w].held = Append(@, job)]
  /\ UNCHANGED <<live, staging, dropped, faults>>

(* The batch is full or its wait is over; when the one call for it fails, the *)
(* jobs are embedded one by one.                                             *)
EmbedBatch(w) ==
  /\ worker[w].phase = "collect" /\ worker[w].held # << >>
  /\ \/ worker' = [worker EXCEPT ![w].phase = "write"] /\ UNCHANGED faults
     \/ worker' = [worker EXCEPT ![w].phase = "single"] /\ FailingCall(w)
  /\ UNCHANGED <<queue, live, staging, dropped>>

(* The worker is done with the i-th job it holds. *)
Done(w, i) ==
  LET rest == RemoveAt(worker[w].held, i)
  IN worker' = [worker EXCEPT ![w] = IF rest = << >> THEN Idle ELSE [@ EXCEPT !.held = rest]]

(* A vector of the wrong shape drops its job. *)
BadShape(w, i) ==
  /\ worker[w].phase \in {"write", "single"} /\ (worker[w].phase = "single" => i = 1)
  /\ dropped' = TRUE /\ Done(w, i)
  /\ FailingCall(w) /\ UNCHANGED <<queue, live, staging>>

WriteRows(jobs) ==
  /\ live' = SetGuarded(live, Texts(jobs, FALSE))
  /\ staging' = [staging EXCEPT !.rows = SetGuarded(@, Texts(jobs, TRUE))]

(* The rows of the live table are written before those of the staging table. *)
WriteBatch(w) ==
  /\ worker[w].phase = "write"
  /\ \/ WriteRows(worker[w].held) /\ worker' = [worker EXCEPT ![w].phase = "ack"] /\ UNCHANGED faults
     \/ /\ live' \in {live, SetGuarded(live, Texts(worker[w].held, FALSE))} /\ UNCHANGED staging
        /\ worker' = [worker EXCEPT ![w].phase = "retry"] /\ FailingCall(w)
  /\ UNCHANGED <<queue, dropped>>

Acknowledge(w) ==
  /\ worker[w].phase = "ack"
  /\ worker' = [worker EXCEPT ![w] = Idle]
  /\ UNCHANGED <<queue, live, staging, dropped, faults>>

(* afterFailure and applyResult for the first job held: the retry is published *)
(* before the original is acknowledged, so either or both may be queued.       *)
AfterFailure(w) ==
  LET job == Head(worker[w].held)
      again == Published(queue, {[job EXCEPT !.attempt = @ + 1]})
  IN /\ IF job.attempt >= MaxAttempts - 1
        THEN dropped' = TRUE /\ UNCHANGED queue
        ELSE queue' \in {again, Requeued(queue, job), Requeued(again, job)} /\ UNCHANGED dropped
     /\ Done(w, 1)

RetryJob(w) ==
  /\ worker[w].phase = "retry" /\ AfterFailure(w)
  /\ UNCHANGED <<live, staging, faults>>

(* What failed the batch may fail a job on its own as well. *)
SingleJob(w) ==
  /\ worker[w].phase = "single"
  /\ \/ WriteRows(<<Head(worker[w].held)>>) /\ Done(w, 1) /\ UNCHANGED <<queue, dropped>>
     \/ AfterFailure(w) /\ UNCHANGED <<live, staging>>
  /\ UNCHANGED faults

(* A shutdown, a crash or a lost connection: the broker has the batch again,  *)
(* but for what was acknowledged before.                                      *)
StopWorker(w) ==
  /\ worker[w] # Idle /\ Failing
  /\ \E acked \in 0..(IF worker[w].phase = "ack" THEN Len(worker[w].held) - 1 ELSE 0) :
       queue' = ChannelClosed(queue, SubSeq(worker[w].held, acked + 1, Len(worker[w].held)))
  /\ worker' = [worker EXCEPT ![w] = Idle]
  /\ UNCHANGED <<live, staging, dropped>>

Work(w) == EmbedBatch(w) \/ WriteBatch(w) \/ Acknowledge(w) \/ RetryJob(w) \/ SingleJob(w)
FleetStep == \E w \in Workers :
  \/ Work(w) \/ StopWorker(w)
  \/ \E i \in DOMAIN worker[w].held : BadShape(w, i)
  \/ \E job \in Waiting(queue) : Take(w, job)

HeldJobs == UNION {Range(worker[w].held) : w \in Workers}
=============================================================================
