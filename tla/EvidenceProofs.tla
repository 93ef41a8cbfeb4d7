---------------------------- MODULE EvidenceProofs ----------------------------
(***************************************************************************)
(* Ingestion, for any items, rows, runs, workers and bounds: a published   *)
(* job is waiting, worked on, or settled.  What makes it inductive is the  *)
(* count of a job's failures (Tried): a delivery's attempt never exceeds   *)
(* it, so a worker that gives a job up has seen its budget spent.          *)
(* Judgment, for any hits, replies, answers and bounds: what a verdict     *)
(* cites was found for its own text, at every point of a claim's way       *)
(* (ClaimRight) and in the cache.                                          *)
(* DumpMirror, for any number of generations and mishaps: a run that ends  *)
(* has a dump and an index of one generation.  ClusterJob, for any batches:*)
(* a run that ends by itself has scored what stayed embedded, since the    *)
(* cursor of a page leaves nothing out below it (FirstKeys).               *)
(* Lifecycle, for any deploys and policy: the workers that a cleanup       *)
(* retires after it saw them work have nothing left to do, since a PRIMARY *)
(* that is old says that nobody posts to another version any more (PinsOK),*)
(* before and after the cleanup read the depths (ListedOK) and while it    *)
(* deletes (DoomedOK).                                                     *)
(***************************************************************************)
EXTENDS Adjudication, Ingestion, DumpMirror, ClusterJob, Lifecycle, FiniteSetTheorems, WellFoundedInduction, TLAPS

Revisions == 1 .. MaxEdits + 1
Deliveries == [item : Items, parts : {Parts} \cup {{p} : p \in Parts}, rev : Revisions,
               attempt : 0 .. MaxAttempts - 1]
SlotRec == [pc : {"idle", "work", "retry", "ack"}, job : Deliveries \cup {<<>>}, left : SUBSET Parts]
RunRec == [on : BOOLEAN, archive : Nat, todo : SUBSET Items, out : SUBSET Jobs]
Worlds == [Items -> Revisions]

\* The types.  The revision of an item is at most the number of archives.
FeedOK ==
  /\ source \in Sources /\ world \in Worlds
  /\ archives \in Seq(Worlds) /\ Len(archives) \in Revisions
  /\ \A i \in Items : world[i] <= Len(archives)
  /\ running \in BOOLEAN /\ runs \in [Slots -> RunRec] /\ marker \in 0 .. Len(archives)
QueueOK == queue \in [DOMAIN queue -> Nat \ {0}] /\ DOMAIN queue \subseteq Deliveries
FleetOK ==
  /\ slots \in [Workers -> SlotRec] /\ table \in [Items \X Parts -> 0 .. MaxEdits + 1]
  /\ sent \subseteq Jobs /\ failures \in [DOMAIN failures -> Nat \ {0}]

\* A run is the only one, and what a download is about is sent or still to send.
RunsRight ==
  \A n \in Slots : runs[n].on =>
    /\ running
    /\ \A m \in Slots : runs[m].on => m = n
    /\ source = "scrutins" /\ runs[n].todo = {} =>
         runs[n].archive \in 1 .. Len(archives) /\ ScrutinJobs(runs[n].archive) \subseteq sent \cup runs[n].out

\* A delivery has been tried as often as it says, and a worker at a job has
\* written the rows it is not to write any more.
Tried(task) == FailuresOf(Id(task)) >= task.attempt
SlotRight(s) ==
  /\ s.pc # "idle" => s.job \in Deliveries /\ Tried(s.job)
  /\ s.pc = "work" => /\ s.left # {} /\ s.left \subseteq s.job.parts
                      /\ \A p \in s.job.parts \ s.left : <<s.job.item, p, s.job.rev>> \in written
  /\ s.pc = "retry" => ~Spent(s.job) /\ FailuresOf(Id(s.job)) >= s.job.attempt + 1
SlotsRight == (\A w \in Workers : SlotRight(slots[w])) /\ \A task \in Waiting(queue) : Tried(task)

IngestionInv ==
  FeedOK /\ QueueOK /\ FleetOK /\ RunsRight /\ SlotsRight /\ PublishedIsKept /\ MarkerHonest

-----------------------------------------------------------------------------
(* Jobs and the queue.                                                     *)

LEMMA LeastNat ==
  ASSUME NEW T \in SUBSET Nat, T # {}
  PROVE  Min(T) \in T /\ \A y \in T : Min(T) <= y
<1>1. PICK x \in T : \A y \in T : ~(<<y, x>> \in OpToRel(<, Nat))
  BY NatLessThanWellFounded, WFMin
<1>2. ASSUME NEW y \in T PROVE x <= y
  <2>1. x \in Nat /\ y \in Nat
    OBVIOUS
  <2>2. ~(y < x)
    BY <1>1, <2>1 DEF OpToRel
  <2> QED BY <2>1, <2>2
<1> QED BY <1>2 DEF Min

LEMMA MinPart == Min(Parts) \in Parts
BY LeastNat, IngestionAssumption

LEMMA JobsAreDeliveries ==
  ASSUME NEW task \in Jobs
  PROVE  task \in Deliveries /\ Id(task) = task /\ task.attempt = 0
<1>1. PICK i \in Items, parts \in {Parts} \cup {{p} : p \in Parts}, rev \in Revisions : task = Job(i, parts, rev)
  BY DEF Jobs, Revisions
<1>2. task = [item |-> i, parts |-> parts, rev |-> rev, attempt |-> 0] /\ 0 \in 0 .. MaxAttempts - 1
  BY <1>1, IngestionAssumption DEF Job
<1> QED BY <1>2 DEF Deliveries, Id

LEMMA DeliveriesAreJobs ==
  ASSUME NEW d \in Deliveries
  PROVE  /\ Id(d) \in Jobs /\ Id(d).item = d.item /\ Id(d).parts = d.parts /\ Id(d).rev = d.rev
         /\ d.parts # {} /\ d.parts \subseteq Parts
<1>1. Id(d) = Job(d.item, d.parts, d.rev)
  BY DEF Id, Job, Deliveries
<1>2. d.item \in Items /\ d.parts \in {Parts} \cup {{p} : p \in Parts} /\ d.rev \in Revisions
  BY DEF Deliveries
<1>3. Id(d) \in Jobs
  BY <1>1, <1>2 DEF Jobs, Revisions
<1>4. Id(d).item = d.item /\ Id(d).parts = d.parts /\ Id(d).rev = d.rev
  BY <1>1 DEF Job
<1> QED BY <1>2, <1>3, <1>4, IngestionAssumption

LEMMA RetriedIsDelivery ==
  ASSUME NEW d \in Deliveries, ~Spent(d)
  PROVE  Retried(d) \in Deliveries /\ Id(Retried(d)) = Id(d) /\ Retried(d).attempt = d.attempt + 1
<1>1. d.attempt + 1 \in 0 .. MaxAttempts - 1
  BY IngestionAssumption DEF Deliveries, Spent
<1> QED BY <1>1 DEF Deliveries, Retried, Id

LEMMA QueueGrows ==
  ASSUME QueueOK, NEW jobs \in SUBSET Deliveries, queue' = Published(queue, jobs)
  PROVE  QueueOK' /\ Waiting(queue') = Waiting(queue) \cup jobs
BY DEF QueueOK, Published, Waiting, (+), SetToBag, BagToSet

LEMMA QueueShrinks ==
  ASSUME QueueOK, NEW d, queue' = Delivered(queue, d)
  PROVE  QueueOK' /\ Waiting(queue') \subseteq Waiting(queue) /\ Waiting(queue) \subseteq Waiting(queue') \cup {d}
<1> DEFINE B == [e \in DOMAIN queue |-> IF e \in {d} THEN queue[e] - 1 ELSE queue[e]]
<1>1. queue' = [e \in {c \in DOMAIN queue : B[c] > 0} |-> B[e]]
  BY DEF QueueOK, Delivered, (-), SetToBag
<1>2. \A e \in DOMAIN queue : B[e] \in Nat /\ (e # d => B[e] = queue[e] /\ B[e] > 0)
  BY DEF QueueOK
<1> HIDE DEF B
<1> QED BY <1>1, <1>2 DEF QueueOK, Waiting, BagToSet

LEMMA FailuresAreCounted == ASSUME FleetOK, NEW task PROVE FailuresOf(task) \in Nat
BY DEF FleetOK, FailuresOf, BagIn, BagToSet

\* A settled job stays settled.
LEMMA SettledStays ==
  ASSUME FleetOK, FleetOK', written \subseteq written', dropped \subseteq dropped', NEW task,
         FailuresOf(task) <= FailuresOf(task)', source' = source, Settled(task)
  PROVE  Settled(task)'
<1>1. FailuresOf(task) \in Nat /\ FailuresOf(task)' \in Nat
  <2>1. FailuresOf(task)' \in Nat
    BY DEF FleetOK, FailuresOf, BagIn, BagToSet
  <2> QED BY <2>1, FailuresAreCounted
<1> QED BY <1>1, IngestionAssumption DEF Settled, Unreadable

-----------------------------------------------------------------------------
(* The steps of the scheduler and its runs.                                *)

\* They leave the workers alone and may publish.
LEMMA FeedStep ==
  ASSUME IngestionInv, NEW jobs \in SUBSET Jobs, UNCHANGED <<source, fleet>>, sent' = sent \cup jobs,
         queue' = Published(queue, jobs) \/ (queue' = queue /\ jobs = {})
  PROVE  QueueOK' /\ FleetOK' /\ SlotsRight' /\ PublishedIsKept'
<1>1. UNCHANGED <<slots, table, written, failures, dropped>>
  BY DEF fleet
<1>2. QueueOK' /\ Waiting(queue') = Waiting(queue) \cup jobs
  <2>1. CASE queue' = queue /\ jobs = {}
    BY <2>1 DEF IngestionInv, QueueOK
  <2>2. CASE queue' = Published(queue, jobs)
    BY <2>2, JobsAreDeliveries, QueueGrows DEF IngestionInv
  <2> QED BY <2>1, <2>2
<1>3. FleetOK'
  BY <1>1 DEF IngestionInv, FleetOK
<1>4. \A task : FailuresOf(task)' = FailuresOf(task)
  BY <1>1 DEF FailuresOf
<1>5. SlotsRight'
  <2>1. \A w \in Workers : SlotRight(slots[w])'
    BY <1>1, <1>4 DEF IngestionInv, SlotsRight, SlotRight, Tried
  <2>2. ASSUME NEW task \in Waiting(queue') PROVE Tried(task)'
    <3>1. CASE task \in Waiting(queue)
      BY <1>4, <3>1 DEF IngestionInv, SlotsRight, Tried
    <3>2. CASE task \in jobs
      <4>1. task.attempt = 0 /\ Id(task) = task
        BY <3>2, JobsAreDeliveries
      <4>2. FailuresOf(task) \in Nat
        BY FailuresAreCounted DEF IngestionInv
      <4> QED BY <1>4, <4>1, <4>2 DEF Tried
    <3> QED BY <1>2, <3>1, <3>2
  <2> QED BY <2>1, <2>2 DEF SlotsRight
<1>6. PublishedIsKept'
  <2> SUFFICES ASSUME NEW task \in sent' PROVE (Settled(task) \/ Queued(task) \/ Holds(task))'
    BY DEF PublishedIsKept
  <2>1. CASE task \in sent
    <3>1. Settled(task)' <=> Settled(task)
      BY <1>1, <1>4 DEF Settled, Unreadable
    <3>2. Holds(task)' <=> Holds(task)
      BY <1>1 DEF Holds
    <3>3. Queued(task) => Queued(task)'
      BY <1>2 DEF Queued
    <3> QED BY <2>1, <3>1, <3>2, <3>3 DEF IngestionInv, PublishedIsKept
  <2>2. CASE task \in jobs
    <3>1. task \in Waiting(queue') /\ Id(task) = task
      BY <1>2, <2>2, JobsAreDeliveries
    <3> QED BY <3>1 DEF Queued
  <2> QED BY <2>1, <2>2
<1> QED BY <1>2, <1>3, <1>5, <1>6

\* A marker set before stays honest.
LEMMA HonestStays ==
  ASSUME IngestionInv, sent \subseteq sent', marker' = marker,
         \A a \in 1 .. Len(archives) : archives'[a] = archives[a]
  PROVE  MarkerHonest'
<1>1. marker > 0 => marker \in 1 .. Len(archives)
  BY DEF IngestionInv, FeedOK
<1> QED BY <1>1 DEF IngestionInv, MarkerHonest, ScrutinJobs

LEMMA EditKeeps == ASSUME IngestionInv, NEW i \in Items, Edit(i) PROVE IngestionInv'
<1> DEFINE n == Len(archives)
<1>1. /\ n <= MaxEdits /\ world' = [world EXCEPT ![i] = @ + 1] /\ archives' = Append(archives, world')
      /\ UNCHANGED <<source, running, runs, marker, queue, fleet, sent, faults>>
  BY DEF Edit
<1>2. n \in Nat /\ MaxEdits \in Nat /\ \A k \in Items : world[k] \in Nat /\ world[k] <= n
  BY IngestionAssumption DEF IngestionInv, FeedOK, Worlds, Revisions
<1>3. world' \in Worlds /\ \A k \in Items : world'[k] <= n + 1
  BY <1>1, <1>2 DEF IngestionInv, FeedOK, Worlds, Revisions
<1>4. archives' \in Seq(Worlds) /\ Len(archives') = n + 1 /\ \A a \in 1 .. n : archives'[a] = archives[a]
  BY <1>1, <1>3 DEF IngestionInv, FeedOK
<1>5. FeedOK'
  <2>1. n + 1 \in Revisions /\ marker' \in 0 .. n + 1
    BY <1>1, <1>2 DEF Revisions, IngestionInv, FeedOK
  <2> HIDE DEF n
  <2> QED BY <1>1, <1>3, <1>4, <2>1 DEF IngestionInv, FeedOK
<1>6. QueueOK' /\ FleetOK' /\ SlotsRight' /\ PublishedIsKept'
  <2>1. {} \in SUBSET Jobs /\ sent' = sent \cup {}
    BY <1>1
  <2> QED BY <1>1, <2>1, FeedStep
<1>7. RunsRight'
  BY <1>1, <1>2, <1>4 DEF IngestionInv, RunsRight, ScrutinJobs
<1>8. MarkerHonest'
  BY <1>1, <1>4, HonestStays
<1> QED BY <1>5, <1>6, <1>7, <1>8 DEF IngestionInv

\* Run n, the only one, goes on to r.
LEMMA RunStep ==
  ASSUME IngestionInv, NEW n \in Slots, NEW r \in RunRec, runs' = [runs EXCEPT ![n] = r],
         NEW jobs \in SUBSET Jobs, UNCHANGED fleet, sent' = sent \cup jobs,
         queue' = Published(queue, jobs) \/ (queue' = queue /\ jobs = {}),
         UNCHANGED <<source, world, archives>>, running' = r.on, runs[n].on \/ ~running,
         marker' \in 0 .. Len(archives), MarkerHonest',
         r.on /\ source = "scrutins" /\ r.todo = {} =>
           r.archive \in 1 .. Len(archives) /\ ScrutinJobs(r.archive) \subseteq sent' \cup r.out
  PROVE  IngestionInv'
<1>1. QueueOK' /\ FleetOK' /\ SlotsRight' /\ PublishedIsKept'
  BY FeedStep
<1>2. FeedOK'
  <2>1. runs' \in [Slots -> RunRec] /\ running' \in BOOLEAN
    BY DEF IngestionInv, FeedOK, RunRec
  <2> QED BY <2>1 DEF IngestionInv, FeedOK
<1>3. RunsRight'
  <2>1. runs'[n] = r /\ \A m \in Slots : m # n => runs'[m] = runs[m]
    BY DEF IngestionInv, FeedOK
  <2>2. \A m \in Slots : m # n => ~runs[m].on
    BY DEF IngestionInv, RunsRight
  <2> QED BY <2>1, <2>2 DEF RunsRight, ScrutinJobs
<1> QED BY <1>1, <1>2, <1>3 DEF IngestionInv

LEMMA TickKeeps == ASSUME IngestionInv, NEW n \in Slots, Tick(n) PROVE IngestionInv'
<1> DEFINE r == [NoRun EXCEPT !.on = TRUE, !.todo = Items]
<1>1. r \in RunRec /\ r.on = TRUE /\ r.todo # {}
  BY IngestionAssumption DEF RunRec, NoRun
<1>2. /\ running' = TRUE /\ runs' = [runs EXCEPT ![n] = r] /\ ~running
      /\ UNCHANGED <<source, world, archives, marker, queue, fleet, sent, faults>>
  BY DEF Tick
<1> HIDE DEF r
<1>3. MarkerHonest' /\ marker' \in 0 .. Len(archives)
  BY <1>2, HonestStays DEF IngestionInv, FeedOK
<1>4. {} \in SUBSET Jobs /\ sent' = sent \cup {}
  BY <1>2
<1> QED BY <1>1, <1>2, <1>3, <1>4, RunStep

\* What a run reads are jobs.
LEMMA JobsRead ==
  ASSUME IngestionInv, NEW i \in Items
  PROVE  /\ CrawlJobs(i) \subseteq Jobs /\ ClaimJobs(i) \subseteq Jobs
         /\ \A a \in 1 .. Len(archives) : ScrutinJobs(a) \subseteq Jobs
<1>1. world[i] \in Revisions /\ \A a \in 1 .. Len(archives) : archives[a] \in Worlds
  BY DEF IngestionInv, FeedOK, Worlds
<1>2. \A k \in Items, p \in Parts, rev \in Revisions :
        Job(k, {p}, rev) \in Jobs /\ Job(k, Parts, rev) \in Jobs
  BY DEF Jobs, Revisions
<1>3. CrawlJobs(i) \subseteq Jobs
  BY <1>1, <1>2 DEF CrawlJobs, CrawlJob
<1>4. ClaimJobs(i) \subseteq Jobs
  BY <1>1, <1>2, MinPart DEF ClaimJobs, ClaimJob
<1>5. ASSUME NEW a \in 1 .. Len(archives) PROVE ScrutinJobs(a) \subseteq Jobs
  BY <1>1, <1>2, MinPart DEF ScrutinJobs, ScrutinJob, Worlds
<1> QED BY <1>3, <1>4, <1>5

LEMMA ReadKeeps ==
  ASSUME IngestionInv, NEW n \in Slots, source # "scrutins", Reading(n), ReadOnly,
         NEW i \in runs[n].todo, NEW jobs \in SUBSET Jobs, ReadOut(n, i, jobs)
  PROVE  IngestionInv'
<1> DEFINE r == [runs[n] EXCEPT !.todo = @ \ {i}, !.out = jobs]
<1>1. runs' = [runs EXCEPT ![n] = r]
  BY DEF ReadOut, IngestionInv, FeedOK, RunRec
<1>2. r \in RunRec /\ r.on = TRUE /\ runs[n].on /\ running
  BY DEF IngestionInv, FeedOK, RunRec, Reading, RunsRight
<1> HIDE DEF r
<1>3. UNCHANGED <<source, world, archives, running, marker, queue, fleet, sent>>
  BY DEF ReadOnly
<1>4. MarkerHonest' /\ marker' \in 0 .. Len(archives)
  BY <1>3, HonestStays DEF IngestionInv, FeedOK
<1>5. {} \in SUBSET Jobs /\ sent' = sent \cup {}
  BY <1>3
<1> QED BY <1>1, <1>2, <1>3, <1>4, <1>5, RunStep

LEMMA CrawlReadKeeps == ASSUME IngestionInv, NEW n \in Slots, CrawlRead(n) PROVE IngestionInv'
<1>1. PICK i \in runs[n].todo : \E keep \in SUBSET CrawlJobs(i) : ReadOut(n, i, keep)
  BY DEF CrawlRead, Gated
<1>2. i \in Items
  BY DEF IngestionInv, FeedOK, RunRec
<1>3. PICK keep \in SUBSET CrawlJobs(i) : ReadOut(n, i, keep)
  BY <1>1
<1>4. keep \in SUBSET Jobs
  BY <1>2, JobsRead
<1> QED BY <1>3, <1>4, ReadKeeps DEF CrawlRead

LEMMA ClaimReadKeeps == ASSUME IngestionInv, NEW n \in Slots, ClaimRead(n) PROVE IngestionInv'
<1>1. PICK i \in runs[n].todo : ReadOut(n, i, ClaimJobs(i))
  BY DEF ClaimRead
<1>2. i \in Items
  BY DEF IngestionInv, FeedOK, RunRec
<1>3. ClaimJobs(i) \in SUBSET Jobs
  BY <1>2, JobsRead
<1> QED BY <1>1, <1>3, ReadKeeps DEF ClaimRead

LEMMA DownloadKeeps == ASSUME IngestionInv, NEW n \in Slots, Download(n) PROVE IngestionInv'
<1> DEFINE a == Len(archives)
           out == IF marker = a THEN {} ELSE ScrutinJobs(a)
           r == [runs[n] EXCEPT !.todo = {}, !.archive = a, !.out = out]
<1>1. /\ runs' = [runs EXCEPT ![n] = r] /\ runs[n].on
      /\ UNCHANGED <<source, world, archives, running, marker, queue, fleet, sent, faults>>
  BY DEF Download, Reading, IngestionInv, FeedOK, RunRec
<1>2. a \in 1 .. Len(archives) /\ a \in Nat /\ a > 0
  BY IngestionAssumption DEF IngestionInv, FeedOK, Revisions
<1>3. out \subseteq Jobs
  <2>1. PICK i : i \in Items
    BY IngestionAssumption
  <2> QED BY <1>2, <2>1, JobsRead
<1>4. ScrutinJobs(a) \subseteq sent \cup out
  BY <1>2 DEF IngestionInv, MarkerHonest
<1> HIDE DEF a, out
<1>5. r \in RunRec /\ r.on = TRUE /\ r.archive = a /\ r.out = out /\ running
  BY <1>1, <1>2, <1>3 DEF IngestionInv, FeedOK, RunRec, RunsRight
<1> HIDE DEF r
<1>6. MarkerHonest' /\ marker' \in 0 .. Len(archives)
  BY <1>1, HonestStays DEF IngestionInv, FeedOK
<1>7. {} \in SUBSET Jobs /\ sent' = sent \cup {}
  BY <1>1
<1> QED BY <1>1, <1>2, <1>4, <1>5, <1>6, <1>7, RunStep

LEMMA PublishKeeps == ASSUME IngestionInv, NEW n \in Slots, Publish(n) PROVE IngestionInv'
<1>1. PICK task \in runs[n].out :
        /\ queue' = Published(queue, {task}) /\ sent' = sent \cup {task}
        /\ runs' = [runs EXCEPT ![n].out = @ \ {task}]
  BY DEF Publish
<1>2. runs[n].on /\ UNCHANGED <<source, world, archives, running, marker, fleet, faults>>
  BY DEF Publish
<1> DEFINE r == [runs[n] EXCEPT !.out = @ \ {task}]
<1>3. runs' = [runs EXCEPT ![n] = r]
  BY <1>1 DEF IngestionInv, FeedOK, RunRec
<1>4. /\ r \in RunRec /\ r.on = TRUE /\ running /\ r.archive = runs[n].archive /\ r.todo = runs[n].todo
      /\ runs[n].out = r.out \cup {task} /\ {task} \in SUBSET Jobs
  BY <1>1, <1>2 DEF IngestionInv, FeedOK, RunRec, RunsRight
<1>5. source = "scrutins" /\ runs[n].todo = {} =>
        runs[n].archive \in 1 .. Len(archives) /\ ScrutinJobs(runs[n].archive) \subseteq sent \cup runs[n].out
  BY <1>2 DEF IngestionInv, RunsRight
<1> HIDE DEF r
<1>6. MarkerHonest' /\ marker' \in 0 .. Len(archives)
  BY <1>1, <1>2, HonestStays DEF IngestionInv, FeedOK
<1> QED BY <1>1, <1>2, <1>3, <1>4, <1>5, <1>6, RunStep

LEMMA FinishKeeps == ASSUME IngestionInv, NEW n \in Slots, Finish(n) PROVE IngestionInv'
<1>1. /\ runs[n].on /\ runs[n].out = {} /\ runs[n].todo = {} /\ running' = FALSE
      /\ runs' = [runs EXCEPT ![n] = NoRun] /\ UNCHANGED <<source, world, archives, queue, fleet, sent, faults>>
      /\ marker' \in IF source = "scrutins" THEN {runs[n].archive, marker} ELSE {marker}
  BY DEF Finish, Over
<1>2. NoRun \in RunRec /\ NoRun.on = FALSE
  BY DEF NoRun, RunRec
<1>3. {} \in SUBSET Jobs /\ sent' = sent \cup {}
  BY <1>1
<1>4. MarkerHonest' /\ marker' \in 0 .. Len(archives)
  <2>1. CASE marker' = marker
    BY <1>1, <2>1, HonestStays DEF IngestionInv, FeedOK
  <2>2. CASE source = "scrutins" /\ marker' = runs[n].archive
    <3>1. runs[n].archive \in 1 .. Len(archives) /\ ScrutinJobs(runs[n].archive) \subseteq sent
      BY <1>1, <2>2 DEF IngestionInv, RunsRight
    <3>2. 1 .. Len(archives) \subseteq 0 .. Len(archives)
      BY DEF IngestionInv, FeedOK, Revisions
    <3> QED BY <1>1, <2>2, <3>1, <3>2 DEF MarkerHonest, ScrutinJobs
  <2> QED BY <1>1, <2>1, <2>2
<1> QED BY <1>1, <1>2, <1>3, <1>4, RunStep

LEMMA AbortKeeps == ASSUME IngestionInv, NEW n \in Slots, Abort(n) PROVE IngestionInv'
<1>1. /\ runs[n].on /\ running' = FALSE /\ runs' = [runs EXCEPT ![n] = NoRun]
      /\ UNCHANGED <<source, world, archives, marker, fleet>>
  BY DEF Abort, Over
<1>2. PICK some \in SUBSET runs[n].out : queue' = Published(queue, some) /\ sent' = sent \cup some
  BY DEF Abort
<1>3. NoRun \in RunRec /\ NoRun.on = FALSE /\ some \in SUBSET Jobs
  BY DEF NoRun, RunRec, IngestionInv, FeedOK
<1>4. MarkerHonest' /\ marker' \in 0 .. Len(archives)
  BY <1>1, <1>2, HonestStays DEF IngestionInv, FeedOK
<1> QED BY <1>1, <1>2, <1>3, <1>4, RunStep

-----------------------------------------------------------------------------
(* The steps of the workers.                                               *)

\* Worker w goes on to slot s.  No job it held, or that was queued, is let go
\* of but for one that is settled.
LEMMA FleetStep ==
  ASSUME IngestionInv, NEW w \in Workers, NEW s \in SlotRec, Slot(w, s), FleetOnly,
         QueueOK', table' \in [Items \X Parts -> 0 .. MaxEdits + 1], failures' \in [DOMAIN failures' -> Nat \ {0}],
         written \subseteq written', dropped \subseteq dropped', \A task : FailuresOf(task) <= FailuresOf(task)',
         SlotRight(slots[w])', \A task \in Waiting(queue') : task \in Waiting(queue) \/ Tried(task)',
         \A task \in Waiting(queue) : task \in Waiting(queue') \/ (s.pc \in {"work", "retry"} /\ s.job = task),
         \A task : slots[w].pc \in {"work", "retry"} /\ Id(slots[w].job) = task =>
                   Settled(task)' \/ Queued(task)' \/ (s.pc \in {"work", "retry"} /\ Id(s.job) = task)
  PROVE  IngestionInv'
<1>1. UNCHANGED <<source, world, archives, running, runs, marker, sent>>
  BY DEF FleetOnly, feed
<1>2. slots' \in [Workers -> SlotRec] /\ slots'[w] = s /\ \A v \in Workers : v # w => slots'[v] = slots[v]
  BY DEF Slot, IngestionInv, FleetOK
<1>3. FleetOK'
  BY <1>1, <1>2 DEF IngestionInv, FleetOK
<1>4. \A task : FailuresOf(task) \in Nat /\ FailuresOf(task)' \in Nat
  BY <1>3 DEF IngestionInv, FleetOK, FailuresOf, BagIn, BagToSet
<1>5. ASSUME NEW d \in Deliveries, Tried(d) PROVE Tried(d)'
  BY <1>4, <1>5 DEF Tried, Deliveries
<1>6. SlotsRight'
  <2>1. ASSUME NEW v \in Workers, v # w PROVE SlotRight(slots[v])'
    <3>1. SlotRight(slots[v]) /\ slots'[v] = slots[v]
      BY <1>2, <2>1 DEF IngestionInv, SlotsRight
    <3>2. slots[v].pc # "idle" => slots[v].job \in Deliveries /\ Tried(slots[v].job)'
      BY <1>5, <3>1 DEF SlotRight
    <3>3. slots[v].pc = "retry" => FailuresOf(Id(slots[v].job))' >= slots[v].job.attempt + 1
      BY <1>4, <3>1 DEF SlotRight, Deliveries
    <3>4. PICK held : held = slots[v]
      OBVIOUS
    <3>5. slots'[v] = held
      BY <3>1, <3>4
    <3>6. SlotRight(held)'
      BY <3>1, <3>2, <3>3, <3>4 DEF SlotRight, Tried
    <3> QED BY <3>5, <3>6 DEF SlotRight, Tried
  <2>2. \A task \in Waiting(queue') : Tried(task)'
    BY <1>5 DEF IngestionInv, QueueOK, Waiting, BagToSet, SlotsRight
  <2> QED BY <2>1, <2>2 DEF SlotsRight
<1>7. PublishedIsKept'
  <2> SUFFICES ASSUME NEW task \in sent PROVE (Settled(task) \/ Queued(task) \/ Holds(task))'
    BY <1>1 DEF PublishedIsKept
  <2>1. CASE Settled(task)
    BY <1>1, <1>3, <2>1, SettledStays DEF IngestionInv
  <2>2. CASE Queued(task)
    <3>1. PICK q \in Waiting(queue) : Id(q) = task
      BY <2>2 DEF Queued
    <3>2. CASE q \in Waiting(queue')
      BY <3>1, <3>2 DEF Queued
    <3>3. CASE s.pc \in {"work", "retry"} /\ s.job = q
      BY <1>2, <3>1, <3>3 DEF Holds
    <3> QED BY <3>2, <3>3
  <2>3. CASE Holds(task)
    <3>1. PICK v \in Workers : slots[v].pc \in {"work", "retry"} /\ Id(slots[v].job) = task
      BY <2>3 DEF Holds
    <3>2. CASE v = w
      BY <1>2, <3>1, <3>2 DEF Holds
    <3>3. CASE v # w
      BY <1>2, <3>1, <3>3 DEF Holds
    <3> QED BY <3>2, <3>3
  <2> QED BY <2>1, <2>2, <2>3 DEF IngestionInv, PublishedIsKept
<1>8. FeedOK' /\ RunsRight'
  BY <1>1 DEF IngestionInv, FeedOK, RunsRight, ScrutinJobs
<1>9. MarkerHonest'
  BY <1>1, HonestStays
<1> QED BY <1>3, <1>6, <1>7, <1>8, <1>9 DEF IngestionInv

LEMMA CountsStand ==
  ASSUME IngestionInv, UNCHANGED failures
  PROVE  /\ failures' \in [DOMAIN failures' -> Nat \ {0}]
         /\ \A task : FailuresOf(task)' = FailuresOf(task) /\ FailuresOf(task) <= FailuresOf(task)'
<1>1. \A task : FailuresOf(task) \in Nat
  BY FailuresAreCounted DEF IngestionInv
<1>2. \A task : FailuresOf(task)' = FailuresOf(task)
  BY DEF FailuresOf
<1> QED BY <1>1, <1>2 DEF IngestionInv, FleetOK

LEMMA FreeSlot == Free \in SlotRec /\ Free.pc = "idle"
BY DEF Free, SlotRec

LEMMA ReceiveKeeps ==
  ASSUME IngestionInv, NEW w \in Workers, NEW task \in Waiting(queue), Receive(w, task)
  PROVE  IngestionInv'
<1> DEFINE s == [pc |-> "work", job |-> task, left |-> task.parts]
<1>1. /\ slots[w].pc = "idle" /\ queue' = Delivered(queue, task) /\ Slot(w, s) /\ FleetOnly
      /\ UNCHANGED <<table, written, failures, dropped>>
  BY DEF Receive
<1>2. task \in Deliveries /\ Tried(task) /\ task.parts # {} /\ task.parts \subseteq Parts
  BY DeliveriesAreJobs DEF IngestionInv, QueueOK, Waiting, BagToSet, SlotsRight
<1>3. s \in SlotRec /\ s.pc = "work" /\ s.job = task /\ s.left = task.parts
  BY <1>2 DEF SlotRec
<1> HIDE DEF s
<1>4. QueueOK' /\ Waiting(queue') \subseteq Waiting(queue) /\ Waiting(queue) \subseteq Waiting(queue') \cup {task}
  BY <1>1, QueueShrinks DEF IngestionInv
<1>5. slots'[w] = s
  BY <1>1 DEF Slot, IngestionInv, FleetOK
<1>6. SlotRight(slots[w])'
  BY <1>1, <1>2, <1>3, <1>5, CountsStand DEF SlotRight, Tried
<1> QED BY <1>1, <1>3, <1>4, <1>6, CountsStand, FleetStep DEF IngestionInv, FleetOK

\* What a worker at a job writes.
LEMMA RowWritten ==
  ASSUME IngestionInv, NEW task \in Deliveries, NEW p \in task.parts, Upserted(task, p)
  PROVE  /\ table' \in [Items \X Parts -> 0 .. MaxEdits + 1]
         /\ written' = written \cup {<<task.item, p, task.rev>>}
<1>1. task.item \in Items /\ p \in Parts /\ task.rev \in 0 .. MaxEdits + 1
  BY DeliveriesAreJobs, IngestionAssumption DEF Deliveries, Revisions
<1> QED BY <1>1 DEF Upserted, Row, IngestionInv, FleetOK

LEMMA SlotHeld ==
  ASSUME IngestionInv, NEW w \in Workers, slots[w].pc # "idle"
  PROVE  /\ slots[w] \in SlotRec /\ SlotRight(slots[w])
         /\ slots[w].job \in Deliveries /\ Tried(slots[w].job)
         /\ Id(slots[w].job) \in Jobs
  BY DeliveriesAreJobs DEF IngestionInv, FleetOK, SlotsRight, SlotRight

LEMMA LeastLeft ==
  ASSUME IngestionInv, NEW w \in Workers, slots[w].pc = "work"
  PROVE  Min(slots[w].left) \in slots[w].left /\ slots[w].left \subseteq slots[w].job.parts
<1> DEFINE left == slots[w].left
<1>1. left \subseteq slots[w].job.parts /\ left # {} /\ left \subseteq Nat
  BY SlotHeld, IngestionAssumption DEF SlotRight, SlotRec
<1> HIDE DEF left
<1>2. Min(left) \in left
  <2>1. PICK x \in left : \A y \in left : ~(<<y, x>> \in OpToRel(<, Nat))
    BY <1>1, NatLessThanWellFounded, WFMin
  <2>2. ASSUME NEW y \in left PROVE x <= y
    <3>1. x \in Nat /\ y \in Nat
      BY <1>1
    <3>2. ~(y < x)
      BY <2>1, <3>1 DEF OpToRel
    <3> QED BY <3>1, <3>2
  <2> QED BY <2>2 DEF Min
<1> QED BY <1>1, <1>2 DEF left

LEMMA WriteKeeps == ASSUME IngestionInv, NEW w \in Workers, Write(w) PROVE IngestionInv'
<1>0. PICK task : task = slots[w].job
  OBVIOUS
<1> DEFINE left == slots[w].left
           p == Min(left)
           s == IF left = {p} THEN [slots[w] EXCEPT !.pc = "ack", !.left = {}]
                ELSE [slots[w] EXCEPT !.left = @ \ {p}]
<1>1. /\ slots[w].pc = "work" /\ Upserted(task, p) /\ Slot(w, s) /\ FleetOnly
      /\ UNCHANGED <<queue, failures, dropped>>
  BY <1>0 DEF Write
<1>2. slots[w] \in SlotRec /\ SlotRight(slots[w]) /\ task \in Deliveries /\ p \in left /\ left \subseteq task.parts
  BY <1>0, <1>1, SlotHeld, LeastLeft
<1>3. /\ table' \in [Items \X Parts -> 0 .. MaxEdits + 1]
      /\ written' = written \cup {<<task.item, p, task.rev>>}
  BY <1>1, <1>2, RowWritten
<1>4. \A x \in task.parts \ (left \ {p}) : <<task.item, x, task.rev>> \in written'
  BY <1>0, <1>1, <1>2, <1>3 DEF SlotRight
<1>5. /\ s \in SlotRec /\ s.job = task
      /\ left = {p} => s.pc = "ack"
      /\ left # {p} => s.pc = "work" /\ s.left = left \ {p}
  BY <1>0, <1>1, <1>2 DEF SlotRec
<1>6. slots'[w] = s
  BY <1>1 DEF Slot, IngestionInv, FleetOK
<1> HIDE DEF s, left, p
<1>7. SlotRight(slots[w])'
  <2>1. Tried(task)
    BY <1>0, <1>1, SlotHeld
  <2> QED BY <1>0, <1>1, <1>2, <1>4, <1>5, <1>6, <2>1, CountsStand DEF SlotRight, Tried
<1>8. Settled(Id(task))' \/ (s.pc = "work" /\ s.job = task)
  <2>1. CASE left = {p}
    <3>1. \A x \in Id(task).parts : <<Id(task).item, x, Id(task).rev>> \in written'
      BY <1>2, <1>4, <2>1, DeliveriesAreJobs
    <3> QED BY <3>1 DEF Settled
  <2>2. CASE left # {p}
    BY <1>5, <2>2
  <2> QED BY <2>1, <2>2
<1>9. QueueOK'
  BY <1>1 DEF IngestionInv, QueueOK
<1> QED BY <1>0, <1>1, <1>3, <1>5, <1>7, <1>8, <1>9, CountsStand, FleetStep

\* One failure more.
LEMMA FailureCounts ==
  ASSUME IngestionInv, NEW task, failures' = failures (+) SetToBag({task})
  PROVE  /\ failures' \in [DOMAIN failures' -> Nat \ {0}]
         /\ FailuresOf(task)' = FailuresOf(task) + 1
         /\ \A other : FailuresOf(other) <= FailuresOf(other)'
<1>1. DOMAIN failures' = DOMAIN failures \cup {task}
  BY DEF (+), SetToBag
<1>2. \A e \in DOMAIN failures' :
        failures'[e] = FailuresOf(e) + (IF e = task THEN 1 ELSE 0)
  BY DEF (+), SetToBag, FailuresOf, BagIn, BagToSet
<1>3. \A e : FailuresOf(e) \in Nat
  BY FailuresAreCounted DEF IngestionInv
<1>4. \A e \in DOMAIN failures' : failures'[e] \in Nat \ {0}
  <2> SUFFICES ASSUME NEW e \in DOMAIN failures' PROVE failures'[e] \in Nat \ {0}
    OBVIOUS
  <2>1. CASE e = task
    <3>1. failures'[e] = FailuresOf(e) + 1 /\ FailuresOf(e) \in Nat
      BY <1>2, <1>3, <2>1
    <3> HIDE DEF FailuresOf
    <3> QED BY <3>1
  <2>2. CASE e # task
    <3>1. e \in DOMAIN failures /\ failures[e] \in Nat \ {0}
      BY <1>1, <2>2 DEF IngestionInv, FleetOK
    <3> QED BY <1>2, <2>2, <3>1 DEF FailuresOf, BagIn, BagToSet
  <2> QED BY <2>1, <2>2
<1>5. failures' = [e \in DOMAIN failures' |-> failures'[e]]
  BY DEF (+), SetToBag
<1>6. \A e : FailuresOf(e)' = IF e \in DOMAIN failures' THEN failures'[e] ELSE 0
  BY DEF FailuresOf, BagIn, BagToSet
<1>7. \A e : FailuresOf(e) # 0 => e \in DOMAIN failures
  BY DEF FailuresOf, BagIn, BagToSet
<1>8. FailuresOf(task)' = FailuresOf(task) + 1
  BY <1>1, <1>2, <1>6
<1>9. ASSUME NEW e PROVE FailuresOf(e) <= FailuresOf(e)'
  <2>1. PICK before, after : before = FailuresOf(e) /\ after = FailuresOf(e)'
    OBVIOUS
  <2>2. before \in Nat
    BY <1>3, <2>1
  <2>3. CASE e \in DOMAIN failures'
    <3>1. after = before + (IF e = task THEN 1 ELSE 0)
      BY <1>2, <1>6, <2>1, <2>3
    <3>2. before <= after
      BY <2>2, <3>1
    <3> QED BY <2>1, <3>2
  <2>4. CASE e \notin DOMAIN failures'
    <3>1. after = 0
      BY <1>6, <2>1, <2>4
    <3>2. before = 0
      BY <1>1, <1>7, <2>1, <2>4
    <3> QED BY <2>1, <3>1, <3>2
  <2> QED BY <2>3, <2>4
<1> QED BY <1>4, <1>5, <1>8, <1>9

LEMMA AfterFailureKeeps == ASSUME IngestionInv, NEW w \in Workers, AfterFailure(w) PROVE IngestionInv'
<1>0. PICK task : task = slots[w].job
  OBVIOUS
<1> DEFINE s == IF Spent(task) THEN Free ELSE [slots[w] EXCEPT !.pc = "retry"]
<1>1. /\ slots[w].pc = "work" /\ Slot(w, s) /\ FleetOnly /\ failures' = failures (+) SetToBag({Id(task)})
      /\ UNCHANGED <<queue, dropped>>
      /\ Upserted(task, Min(slots[w].left)) \/ UNCHANGED <<table, written>>
  BY <1>0 DEF AfterFailure
<1>2. slots[w] \in SlotRec /\ SlotRight(slots[w]) /\ task \in Deliveries /\ Tried(task)
  BY <1>0, <1>1, SlotHeld
<1>3. table' \in [Items \X Parts -> 0 .. MaxEdits + 1] /\ written \subseteq written'
  BY <1>0, <1>1, <1>2, LeastLeft, RowWritten DEF IngestionInv, FleetOK
<1>4. /\ failures' \in [DOMAIN failures' -> Nat \ {0}]
      /\ FailuresOf(Id(task))' = FailuresOf(Id(task)) + 1
      /\ \A other : FailuresOf(other) <= FailuresOf(other)'
  BY <1>1, FailureCounts
<1>5. FailuresOf(Id(task)) \in Nat /\ task.attempt \in Nat /\ FailuresOf(Id(task)) >= task.attempt
  BY <1>2, FailuresAreCounted DEF IngestionInv, Deliveries, Tried
<1>6. FailuresOf(Id(task))' >= task.attempt + 1
  BY <1>4, <1>5
<1>7. /\ s \in SlotRec /\ (Spent(task) => s.pc = "idle") /\ (~Spent(task) => s.pc = "retry" /\ s.job = task)
  BY <1>0, <1>2, FreeSlot DEF SlotRec
<1>8. slots'[w] = s
  BY <1>1 DEF Slot, IngestionInv, FleetOK
<1> HIDE DEF s
<1>9. SlotRight(slots[w])'
  BY <1>2, <1>4, <1>5, <1>6, <1>7, <1>8 DEF SlotRight, Tried
<1>10. Spent(task) => Settled(Id(task))'
  BY <1>4, <1>5, <1>6, IngestionAssumption DEF Settled, Spent
<1>11. QueueOK'
  BY <1>1 DEF IngestionInv, QueueOK
<1> QED BY <1>0, <1>1, <1>3, <1>4, <1>7, <1>9, <1>10, <1>11, FleetStep

LEMMA DiscardKeeps == ASSUME IngestionInv, NEW w \in Workers, Discard(w) PROVE IngestionInv'
<1>0. PICK task : task = slots[w].job
  OBVIOUS
<1>1. /\ slots[w].pc = "work" /\ Slot(w, Free) /\ FleetOnly /\ dropped' = dropped \cup {Id(task)}
      /\ source # "scrutins" /\ UNCHANGED <<queue, table, written, failures>>
  BY <1>0 DEF Discard
<1>2. QueueOK' /\ table' \in [Items \X Parts -> 0 .. MaxEdits + 1]
  BY <1>1 DEF IngestionInv, QueueOK, FleetOK
<1>3. slots'[w] = Free
  BY <1>1 DEF Slot, IngestionInv, FleetOK
<1>4. SlotRight(slots[w])'
  BY <1>3, FreeSlot DEF SlotRight
<1>5. Settled(Id(task))'
  BY <1>1 DEF Settled, FleetOnly, feed
<1> QED BY <1>0, <1>1, <1>2, <1>4, <1>5, FreeSlot, CountsStand, FleetStep

LEMMA RefuseKeeps == ASSUME IngestionInv, NEW w \in Workers, Refuse(w) PROVE IngestionInv'
<1>0. PICK task : task = slots[w].job
  OBVIOUS
<1> DEFINE s == [slots[w] EXCEPT !.pc = "ack", !.left = {}]
<1>1. /\ slots[w].pc = "work" /\ Slot(w, s) /\ FleetOnly /\ dropped' = dropped \cup {Id(task)}
      /\ Unreadable(task) /\ UNCHANGED <<queue, table, written, failures>>
  BY <1>0 DEF Refuse
<1>2. slots[w] \in SlotRec /\ task \in Deliveries /\ Tried(task)
  BY <1>0, <1>1, SlotHeld
<1>3. QueueOK' /\ table' \in [Items \X Parts -> 0 .. MaxEdits + 1]
  BY <1>1 DEF IngestionInv, QueueOK, FleetOK
<1>4. s \in SlotRec /\ s.pc = "ack" /\ s.job = task
  BY <1>0, <1>2 DEF SlotRec
<1>5. slots'[w] = s
  BY <1>1 DEF Slot, IngestionInv, FleetOK
<1> HIDE DEF s
<1>6. SlotRight(slots[w])'
  <2>1. Tried(task)'
    BY <1>1, <1>2 DEF Tried, FailuresOf
  <2> QED BY <1>2, <1>4, <1>5, <2>1 DEF SlotRight, Tried
<1>7. Settled(Id(task))'
  <2>1. Unreadable(Id(task))'
    BY <1>1, <1>2, DeliveriesAreJobs DEF Unreadable, FleetOnly, feed
  <2> QED BY <1>1, <2>1 DEF Settled
<1> QED BY <1>0, <1>1, <1>3, <1>4, <1>6, <1>7, CountsStand, FleetStep

LEMMA RetryKeeps == ASSUME IngestionInv, NEW w \in Workers, Retry(w) PROVE IngestionInv'
<1>0. PICK task : task = slots[w].job
  OBVIOUS
<1>1. slots[w].pc = "retry" /\ FleetOnly /\ UNCHANGED <<table, written, failures, dropped>>
  BY <1>0 DEF Retry
<1>2. slots[w] \in SlotRec /\ task \in Deliveries /\ Tried(task) /\ ~Spent(task) /\ FailuresOf(Id(task)) >= task.attempt + 1
  BY <1>0, <1>1, SlotHeld DEF SlotRight
<1>3. Retried(task) \in Deliveries /\ Id(Retried(task)) = Id(task) /\ Tried(Retried(task))
  BY <1>2, RetriedIsDelivery DEF Tried
<1>4. table' \in [Items \X Parts -> 0 .. MaxEdits + 1]
  BY <1>1 DEF IngestionInv, FleetOK
<1>5. Tried(task)' /\ Tried(Retried(task))'
  <2>1. \A e : FailuresOf(e)' = FailuresOf(e)
    BY <1>1, CountsStand
  <2> QED BY <1>1, <1>2, <1>3, <2>1 DEF Tried
<1>6. CASE queue' = Published(queue, {Retried(task)}) /\ Slot(w, [slots[w] EXCEPT !.pc = "ack"])
  <2> DEFINE s == [slots[w] EXCEPT !.pc = "ack"]
  <2>1. s \in SlotRec /\ s.pc = "ack" /\ s.job = task
    BY <1>0, <1>2 DEF SlotRec
  <2>2. slots'[w] = s
    BY <1>6 DEF Slot, IngestionInv, FleetOK
  <2>3. QueueOK' /\ Waiting(queue') = Waiting(queue) \cup {Retried(task)}
    BY <1>3, <1>6, QueueGrows DEF IngestionInv
  <2>4. Queued(Id(task))'
    BY <1>3, <2>3 DEF Queued
  <2>5. Slot(w, s)
    BY <1>6
  <2> HIDE DEF s
  <2>6. SlotRight(slots[w])'
    BY <1>2, <1>5, <2>1, <2>2 DEF SlotRight, Tried
  <2>7. \A q \in Waiting(queue') : q \in Waiting(queue) \/ Tried(q)'
    BY <1>5, <2>3
  <2> QED BY <1>0, <1>1, <1>4, <2>1, <2>3, <2>4, <2>5, <2>6, <2>7, CountsStand, FleetStep
<1>7. CASE \E q \in PublishedSome(queue, {Retried(task)}) : queue' = Requeued(q, task) /\ Slot(w, Free)
  <2>1. PICK some \in SUBSET {Retried(task)} : queue' = Requeued(Published(queue, some), task) /\ Slot(w, Free)
    BY <1>7 DEF PublishedSome
  <2>2. QueueOK' /\ Waiting(queue') = Waiting(queue) \cup some \cup {task}
    BY <1>2, <1>3, <2>1 DEF IngestionInv, QueueOK, Requeued, Published, Waiting, (+), SetToBag, BagToSet
  <2>3. Queued(Id(task))'
    BY <2>2 DEF Queued
  <2>4. slots'[w] = Free
    BY <2>1 DEF Slot, IngestionInv, FleetOK
  <2>5. SlotRight(slots[w])'
    BY <2>4, FreeSlot DEF SlotRight
  <2>6. \A q \in Waiting(queue') : q \in Waiting(queue) \/ Tried(q)'
    BY <1>5, <2>2
  <2> QED BY <1>0, <1>1, <1>4, <2>1, <2>2, <2>3, <2>5, <2>6, FreeSlot, CountsStand, FleetStep
<1> QED BY <1>0, <1>6, <1>7 DEF Retry

LEMMA AckKeeps == ASSUME IngestionInv, NEW w \in Workers, Ack(w) PROVE IngestionInv'
<1>1. /\ slots[w].pc = "ack" /\ Slot(w, Free) /\ FleetOnly /\ UNCHANGED <<queue, table, written, failures, dropped>>
  BY DEF Ack
<1>2. QueueOK' /\ table' \in [Items \X Parts -> 0 .. MaxEdits + 1]
  BY <1>1 DEF IngestionInv, QueueOK, FleetOK
<1>3. slots'[w] = Free
  BY <1>1 DEF Slot, IngestionInv, FleetOK
<1>4. SlotRight(slots[w])'
  BY <1>3, FreeSlot DEF SlotRight
<1> QED BY <1>1, <1>2, <1>4, FreeSlot, CountsStand, FleetStep

LEMMA InterruptKeeps == ASSUME IngestionInv, NEW w \in Workers, Interrupt(w) PROVE IngestionInv'
<1>0. PICK task : task = slots[w].job
  OBVIOUS
<1>1. /\ slots[w].pc # "idle" /\ Slot(w, Free) /\ FleetOnly /\ queue' = Requeued(queue, task)
      /\ UNCHANGED <<table, written, failures, dropped>>
  BY <1>0 DEF Interrupt
<1>2. task \in Deliveries /\ Tried(task)
  BY <1>0, <1>1, SlotHeld
<1>3. QueueOK' /\ Waiting(queue') = Waiting(queue) \cup {task}
  BY <1>1, <1>2 DEF IngestionInv, QueueOK, Requeued, Waiting, (+), SetToBag, BagToSet
<1>4. Queued(Id(task))'
  BY <1>3 DEF Queued
<1>5. table' \in [Items \X Parts -> 0 .. MaxEdits + 1]
  BY <1>1 DEF IngestionInv, FleetOK
<1>6. slots'[w] = Free
  BY <1>1 DEF Slot, IngestionInv, FleetOK
<1>7. SlotRight(slots[w])'
  BY <1>6, FreeSlot DEF SlotRight
<1>8. \A q \in Waiting(queue') : q \in Waiting(queue) \/ Tried(q)'
  <2>1. \A e : FailuresOf(e)' = FailuresOf(e)
    BY <1>1, CountsStand
  <2> QED BY <1>1, <1>2, <1>3, <2>1 DEF Tried
<1> QED BY <1>0, <1>1, <1>3, <1>4, <1>5, <1>7, <1>8, FreeSlot, CountsStand, FleetStep

-----------------------------------------------------------------------------
(* The theorems about ingestion.                                           *)

IngestionRuns == InitIngestion /\ [][NextIngestion]_ingestionVars

LEMMA IngestionInit == InitIngestion => IngestionInv
<1> SUFFICES ASSUME InitIngestion PROVE IngestionInv
  OBVIOUS
<1>1. world \in Worlds /\ archives = <<world>> /\ Len(archives) = 1 /\ \A i \in Items : world[i] = 1
  BY IngestionAssumption DEF InitIngestion, Worlds, Revisions
<1>2. NoRun \in RunRec /\ NoRun.on = FALSE
  BY DEF NoRun, RunRec
<1>3. FeedOK
  <2>1. archives \in Seq(Worlds) /\ 1 \in Revisions /\ 0 \in 0 .. Len(archives)
    BY <1>1, IngestionAssumption DEF Revisions
  <2>2. runs \in [Slots -> RunRec]
    BY <1>2 DEF InitIngestion
  <2>3. \A i \in Items : world[i] <= Len(archives)
    BY <1>1
  <2> QED BY <1>1, <2>1, <2>2, <2>3 DEF InitIngestion, FeedOK
<1>4. DOMAIN queue = {} /\ QueueOK
  BY DEF InitIngestion, QueueOK, EmptyBag, SetToBag
<1>5. FleetOK
  BY FreeSlot, IngestionAssumption DEF InitIngestion, FleetOK, EmptyBag, SetToBag
<1>6. RunsRight
  BY <1>2 DEF InitIngestion, RunsRight
<1>7. SlotsRight
  BY <1>4, FreeSlot DEF InitIngestion, SlotsRight, SlotRight, Waiting, BagToSet
<1>8. PublishedIsKept /\ MarkerHonest
  BY DEF InitIngestion, PublishedIsKept, MarkerHonest
<1> QED BY <1>3, <1>4, <1>5, <1>6, <1>7, <1>8 DEF IngestionInv

LEMMA IngestionStep == IngestionInv /\ [NextIngestion]_ingestionVars => IngestionInv'
<1> SUFFICES ASSUME IngestionInv, [NextIngestion]_ingestionVars PROVE IngestionInv'
  OBVIOUS
<1>1. CASE \E i \in Items : Edit(i)
  BY <1>1, EditKeeps
<1>2. CASE \E n \in Slots : Produce(n) \/ Abort(n)
  BY <1>2, TickKeeps, CrawlReadKeeps, ClaimReadKeeps, DownloadKeeps, PublishKeeps, FinishKeeps, AbortKeeps
     DEF Produce
<1>3. CASE \E w \in Workers, task \in Waiting(queue) : Receive(w, task)
  BY <1>3, ReceiveKeeps
<1>4. CASE \E w \in Workers : Process(w) \/ AfterFailure(w) \/ Discard(w) \/ Interrupt(w)
  BY <1>4, WriteKeeps, RefuseKeeps, RetryKeeps, AckKeeps, AfterFailureKeeps, DiscardKeeps, InterruptKeeps DEF Process
<1>5. CASE UNCHANGED ingestionVars
  <2>1. UNCHANGED <<source, world, archives, running, runs, marker, queue, slots, table, sent, written, failures, dropped>>
    BY <1>5 DEF ingestionVars, feed, fleet
  <2>2. FeedOK' /\ RunsRight' /\ MarkerHonest'
    BY <2>1 DEF IngestionInv, FeedOK, RunsRight, MarkerHonest, ScrutinJobs
  <2>3. QueueOK' /\ FleetOK'
    BY <2>1 DEF IngestionInv, QueueOK, FleetOK
  <2>4. \A task : FailuresOf(task)' = FailuresOf(task)
    BY <2>1 DEF FailuresOf
  <2>5. SlotsRight'
    BY <2>1, <2>4 DEF IngestionInv, SlotsRight, SlotRight, Tried
  <2>6. PublishedIsKept'
    BY <2>1, <2>4 DEF IngestionInv, PublishedIsKept, Settled, Unreadable, Queued, Holds
  <2> QED BY <2>2, <2>3, <2>5, <2>6 DEF IngestionInv
<1> QED BY <1>1, <1>2, <1>3, <1>4, <1>5 DEF NextIngestion

LEMMA InvIsSound == IngestionInv => IngestionSound
<1> SUFFICES ASSUME IngestionInv PROVE IngestionSound
  OBVIOUS
<1>1. /\ source \in Sources /\ world \in [Items -> 1 .. MaxEdits + 1] /\ marker \in 0 .. Len(archives)
      /\ running \in BOOLEAN /\ table \in [Items \X Parts -> 0 .. MaxEdits + 1] /\ sent \subseteq Jobs
  BY DEF IngestionInv, FeedOK, FleetOK, Worlds, Revisions
<1>2. \A n \in Slots : runs[n].todo \subseteq Items /\ runs[n].out \subseteq Jobs
  BY DEF IngestionInv, FeedOK, RunRec
<1>3. ASSUME NEW task \in Waiting(queue) PROVE Id(task) \in Jobs /\ task.attempt \in 0 .. MaxAttempts - 1
  <2>1. task \in Deliveries
    BY DEF IngestionInv, QueueOK, Waiting, BagToSet
  <2> QED BY <2>1, DeliveriesAreJobs DEF Deliveries
<1>4. \A w \in Workers : slots[w].pc \in {"idle", "work", "retry", "ack"}
  BY DEF IngestionInv, FleetOK, SlotRec
<1>5. RunsNeverStack
  BY DEF IngestionInv, RunsRight, RunsNeverStack
<1> QED BY <1>1, <1>2, <1>3, <1>4, <1>5 DEF IngestionSound, IngestionTypeOK, IngestionInv

\* Runs of a source never overlap, what they publish is never lost whatever
\* fails or stops, and the marker of an archive is set only when all of it was
\* published.
THEOREM IngestionIsSound == IngestionRuns => []IngestionSound
<1>1. IngestionRuns => []IngestionInv
  BY IngestionInit, IngestionStep, PTL DEF IngestionRuns
<1> QED BY <1>1, InvIsSound, PTL

-----------------------------------------------------------------------------
(* Judgment: the invariant.                                                *)

\* What a verdict cites was supplied and says what it quotes; a verifier's is
\* guarded.
Cited(v, ids) == \A q \in v.cites : q.exact /\ q.id \in ids
Grounded(v) == v.basis = "evidence" /\ v.cites # {}
Guarded(v, by) ==
  /\ by = "verifier" /\ v.basis = "evidence" => v.cites # {}
  /\ by \in {"verifier", "silence"} /\ v.basis = "knowledge" => v.conf \in 0 .. Cap

\* At each point of a claim's way: its passages were found for its text, the
\* verdict it takes to a second look is grounded, and the one it ends with is
\* cited and guarded.  ids are the passages found for its text.
ClaimRight(j, found) ==
  /\ j = [pc |-> j.pc, text |-> j.text, hits |-> j.hits, failed |-> FALSE, verdict |-> j.verdict, by |-> j.by]
  /\ j.pc \in Working \cup {"none", "done", "error"}
  /\ j.pc # "none" => j.text \in Texts
  /\ j.pc \in {"borrow", "route", "acquire", "verify", "reverify"} => \A h \in j.hits : h.id \in found[j.text]
  /\ j.pc = "borrow" => j.hits \subseteq Hits
  /\ j.pc = "reverify" => Grounded(j.verdict) /\ Cited(j.verdict, found[j.text])
  /\ j.pc = "done" => Cited(j.verdict, found[j.text]) /\ Guarded(j.verdict, j.by)

UnitPoints == {"idle", "gate", "decompose", "match", "claims", "done", "failed", "skipped"}
UnitOK ==
  /\ mode \in Modes /\ units \in 0 .. MaxUnits /\ callFaults \in 0 .. MaxCallFaults
  /\ unit = [pc |-> unit.pc, matches |-> unit.matches]
  /\ unit.pc \in UnitPoints /\ unit.matches \in Seq(Hits)
JobsOK ==
  /\ job = [i \in 1 .. MaxClaims |-> job[i]] /\ shown = [t \in Texts |-> shown[t]]
  /\ \A i \in 1 .. MaxClaims : ClaimRight(job[i], shown)
CacheOK ==
  /\ cache = [t \in Texts |-> cache[t]]
  /\ \A t \in Texts : cache[t] # None => Cited(cache[t], shown[t])
PoolOK == live \in 0 .. MaxLive /\ live + Cardinality(Holders) <= VerifySlots

JudgmentInv == UnitOK /\ JobsOK /\ CacheOK /\ PoolOK

-----------------------------------------------------------------------------
(* Numbers, sequences and sums.                                            *)

LEMMA LesserOfTwo ==
  ASSUME NEW a \in Int, NEW b \in Int
  PROVE  Min({a, b}) = IF a <= b THEN a ELSE b
<1>1. CASE a <= b
  <2>1. a \in {a, b} /\ \A y \in {a, b} : a <= y
    BY <1>1
  <2> QED BY <1>1, <2>1 DEF Min
<1>2. CASE b < a
  <2>1. b \in {a, b} /\ \A y \in {a, b} : b <= y
    BY <1>2
  <2> QED BY <1>2, <2>1 DEF Min
<1> QED BY <1>1, <1>2

LEMMA GreaterOfTwo ==
  ASSUME NEW a \in Int, NEW b \in Int
  PROVE  Max({a, b}) = IF a >= b THEN a ELSE b
<1>1. CASE a >= b
  <2>1. a \in {a, b} /\ \A y \in {a, b} : a >= y
    BY <1>1
  <2> QED BY <1>1, <2>1 DEF Max
<1>2. CASE b > a
  <2>1. b \in {a, b} /\ \A y \in {a, b} : b >= y
    BY <1>2
  <2> QED BY <1>2, <2>1 DEF Max
<1> QED BY <1>1, <1>2

LEMMA ConfidenceIsCapped ==
  ASSUME NEW c \in Int
  PROVE  CapKnowledgeConfidence(c) \in 0 .. Cap
<1>1. Min({c, 10}) \in Int /\ Min({c, 10}) <= 10
  BY LesserOfTwo
<1> DEFINE least == Min({c, 10})
<1>2. Max({0, least}) \in 0 .. 10
  <2> HIDE DEF least
  <2>1. least \in Int /\ least <= 10
    BY <1>1 DEF least
  <2> QED BY <2>1, GreaterOfTwo
<1>3. ClampConfidence(c) \in 0 .. 10
  BY <1>2 DEF ClampConfidence
<1> DEFINE clamped == ClampConfidence(c)
<1>4. Min({clamped, Cap}) \in 0 .. Cap
  <2>1. clamped \in Int /\ clamped >= 0 /\ Cap \in Int /\ Cap >= 0
    BY <1>3, AdjudicationAssumption
  <2> HIDE DEF clamped
  <2> QED BY <2>1, LesserOfTwo
<1> QED BY <1>4 DEF CapKnowledgeConfidence

LEMMA CutKeeps ==
  ASSUME NEW S, NEW s \in Seq(S), NEW n \in Nat
  PROVE  /\ Cut(s, n) \in Seq(S) /\ Len(Cut(s, n)) = (IF n <= Len(s) THEN n ELSE Len(s))
         /\ \A k \in 1 .. Len(Cut(s, n)) : Cut(s, n)[k] = s[k]
<1>1. Min({n, Len(s)}) = IF n <= Len(s) THEN n ELSE Len(s)
  BY LesserOfTwo
<1> DEFINE m == Min({n, Len(s)})
<1>2. m \in 0 .. Len(s)
  BY <1>1
<1>3. SubSeq(s, 1, m) \in Seq(S) /\ Len(SubSeq(s, 1, m)) = m /\ \A k \in 1 .. m : SubSeq(s, 1, m)[k] = s[k]
  <2> HIDE DEF m
  <2> QED BY <1>2
<1> QED BY <1>1, <1>3 DEF Cut

\* The equation of Total's sums, up to n.
Runs(w, f, n) == f = [k \in 0 .. n |-> IF k = 0 THEN 0 ELSE f[k - 1] + w[k]]

LEMMA SumsExist ==
  ASSUME NEW w, NEW n \in Nat
  PROVE  \E f : Runs(w, f, n)
<1> DEFINE Bad == {k \in Nat : ~ \E f : Runs(w, f, k)}
<1>1. Bad = {}
  <2> SUFFICES ASSUME Bad # {} PROVE FALSE
    OBVIOUS
  <2>1. PICK m \in Bad : \A k \in Bad : m <= k
    <3>1. Bad \in SUBSET Nat
      OBVIOUS
    <3> HIDE DEF Bad
    <3> QED BY <3>1, LeastNat
  <2>2. CASE m = 0
    <3> DEFINE f == [k \in 0 .. 0 |-> 0]
    <3>1. Runs(w, f, 0)
      BY DEF Runs
    <3> QED BY <2>1, <2>2, <3>1
  <2>3. CASE m # 0
    <3>1. m - 1 \in Nat /\ m - 1 \notin Bad
      BY <2>1, <2>3
    <3>2. PICK f : Runs(w, f, m - 1)
      BY <3>1
    <3> DEFINE g == [k \in 0 .. m |-> IF k = 0 THEN 0 ELSE f[k - 1] + w[k]]
    <3>3. \A k \in 0 .. m - 1 : g[k] = f[k]
      BY <3>1, <3>2 DEF Runs
    <3>4. Runs(w, g, m)
      <4>1. \A k \in 0 .. m : (IF k = 0 THEN 0 ELSE f[k - 1] + w[k]) = (IF k = 0 THEN 0 ELSE g[k - 1] + w[k])
        <5> HIDE DEF g
        <5>1. \A k \in 0 .. m : k # 0 => k - 1 \in 0 .. m - 1
          BY <3>1, <2>1
        <5> QED BY <3>3, <5>1
      <4> QED BY <4>1, Zenon DEF Runs
    <3> QED BY <2>1, <3>4
  <2> QED BY <2>2, <2>3
<1> QED BY <1>1

\* What a total is: the last of its running sums.
LEMMA TotalRuns ==
  ASSUME NEW w \in Seq(Int)
  PROVE  \E f \in [0 .. Len(w) -> Int] :
           /\ Total(w) = f[Len(w)] /\ f[0] = 0
           /\ \A k \in 1 .. Len(w) : f[k] = f[k - 1] + w[k]
<1>0. Len(w) \in Nat
  OBVIOUS
<1> DEFINE f == CHOOSE f : Runs(w, f, Len(w))
<1>1. Runs(w, f, Len(w))
  BY <1>0, SumsExist
<1>2. Total(w) = f[Len(w)]
  BY Zenon DEF Total, Runs
<1>3. \A k \in 0 .. Len(w) : f[k] = IF k = 0 THEN 0 ELSE f[k - 1] + w[k]
  <2> HIDE DEF f
  <2> QED BY <1>1 DEF Runs
<1> HIDE DEF f
<1> DEFINE Bad == {k \in 0 .. Len(w) : f[k] \notin Int}
<1>4. Bad = {}
  <2> SUFFICES ASSUME Bad # {} PROVE FALSE
    OBVIOUS
  <2>1. PICK m \in Bad : \A k \in Bad : m <= k
    <3>1. Bad \in SUBSET Nat
      OBVIOUS
    <3> HIDE DEF Bad
    <3> QED BY <3>1, LeastNat
  <2>2. f[m] = IF m = 0 THEN 0 ELSE f[m - 1] + w[m]
    BY <1>3, <2>1
  <2>3. m # 0
    BY <2>1, <2>2
  <2>4. m - 1 \in 0 .. Len(w) /\ m - 1 \notin Bad /\ m \in 1 .. Len(w)
    BY <2>1, <2>3
  <2> QED BY <2>1, <2>2, <2>3, <2>4
<1>5. f \in [0 .. Len(w) -> Int]
  BY <1>1, <1>4 DEF Runs
<1>6. f[0] = 0 /\ \A k \in 1 .. Len(w) : f[k] = f[k - 1] + w[k]
  BY <1>0, <1>3
<1> QED BY <1>2, <1>5, <1>6

\* Two sides of one list add up, whatever zeros follow it.
LEMMA SidesAddUp ==
  ASSUME NEW a \in Seq(Int), NEW b \in Seq(Int), NEW c \in Seq(Int), Len(a) = Len(b), Len(a) <= Len(c),
         \A k \in 1 .. Len(c) : c[k] = IF k <= Len(a) THEN a[k] + b[k] ELSE 0
  PROVE  Total(c) = Total(a) + Total(b)
<1>1. PICK f \in [0 .. Len(a) -> Int] :
        Total(a) = f[Len(a)] /\ f[0] = 0 /\ \A k \in 1 .. Len(a) : f[k] = f[k - 1] + a[k]
  BY TotalRuns
<1>2. PICK g \in [0 .. Len(b) -> Int] :
        Total(b) = g[Len(b)] /\ g[0] = 0 /\ \A k \in 1 .. Len(b) : g[k] = g[k - 1] + b[k]
  BY TotalRuns
<1>3. PICK h \in [0 .. Len(c) -> Int] :
        Total(c) = h[Len(c)] /\ h[0] = 0 /\ \A k \in 1 .. Len(c) : h[k] = h[k - 1] + c[k]
  BY TotalRuns
<1>0. Len(a) \in Nat /\ Len(b) \in Nat /\ Len(c) \in Nat
  OBVIOUS
<1> DEFINE upTo(k) == IF k <= Len(a) THEN k ELSE Len(a)
           Bad == {k \in 0 .. Len(c) : h[k] # f[upTo(k)] + g[upTo(k)]}
<1>4. Bad = {}
  <2> SUFFICES ASSUME Bad # {} PROVE FALSE
    OBVIOUS
  <2>1. PICK m \in Bad : \A k \in Bad : m <= k
    <3>1. Bad \in SUBSET Nat
      OBVIOUS
    <3> HIDE DEF Bad
    <3> QED BY <3>1, LeastNat
  <2>2. m # 0
    BY <1>0, <1>1, <1>2, <1>3, <2>1
  <2>3. m - 1 \in 0 .. Len(c) /\ m - 1 \notin Bad /\ m \in 1 .. Len(c)
    <3>1. m \in 0 .. Len(c)
      BY <2>1
    <3>2. m - 1 \in 0 .. Len(c) /\ m \in 1 .. Len(c) /\ ~(m <= m - 1)
      BY <1>0, <2>2, <3>1
    <3> HIDE DEF Bad
    <3> QED BY <2>1, <3>2
  <2>4. h[m] = h[m - 1] + c[m] /\ h[m - 1] = f[upTo(m - 1)] + g[upTo(m - 1)]
    BY <1>3, <2>3
  <2>5. CASE m <= Len(a)
    <3>1. f[m] = f[m - 1] + a[m] /\ g[m] = g[m - 1] + b[m] /\ c[m] = a[m] + b[m]
      <4>1. m \in 1 .. Len(a) /\ m \in 1 .. Len(b)
        BY <1>0, <2>3, <2>5
      <4>2. c[m] = a[m] + b[m]
        BY <2>3, <2>5
      <4> QED BY <1>1, <1>2, <4>1, <4>2
    <3>2. upTo(m) = m /\ upTo(m - 1) = m - 1
      BY <2>3, <2>5
    <3>3. f[m - 1] \in Int /\ g[m - 1] \in Int /\ a[m] \in Int /\ b[m] \in Int
      <4>1. m \in 1 .. Len(a) /\ m \in 1 .. Len(b) /\ m - 1 \in 0 .. Len(a) /\ m - 1 \in 0 .. Len(b)
        BY <1>0, <2>3, <2>5
      <4>2. f[m - 1] \in Int /\ g[m - 1] \in Int
        BY <4>1
      <4>3. a[m] \in Int /\ b[m] \in Int
        BY <4>1
      <4> QED BY <4>2, <4>3
    <3> HIDE DEF upTo, Bad
    <3>4. h[m] = f[m] + g[m]
      <4>1. h[m] = h[m - 1] + c[m] /\ h[m - 1] = f[m - 1] + g[m - 1]
        BY <2>4, <3>2
      <4> QED BY <3>1, <3>3, <4>1
    <3> QED BY <2>1, <3>2, <3>4 DEF Bad
  <2>6. CASE m > Len(a)
    <3>1. c[m] = 0 /\ upTo(m) = Len(a) /\ upTo(m - 1) = Len(a)
      BY <2>3, <2>6
    <3>2. f[Len(a)] \in Int /\ g[Len(a)] \in Int
      <4>1. Len(a) \in 0 .. Len(a) /\ Len(a) \in 0 .. Len(b)
        BY <1>0
      <4> QED BY <4>1
    <3> QED BY <2>1, <2>4, <3>1, <3>2
  <2> QED BY <2>3, <2>5, <2>6
<1>5. Len(c) \in 0 .. Len(c) /\ upTo(Len(c)) = Len(a)
  BY <1>0
<1> QED BY <1>1, <1>2, <1>3, <1>4, <1>5

-----------------------------------------------------------------------------
(* Matches.                                                                *)

\* The weights shown are the ones the score counted.
LEMMA WeightsAddUp ==
  ASSUME NEW matches \in Seq(Hits)
  PROVE  Total(Contributions(matches)) = Confidence(matches).supporting + Confidence(matches).contradicting
<1> DEFINE lead == Lead(matches)
           side(against) == [n \in DOMAIN lead |-> IF Against(lead[n]) = against THEN MatchWeight(lead[n]) ELSE 0]
<1>1. \A h \in Hits : MatchWeight(h) \in Int
  <2> SUFFICES ASSUME NEW h \in Hits PROVE MatchWeight(h) \in Int
    OBVIOUS
  <2>1. h.score \in Int /\ BodyWeight \in Int
    BY HitsAssumption, AdjudicationAssumption
  <2>2. h.score * BodyWeight \in Int /\ h.score * 10 \in Int
    BY <2>1
  <2> QED BY <2>2 DEF MatchWeight
<1>2. /\ lead \in Seq(Hits) /\ Len(lead) = (IF ClusterSize <= Len(matches) THEN ClusterSize ELSE Len(matches))
      /\ \A k \in 1 .. Len(lead) : lead[k] = matches[k]
  BY CutKeeps, AdjudicationAssumption DEF Lead
<1> HIDE DEF lead
<1>3. \A against \in BOOLEAN : side(against) \in Seq(Int) /\ Len(side(against)) = Len(lead)
  <2> SUFFICES ASSUME NEW against \in BOOLEAN PROVE side(against) \in Seq(Int) /\ Len(side(against)) = Len(lead)
    OBVIOUS
  <2>1. Len(lead) \in Nat /\ DOMAIN lead = 1 .. Len(lead) /\ \A n \in 1 .. Len(lead) : lead[n] \in Hits
    BY <1>2
  <2>2. \A n \in 1 .. Len(lead) : (IF Against(lead[n]) = against THEN MatchWeight(lead[n]) ELSE 0) \in Int
    BY <1>1, <2>1
  <2>3. side(against) \in [1 .. Len(lead) -> Int]
    BY <2>1, <2>2
  <2> HIDE DEF side
  <2> QED BY <2>1, <2>3
<1>4. Contributions(matches) \in Seq(Int) /\ Len(Contributions(matches)) = Len(matches)
  BY <1>1, AdjudicationAssumption DEF Contributions
<1>5. ASSUME NEW k \in 1 .. Len(matches)
      PROVE  Contributions(matches)[k] = IF k <= Len(lead) THEN side(FALSE)[k] + side(TRUE)[k] ELSE 0
  <2>1. Contributions(matches)[k] = IF k <= ClusterSize THEN MatchWeight(matches[k]) ELSE 0
    BY DEF Contributions
  <2>2. k <= ClusterSize <=> k <= Len(lead)
    BY <1>2, AdjudicationAssumption
  <2>3. CASE k <= Len(lead)
    <3>1. matches[k] \in Hits /\ lead[k] = matches[k] /\ MatchWeight(matches[k]) \in Int
      BY <1>1, <1>2, <2>3
    <3>2. Against(lead[k]) \in BOOLEAN
      BY DEF Against
    <3>3. /\ side(FALSE)[k] = IF Against(lead[k]) = FALSE THEN MatchWeight(lead[k]) ELSE 0
          /\ side(TRUE)[k] = IF Against(lead[k]) = TRUE THEN MatchWeight(lead[k]) ELSE 0
      BY <1>2, <2>3
    <3>4. side(FALSE)[k] + side(TRUE)[k] = MatchWeight(matches[k])
      <4>1. CASE Against(lead[k])
        BY <3>1, <3>3, <4>1
      <4>2. CASE ~Against(lead[k])
        BY <3>1, <3>2, <3>3, <4>2
      <4> QED BY <4>1, <4>2
    <3> QED BY <2>1, <2>2, <2>3, <3>4
  <2>4. CASE ~(k <= Len(lead))
    BY <2>1, <2>2, <2>4
  <2> QED BY <2>3, <2>4
<1> HIDE DEF side
<1>6. Total(Contributions(matches)) = Total(side(FALSE)) + Total(side(TRUE))
  <2>1. Len(side(FALSE)) = Len(side(TRUE)) /\ Len(side(FALSE)) <= Len(Contributions(matches))
    <3>1. Len(lead) <= Len(matches) /\ TRUE \in BOOLEAN /\ FALSE \in BOOLEAN
      BY <1>2, AdjudicationAssumption
    <3> QED BY <1>3, <1>4, <3>1
  <2> QED BY <1>2, <1>3, <1>4, <1>5, <2>1, SidesAddUp
<1>7. Confidence(matches).supporting = Total(side(FALSE)) /\ Confidence(matches).contradicting = Total(side(TRUE))
  BY DEF Confidence, Weights, side, lead
<1> QED BY <1>6, <1>7

LEMMA BeforeIsAnOrder ==
  ASSUME NEW h \in Hits, NEW g \in Hits
  PROVE  /\ h # g => Before(h, g) \/ Before(g, h)
         /\ \A f \in Hits : Before(f, h) /\ Before(h, g) => Before(f, g)
BY HitsAssumption DEF Before

LEMMA LeastHits ==
  ASSUME NEW T \in SUBSET SUBSET Hits, T # {}
  PROVE  \E x \in T : \A y \in T : y \subseteq x => y = x
<1>0. IsFiniteSet(Hits)
  BY HitsAssumption
<1>1. FiniteSubsetsOf(Hits) = SUBSET Hits
  BY <1>0, FS_FiniteSubsetsOfFinite
<1>2. IsWellFoundedOn(StrictSubsetOrdering(Hits), SUBSET Hits)
  BY <1>1, FS_StrictSubsetOrderingWellFounded
<1>3. PICK x \in T : \A y \in T : ~(<<y, x>> \in StrictSubsetOrdering(Hits))
  BY <1>2, WFMin
<1>4. ASSUME NEW y \in T, y \subseteq x PROVE y = x
  BY <1>3, <1>4 DEF StrictSubsetOrdering
<1> QED BY <1>4

First(h, M) == h \in M /\ \A g \in M \ {h} : Before(h, g)
LEMMA FirstExists ==
  ASSUME NEW M \in SUBSET Hits, M # {}
  PROVE  \E h : First(h, M)
<1> DEFINE Bad == {K \in SUBSET Hits : K # {} /\ ~ \E h : First(h, K)}
<1>1. Bad = {}
  <2> SUFFICES ASSUME Bad # {} PROVE FALSE
    OBVIOUS
  <2>1. PICK K \in Bad : \A L \in Bad : L \subseteq K => L = K
    <3>1. Bad \in SUBSET SUBSET Hits
      OBVIOUS
    <3> HIDE DEF Bad
    <3> QED BY <3>1, LeastHits
  <2>2. PICK x \in K : x \in Hits
    BY <2>1
  <2>3. CASE K \ {x} = {}
    <3>1. First(x, K)
      BY <2>2, <2>3 DEF First
    <3> QED BY <2>1, <3>1
  <2>4. CASE K \ {x} # {}
    <3>1. K \ {x} \in SUBSET Hits /\ K \ {x} \notin Bad
      BY <2>1, <2>2
    <3>2. PICK h : First(h, K \ {x})
      BY <2>4, <3>1
    <3>3. h \in Hits /\ h \in K /\ h # x
      BY <3>1, <3>2 DEF First
    <3>4. CASE Before(h, x)
      <4>1. First(h, K)
        BY <3>2, <3>3, <3>4 DEF First
      <4> QED BY <2>1, <4>1
    <3>5. CASE Before(x, h)
      <4>1. First(x, K)
        BY <2>1, <2>2, <3>2, <3>3, <3>5, BeforeIsAnOrder DEF First
      <4> QED BY <2>1, <4>1
    <3> QED BY <2>2, <3>3, <3>4, <3>5, BeforeIsAnOrder
  <2> QED BY <2>3, <2>4
<1> QED BY <1>1

Sorted(s, M) == s \in [1 .. Cardinality(M) -> M] /\ \A n, k \in DOMAIN s : n < k => Before(s[n], s[k])
LEMMA SortExists ==
  ASSUME NEW M \in SUBSET Hits
  PROVE  \E s : Sorted(s, M)
<1> DEFINE Bad == {K \in SUBSET Hits : ~ \E s : Sorted(s, K)}
<1>1. Bad = {}
  <2> SUFFICES ASSUME Bad # {} PROVE FALSE
    OBVIOUS
  <2>1. PICK K \in Bad : \A L \in Bad : L \subseteq K => L = K
    <3>1. Bad \in SUBSET SUBSET Hits
      OBVIOUS
    <3> HIDE DEF Bad
    <3> QED BY <3>1, LeastHits
  <2>2. IsFiniteSet(K) /\ K \subseteq Hits
    BY <2>1, FS_Subset, HitsAssumption
  <2>3. CASE K = {}
    <3>1. Cardinality(K) = 0
      BY <2>3, FS_EmptySet
    <3>2. Sorted([n \in 1 .. 0 |-> 0], K)
      BY <2>3, <3>1 DEF Sorted
    <3> QED BY <2>1, <3>2
  <2>4. CASE K # {}
    <3>1. PICK h : First(h, K)
      BY <2>2, <2>4, FirstExists
    <3>2. h \in K /\ K \ {h} \in SUBSET Hits /\ K \ {h} \notin Bad
      BY <2>1, <3>1 DEF First
    <3>3. PICK s : Sorted(s, K \ {h})
      BY <3>2
    <3>4. Cardinality(K \ {h}) = Cardinality(K) - 1 /\ Cardinality(K) \in Nat
      BY <2>2, <3>2, FS_RemoveElement, FS_CardinalityType
    <3>5. s \in [1 .. Cardinality(K) - 1 -> K \ {h}] /\ \A n, k \in 1 .. Cardinality(K) - 1 : n < k => Before(s[n], s[k])
      BY <3>3, <3>4 DEF Sorted
    <3> DEFINE c == Cardinality(K)
               r == [n \in 1 .. c |-> IF n = 1 THEN h ELSE s[n - 1]]
    <3> HIDE DEF c
    <3>6. \A n \in 2 .. c : n - 1 \in 1 .. c - 1 /\ s[n - 1] \in K \ {h}
      BY <3>4, <3>5 DEF c
    <3>7. r \in [1 .. c -> K]
      BY <3>2, <3>4, <3>6 DEF c
    <3>8. ASSUME NEW n \in 1 .. c, NEW k \in 1 .. c, n < k PROVE Before(r[n], r[k])
      <4>1. k \in 2 .. c /\ r[k] = s[k - 1]
        BY <3>4, <3>8 DEF c
      <4>2. CASE n = 1
        BY <3>1, <3>6, <4>1, <4>2 DEF First
      <4>3. CASE n # 1
        <5>1. n \in 2 .. c /\ r[n] = s[n - 1] /\ n - 1 < k - 1
          BY <3>4, <3>8, <4>3 DEF c
        <5> QED BY <3>5, <3>6, <4>1, <5>1 DEF c
      <4> QED BY <4>2, <4>3
    <3>9. Sorted(r, K)
      BY <3>7, <3>8 DEF Sorted, c
    <3> QED BY <2>1, <3>9
  <2> QED BY <2>3, <2>4
<1> QED BY <1>1

LEMMA RankedHits ==
  ASSUME NEW hits \in SUBSET Hits
  PROVE  Ranked(hits) \in Seq(hits) /\ MatchSegment(hits) \in Seq(hits)
<1> DEFINE M == ClaimMatches(hits) \cup EvidenceMatches(hits)
<1>1. M \in SUBSET Hits /\ M \subseteq hits /\ IsFiniteSet(M)
  BY FS_Subset, HitsAssumption DEF ClaimMatches, EvidenceMatches
<1>2. PICK s : Sorted(s, M)
  BY <1>1, SortExists
<1>3. Cardinality(M) \in Nat
  BY <1>1, FS_CardinalityType
<1>4. Ranked(hits) \in [1 .. Cardinality(M) -> M]
  BY <1>2 DEF Ranked, Sorted
<1>5. Ranked(hits) \in Seq(hits)
  <2> HIDE DEF M
  <2> QED BY <1>1, <1>3, <1>4
<1> QED BY <1>5, CutKeeps, AdjudicationAssumption DEF MatchSegment
-----------------------------------------------------------------------------
(* Judgment: the steps.                                                    *)

LEMMA HoldersAreFinite ==
  ASSUME JudgmentInv
  PROVE  /\ DOMAIN job = 1 .. MaxClaims /\ IsFiniteSet(Holders) /\ Holders \subseteq 1 .. MaxClaims
         /\ Cardinality(Holders) \in Nat
<1>1. DOMAIN job = 1 .. MaxClaims /\ IsFiniteSet(1 .. MaxClaims)
  <2>1. MaxClaims \in Int /\ 1 \in Int
    BY AdjudicationAssumption
  <2>2. IsFiniteSet(1 .. MaxClaims)
    BY <2>1, FS_Interval
  <2>3. DOMAIN job = 1 .. MaxClaims
    BY DEF JudgmentInv, JobsOK
  <2> QED BY <2>2, <2>3
<1>2. Holders \subseteq 1 .. MaxClaims
  BY <1>1 DEF Holders
<1> QED BY <1>1, <1>2, FS_Subset, FS_CardinalityType

\* The fields a claim has, and what becomes of them.
Claim(pc, text, hits, verdict, by) ==
  [pc |-> pc, text |-> text, hits |-> hits, failed |-> FALSE, verdict |-> verdict, by |-> by]
Fields(pc, text, hits, verdict, by) ==
  [pc : {pc}, text : {text}, hits : {hits}, failed : {FALSE}, verdict : {verdict}, by : {by}]

LEMMA FieldsMakeClaim ==
  ASSUME NEW c, NEW pc, NEW text, NEW hits, NEW v, NEW by
  PROVE  c = Claim(pc, text, hits, v, by) <=> c \in Fields(pc, text, hits, v, by)
<1>1. c = Claim(pc, text, hits, v, by) => c \in Fields(pc, text, hits, v, by)
  BY DEF Claim, Fields
<1>2. c \in Fields(pc, text, hits, v, by) => c = Claim(pc, text, hits, v, by)
  BY DEF Claim, Fields
<1> QED BY <1>1, <1>2

LEMMA ClaimFields ==
  ASSUME NEW c, NEW found, ClaimRight(c, found), NEW pc, NEW hits, NEW v
  PROVE  /\ [c EXCEPT !.pc = pc] = Claim(pc, c.text, c.hits, c.verdict, c.by)
         /\ [c EXCEPT !.pc = pc, !.hits = hits] = Claim(pc, c.text, hits, c.verdict, c.by)
         /\ [c EXCEPT !.pc = pc, !.verdict = v] = Claim(pc, c.text, c.hits, v, c.by)
<1>1. c = Claim(c.pc, c.text, c.hits, c.verdict, c.by)
  BY DEF ClaimRight, Claim
<1>2. PICK p, t, h, w, b : p = c.pc /\ t = c.text /\ h = c.hits /\ w = c.verdict /\ b = c.by
  OBVIOUS
<1>3. c \in Fields(p, t, h, w, b)
  BY <1>1, <1>2, FieldsMakeClaim
<1>4. [c EXCEPT !.pc = pc] \in Fields(pc, t, h, w, b)
  BY <1>3 DEF Fields
<1>5. [c EXCEPT !.pc = pc, !.hits = hits] \in Fields(pc, t, hits, w, b)
  BY <1>3 DEF Fields
<1>6. [c EXCEPT !.pc = pc, !.verdict = v] \in Fields(pc, t, h, v, b)
  BY <1>3 DEF Fields
<1> QED BY <1>2, <1>4, <1>5, <1>6, FieldsMakeClaim

LEMMA ClaimEnds ==
  ASSUME NEW c, NEW found, ClaimRight(c, found), NEW v, NEW by, NEW j,
         \/ j = [c EXCEPT !.pc = "done", !.hits = {}, !.verdict = v, !.by = by]
         \/ j = [c EXCEPT !.pc = "done", !.hits = {}, !.verdict = v, !.by = by, !.failed = FALSE]
  PROVE  j = Claim("done", c.text, {}, v, by)
<1>1. c = Claim(c.pc, c.text, c.hits, c.verdict, c.by)
  BY DEF ClaimRight, Claim
<1>2. PICK p, t, h, w, b : p = c.pc /\ t = c.text /\ h = c.hits /\ w = c.verdict /\ b = c.by
  OBVIOUS
<1>3. c \in Fields(p, t, h, w, b)
  BY <1>1, <1>2, FieldsMakeClaim
<1>4. [c EXCEPT !.pc = "done", !.hits = {}, !.verdict = v, !.by = by] \in Fields("done", t, {}, v, by)
  BY <1>3 DEF Fields
<1>5. [c EXCEPT !.pc = "done", !.hits = {}, !.verdict = v, !.by = by, !.failed = FALSE] \in Fields("done", t, {}, v, by)
  BY <1>3 DEF Fields
<1> QED BY <1>2, <1>4, <1>5, FieldsMakeClaim

\* A step of one claim: its new record is right, and only a slot that was free is taken.
LEMMA ClaimMoves ==
  ASSUME JudgmentInv, NEW i \in 1 .. MaxClaims, NEW j, job' = [job EXCEPT ![i] = j],
         ClaimOnly, callFaults' \in 0 .. MaxCallFaults,
         shown' = [t \in Texts |-> shown'[t]], \A t \in Texts : shown[t] \subseteq shown'[t],
         ClaimRight(j, shown'), CacheOK',
         j.pc = "verify" => live + Cardinality(Holders) < VerifySlots
  PROVE  JudgmentInv'
<1>1. UnitOK' /\ live' = live
  BY DEF JudgmentInv, UnitOK, ClaimOnly
<1>2. /\ job' = [k \in 1 .. MaxClaims |-> job'[k]] /\ DOMAIN job = 1 .. MaxClaims
      /\ \A k \in 1 .. MaxClaims : job'[k] = IF k = i THEN j ELSE job[k]
  BY DEF JudgmentInv, JobsOK
<1>3. JobsOK'
  <2> SUFFICES ASSUME NEW k \in 1 .. MaxClaims, k # i PROVE ClaimRight(job[k], shown')
    BY <1>2 DEF JobsOK
  <2>1. ClaimRight(job[k], shown)
    BY DEF JudgmentInv, JobsOK
  <2>2. \A t \in Texts : \A v : Cited(v, shown[t]) => Cited(v, shown'[t])
    BY DEF Cited
  <2>3. job[k].pc # "none" => shown[job[k].text] \subseteq shown'[job[k].text]
    BY <2>1 DEF ClaimRight
  <2> QED BY <2>1, <2>2, <2>3 DEF ClaimRight
<1>4. PoolOK'
  <2>1. IsFiniteSet(Holders) /\ Cardinality(Holders) \in Nat
    BY HoldersAreFinite
  <2>2. live \in Nat /\ live + Cardinality(Holders) <= VerifySlots /\ VerifySlots \in Nat
    BY AdjudicationAssumption DEF JudgmentInv, PoolOK
  <2>3. Holders' = {k \in 1 .. MaxClaims : (IF k = i THEN j ELSE job[k]).pc = "verify"}
    BY <1>2 DEF Holders
  <2>4. CASE j.pc = "verify"
    <3>1. Holders' \subseteq Holders \cup {i}
      BY <1>2, <2>3 DEF Holders
    <3>2. IsFiniteSet(Holders \cup {i}) /\ Cardinality(Holders \cup {i}) <= Cardinality(Holders) + 1
      <4>1. Cardinality(Holders \cup {i}) = IF i \in Holders THEN Cardinality(Holders) ELSE Cardinality(Holders) + 1
        BY <2>1, FS_AddElement
      <4>2. IsFiniteSet(Holders \cup {i})
        BY <2>1, FS_AddElement
      <4> QED BY <2>1, <4>1, <4>2
    <3>3. Cardinality(Holders') <= Cardinality(Holders \cup {i}) /\ Cardinality(Holders') \in Nat
          /\ Cardinality(Holders \cup {i}) \in Nat
      BY <3>1, <3>2, FS_Subset, FS_CardinalityType
    <3>4. live' + Cardinality(Holders') <= VerifySlots
      BY <1>1, <2>1, <2>2, <2>4, <3>2, <3>3
    <3> QED BY <1>1, <3>4 DEF JudgmentInv, PoolOK
  <2>5. CASE j.pc # "verify"
    <3>1. Holders' \subseteq Holders
      BY <1>2, <2>3, <2>5 DEF Holders
    <3>2. Cardinality(Holders') <= Cardinality(Holders) /\ Cardinality(Holders') \in Nat
      BY <2>1, <3>1, FS_Subset, FS_CardinalityType
    <3>3. live' + Cardinality(Holders') <= VerifySlots
      BY <1>1, <2>1, <2>2, <3>2
    <3> QED BY <1>1, <3>3 DEF JudgmentInv, PoolOK
  <2> QED BY <2>4, <2>5
<1> QED BY <1>1, <1>3, <1>4 DEF JudgmentInv

\* A verdict is reached, or comes from the cache.
LEMMA VerdictKeeps ==
  ASSUME JudgmentInv, NEW i \in 1 .. MaxClaims, NEW v, NEW by, Ends(i, v, by),
         ClaimOnly, callFaults' \in 0 .. MaxCallFaults, job[i].pc \in Working,
         shown' = [t \in Texts |-> shown'[t]], \A t \in Texts : shown[t] \subseteq shown'[t],
         Cited(v, shown'[job[i].text]), Guarded(v, by),
         Store(i, v) \/ UNCHANGED cache
  PROVE  JudgmentInv'
<1>1. PICK j : j = [job[i] EXCEPT !.pc = "done", !.hits = {}, !.verdict = v, !.by = by]
  OBVIOUS
<1>2. job' = [job EXCEPT ![i] = j]
  BY <1>1 DEF Ends, JudgmentInv, JobsOK
<1>3. ClaimRight(job[i], shown)
  BY DEF JudgmentInv, JobsOK
<1>4. j = [pc |-> "done", text |-> job[i].text, hits |-> {}, failed |-> FALSE, verdict |-> v, by |-> by]
  <2>1. PICK c : c = job[i]
    OBVIOUS
  <2>2. ClaimRight(c, shown) /\ j = [c EXCEPT !.pc = "done", !.hits = {}, !.verdict = v, !.by = by]
    BY <1>1, <1>3, <2>1, Zenon
  <2>3. j = Claim("done", c.text, {}, v, by)
    BY <2>2, ClaimEnds, Zenon
  <2> QED BY <2>1, <2>3 DEF Claim
<1>5. job[i].text \in Texts
  BY <1>3 DEF ClaimRight, Working
<1>6. ClaimRight(j, shown')
  BY <1>4, <1>5 DEF ClaimRight
<1>7. CacheOK'
  <2>1. \A t \in Texts : \A u : Cited(u, shown[t]) => Cited(u, shown'[t])
    BY DEF Cited
  <2>2. CASE UNCHANGED cache
    BY <2>1, <2>2 DEF JudgmentInv, CacheOK
  <2>3. CASE Store(i, v)
    BY <1>5, <2>1, <2>3 DEF JudgmentInv, CacheOK, Store
  <2> QED BY <2>2, <2>3
<1>8. j.pc # "verify"
  BY <1>4
<1> QED BY <1>2, <1>6, <1>7, <1>8, ClaimMoves

LEMMA FailsKeeps ==
  ASSUME JudgmentInv, NEW i \in 1 .. MaxClaims, Fails(i), ClaimOnly, callFaults' \in 0 .. MaxCallFaults,
         job[i].pc \in Working
  PROVE  JudgmentInv'
<1>1. PICK j : j = [job[i] EXCEPT !.pc = "error", !.hits = {}]
  OBVIOUS
<1>2. job' = [job EXCEPT ![i] = j] /\ UNCHANGED <<cache, shown>>
  BY <1>1 DEF Fails, JudgmentInv, JobsOK
<1>3. ClaimRight(job[i], shown)
  BY DEF JudgmentInv, JobsOK
<1>4. j = [pc |-> "error", text |-> job[i].text, hits |-> {}, failed |-> FALSE, verdict |-> job[i].verdict, by |-> job[i].by]
  BY <1>1, <1>3, ClaimFields, Zenon DEF Claim
<1>5. ClaimRight(j, shown')
  BY <1>3, <1>4 DEF ClaimRight, Working
<1>6. CacheOK' /\ shown' = [t \in Texts |-> shown'[t]] /\ \A t \in Texts : shown[t] \subseteq shown'[t]
  BY <1>2 DEF JudgmentInv, CacheOK, JobsOK
<1>7. j.pc # "verify"
  BY <1>4
<1> QED BY <1>2, <1>5, <1>6, <1>7, ClaimMoves

LEMMA GoesKeeps ==
  ASSUME JudgmentInv, NEW i \in 1 .. MaxClaims, NEW to, Goes(i, to), UNCHANGED <<cache, shown>>,
         ClaimOnly, callFaults' \in 0 .. MaxCallFaults, job[i].pc \in Working,
         to \in Working, to \notin {"borrow", "reverify"},
         to \in {"route", "acquire", "verify"} => job[i].pc \in {"borrow", "route", "acquire", "verify"},
         to = "verify" => live + Cardinality(Holders) < VerifySlots
  PROVE  JudgmentInv'
<1>1. PICK j : j = [job[i] EXCEPT !.pc = to]
  OBVIOUS
<1>2. job' = [job EXCEPT ![i] = j]
  BY <1>1 DEF Goes, JudgmentInv, JobsOK
<1>3. ClaimRight(job[i], shown)
  BY DEF JudgmentInv, JobsOK
<1>4. j = [pc |-> to, text |-> job[i].text, hits |-> job[i].hits, failed |-> FALSE, verdict |-> job[i].verdict, by |-> job[i].by]
  BY <1>1, <1>3, ClaimFields, Zenon DEF Claim
<1>5. ClaimRight(j, shown')
  BY <1>3, <1>4 DEF ClaimRight, Working
<1>6. CacheOK' /\ shown' = [t \in Texts |-> shown'[t]] /\ \A t \in Texts : shown[t] \subseteq shown'[t]
  BY DEF JudgmentInv, CacheOK, JobsOK
<1>7. j.pc = "verify" => live + Cardinality(Holders) < VerifySlots
  BY <1>4
<1> QED BY <1>2, <1>5, <1>6, <1>7, ClaimMoves

\* New passages to judge by.
LEMMA HitsKeep ==
  ASSUME JudgmentInv, NEW i \in 1 .. MaxClaims, NEW to, NEW hits, NEW ids, ClaimOnly, callFaults' \in 0 .. MaxCallFaults,
         job' = [job EXCEPT ![i].pc = to, ![i].hits = hits], Shows(i, ids), UNCHANGED cache,
         job[i].pc \in Working, (to = "borrow" /\ hits \subseteq Hits) \/ to = "acquire", \A h \in hits : h.id \in ids
  PROVE  JudgmentInv'
<1>1. PICK j : j = [job[i] EXCEPT !.pc = to, !.hits = hits]
  OBVIOUS
<1>2. job' = [job EXCEPT ![i] = j]
  BY <1>1 DEF JudgmentInv, JobsOK
<1>3. ClaimRight(job[i], shown)
  BY DEF JudgmentInv, JobsOK
<1>4. j = [pc |-> to, text |-> job[i].text, hits |-> hits, failed |-> FALSE, verdict |-> job[i].verdict, by |-> job[i].by]
  BY <1>1, <1>3, ClaimFields, Zenon DEF Claim
<1>5. job[i].text \in Texts
  BY <1>3 DEF ClaimRight, Working
<1>6. /\ shown' = [t \in Texts |-> shown'[t]] /\ \A t \in Texts : shown[t] \subseteq shown'[t]
      /\ shown'[job[i].text] = shown[job[i].text] \cup ids
  BY <1>5 DEF JudgmentInv, JobsOK, Shows
<1>7. ClaimRight(j, shown')
  BY <1>4, <1>5, <1>6 DEF ClaimRight, Working
<1>8. CacheOK'
  BY <1>6 DEF JudgmentInv, CacheOK, Cited
<1>9. j.pc # "verify"
  BY <1>4
<1> QED BY <1>2, <1>6, <1>7, <1>8, <1>9, ClaimMoves

LEMMA FaultsCounted ==
  ASSUME JudgmentInv, CallFault \/ NoCallFault
  PROVE  callFaults' \in 0 .. MaxCallFaults
BY AdjudicationAssumption DEF JudgmentInv, UnitOK, CallFault, NoCallFault

\* What a verifier's answer becomes by its guards.
LEMMA JudgmentIsGuarded ==
  ASSUME NEW i, NEW v \in Judgment(i)
  PROVE  Cited(v, Ids(i)) /\ Guarded(v, "verifier")
<1>1. PICK a \in Answers, cites \in SUBSET Quotes : v = ValidateCitations(a, cites, Ids(i))
  BY DEF Judgment
<1>2. CapKnowledgeConfidence(a.conf) \in 0 .. Cap
  BY ConfidenceIsCapped, AnswersAssumption
<1> DEFINE valid == ValidCitations(cites, Ids(i))
<1>3. \A q \in valid : q.exact /\ q.id \in Ids(i)
  BY DEF ValidCitations
<1>4. v = GroundVerdict(a.state, a.basis, valid, a.conf)
  BY <1>1 DEF ValidateCitations
<1> HIDE DEF valid
<1>5. CASE a.state # "unverifiable" /\ a.basis = "evidence" /\ valid # {}
  <2>1. v = Judged(a.state, a.basis, ClampConfidence(a.conf), valid)
    BY <1>4, <1>5 DEF GroundVerdict
  <2>2. v.cites = valid /\ v.basis = "evidence"
    BY <1>5, <2>1 DEF Judged
  <2> QED BY <1>3, <1>5, <2>2 DEF Cited, Guarded
<1>6. CASE ~(a.state # "unverifiable" /\ a.basis = "evidence" /\ valid # {})
  <2> DEFINE conf == CapKnowledgeConfidence(a.conf)
             kept == IF a.state = "unverifiable" THEN {} ELSE valid
  <2>1. v = Judged(a.state, "knowledge", conf, kept)
    BY <1>4, <1>6 DEF GroundVerdict
  <2>2. kept \subseteq valid
    OBVIOUS
  <2> HIDE DEF conf, kept
  <2>3. v.cites = kept /\ v.basis = "knowledge" /\ v.conf = conf
    BY <2>1 DEF Judged
  <2> QED BY <1>2, <1>3, <2>2, <2>3 DEF Cited, Guarded, conf
<1> QED BY <1>5, <1>6

LEMMA NothingIsGuarded == \A ids : Cited(NoEvidence, ids) /\ Guarded(NoEvidence, "silence")
<1>1. NoEvidence.cites = {} /\ NoEvidence.conf = 0 /\ 0 \in 0 .. Cap
  BY AdjudicationAssumption DEF NoEvidence, Judged
<1> QED BY <1>1 DEF Cited, Guarded

\* A borrowed verdict cites at most the claim it is borrowed from.
LEMMA BorrowedIsCited ==
  ASSUME NEW h, NEW ids, h.id \in ids
  PROVE  Cited(CuratedVerdict(h), ids) /\ Guarded(CuratedVerdict(h), "curated")
<1>1. CuratedVerdict(h).cites \subseteq {Quote(h.id)}
  BY DEF CuratedVerdict, Judged
<1>2. Quote(h.id).exact /\ Quote(h.id).id = h.id
  BY DEF Quote
<1>3. Cited(CuratedVerdict(h), ids)
  BY <1>1, <1>2 DEF Cited
<1> QED BY <1>3 DEF Guarded

LEMMA LookupKeeps == ASSUME JudgmentInv, NEW i \in 1 .. MaxClaims, Lookup(i) PROVE JudgmentInv'
<1>1. job[i].pc = "lookup" /\ ClaimOnly /\ UNCHANGED <<cache, shown, callFaults>>
  BY DEF Lookup
<1>2. ClaimRight(job[i], shown) /\ job[i].pc \in Working /\ job[i].text \in Texts
  BY <1>1 DEF JudgmentInv, JobsOK, ClaimRight, Working
<1>3. callFaults' \in 0 .. MaxCallFaults /\ shown' = [t \in Texts |-> shown'[t]] /\ \A t \in Texts : shown[t] \subseteq shown'[t]
  BY <1>1 DEF JudgmentInv, UnitOK, JobsOK
<1>4. CASE cache[job[i].text] # None
  <2>1. PICK v : v = cache[job[i].text]
    OBVIOUS
  <2>2. Ends(i, v, "cache")
    BY <1>4, <2>1 DEF Lookup
  <2>3. Cited(v, shown'[job[i].text]) /\ Guarded(v, "cache")
    BY <1>1, <1>2, <1>4, <2>1 DEF JudgmentInv, CacheOK, Guarded
  <2> QED BY <1>1, <1>2, <1>3, <2>2, <2>3, VerdictKeeps
<1>5. CASE cache[job[i].text] = None
  <2>1. Goes(i, "retrieve")
    BY <1>5 DEF Lookup
  <2>2. "retrieve" \in Working
    BY DEF Working
  <2> QED BY <1>1, <1>2, <1>3, <2>1, <2>2, GoesKeeps
<1> QED BY <1>4, <1>5

\* The first of the curated claims near enough is one of the matches.
LEMMA FirstMatch ==
  ASSUME NEW hits \in SUBSET Hits, NEW matches \in Seq(hits), FastMatch(matches) # {}
  PROVE  Min(FastMatch(matches)) \in DOMAIN matches /\ matches[Min(FastMatch(matches))] \in hits
<1>1. FastMatch(matches) \subseteq DOMAIN matches /\ DOMAIN matches \subseteq Nat
  BY DEF FastMatch
<1>2. Min(FastMatch(matches)) \in FastMatch(matches)
  BY <1>1, LeastNat
<1> QED BY <1>1, <1>2

LEMMA RetrieveKeeps == ASSUME JudgmentInv, NEW i \in 1 .. MaxClaims, Retrieve(i) PROVE JudgmentInv'
<1>1. job[i].pc = "retrieve" /\ ClaimOnly
  BY DEF Retrieve
<1>2. ClaimRight(job[i], shown) /\ job[i].pc \in Working /\ job[i].text \in Texts
  BY <1>1 DEF JudgmentInv, JobsOK, ClaimRight, Working
<1>3. CASE SearchFails /\ Fails(i)
  BY <1>1, <1>2, <1>3, FaultsCounted, FailsKeeps DEF SearchFails
<1>4. CASE ~(SearchFails /\ Fails(i))
  <2>1. PICK found \in SUBSET Hits :
          LET matches == MatchSegment(found)
              hits    == {matches[n] : n \in DOMAIN matches}
              fast    == FastMatch(matches)
          IN /\ NoCallFault /\ Shows(i, {h.id : h \in hits})
             /\ IF mode = "political"
                THEN job' = [job EXCEPT ![i].pc = "borrow", ![i].hits = hits] /\ UNCHANGED cache
                ELSE IF fast # {} THEN Reached(i, CuratedVerdict(matches[Min(fast)]), "curated")
                ELSE IF hits = {} THEN Reached(i, NoEvidence, "silence")
                ELSE job' = [job EXCEPT ![i].pc = "acquire", ![i].hits = hits] /\ UNCHANGED cache
    BY <1>4, Zenon DEF Retrieve
  <2> DEFINE matches == MatchSegment(found)
             hits    == {matches[n] : n \in DOMAIN matches}
             ids     == {h.id : h \in hits}
             fast    == FastMatch(matches)
  <2>2. matches \in Seq(found)
    BY RankedHits
  <2> HIDE DEF matches
  <2>3. hits \subseteq Hits
    BY <2>2
  <2>4. Shows(i, ids) /\ callFaults' \in 0 .. MaxCallFaults /\ \A h \in hits : h.id \in ids
    BY <2>1, FaultsCounted DEF matches
  <2>5. /\ shown' = [t \in Texts |-> shown'[t]] /\ \A t \in Texts : shown[t] \subseteq shown'[t]
        /\ ids \subseteq shown'[job[i].text]
    BY <1>2, <2>4 DEF JudgmentInv, JobsOK, Shows
  <2>6. CASE job' = [job EXCEPT ![i].pc = "borrow", ![i].hits = hits] /\ UNCHANGED cache
    <3> HIDE DEF hits, ids
    <3> QED BY <1>1, <1>2, <2>3, <2>4, <2>6, HitsKeep
  <2>7. CASE job' = [job EXCEPT ![i].pc = "acquire", ![i].hits = hits] /\ UNCHANGED cache
    <3> HIDE DEF hits, ids
    <3> QED BY <1>1, <1>2, <2>4, <2>7, HitsKeep
  <2>8. CASE fast # {} /\ Reached(i, CuratedVerdict(matches[Min(fast)]), "curated")
    <3>1. PICK h : h = matches[Min(fast)]
      OBVIOUS
    <3>2. h \in hits
      BY <2>2, <2>8, <3>1, FirstMatch
    <3>3. h.id \in shown'[job[i].text]
      BY <2>4, <2>5, <3>2
    <3>4. PICK v : v = CuratedVerdict(h)
      OBVIOUS
    <3>5. Ends(i, v, "curated") /\ Store(i, v)
      BY <2>8, <3>1, <3>4 DEF Reached
    <3>6. Cited(v, shown'[job[i].text]) /\ Guarded(v, "curated")
      BY <3>3, <3>4, BorrowedIsCited
    <3> QED BY <1>1, <1>2, <2>4, <2>5, <3>5, <3>6, VerdictKeeps
  <2>9. CASE Reached(i, NoEvidence, "silence")
    <3>1. PICK v : v = NoEvidence
      OBVIOUS
    <3>2. Ends(i, v, "silence") /\ Store(i, v)
      BY <2>9, <3>1 DEF Reached
    <3>3. Cited(v, shown'[job[i].text]) /\ Guarded(v, "silence")
      BY <3>1, NothingIsGuarded
    <3> QED BY <1>1, <1>2, <2>4, <2>5, <3>2, <3>3, VerdictKeeps
  <2> QED BY <2>1, <2>6, <2>7, <2>8, <2>9 DEF matches
<1> QED BY <1>3, <1>4

LEMMA BorrowKeeps == ASSUME JudgmentInv, NEW i \in 1 .. MaxClaims, Borrow(i) PROVE JudgmentInv'
<1>1. job[i].pc = "borrow" /\ ClaimOnly
  BY DEF Borrow
<1>2. /\ ClaimRight(job[i], shown) /\ job[i].pc \in Working /\ job[i].text \in Texts
      /\ job[i].hits \subseteq Hits /\ \A h \in job[i].hits : h.id \in shown[job[i].text]
  BY <1>1 DEF JudgmentInv, JobsOK, ClaimRight, Working
<1>3. callFaults' \in 0 .. MaxCallFaults
  BY FaultsCounted DEF Borrow
<1>4. CASE \E state \in {"credible", "disputed", "unverifiable"} :
             Reached(i, PoliticalCuratedVerdict(state, FastTau), "curated") /\ Shows(i, {PoliticalId})
  <2>1. PICK state : Reached(i, PoliticalCuratedVerdict(state, FastTau), "curated") /\ Shows(i, {PoliticalId})
    BY <1>4
  <2>2. PICK v : v = PoliticalCuratedVerdict(state, FastTau)
    OBVIOUS
  <2>3. /\ shown' = [t \in Texts |-> shown'[t]] /\ \A t \in Texts : shown[t] \subseteq shown'[t]
        /\ PoliticalId \in shown'[job[i].text]
    BY <1>2, <2>1 DEF JudgmentInv, JobsOK, Shows
  <2>4. v.cites \subseteq {Quote(PoliticalId)} /\ Quote(PoliticalId).exact /\ Quote(PoliticalId).id = PoliticalId
    BY <2>2 DEF PoliticalCuratedVerdict, Judged, Quote
  <2>5. Cited(v, shown'[job[i].text]) /\ Guarded(v, "curated")
    BY <2>3, <2>4 DEF Cited, Guarded
  <2>6. Ends(i, v, "curated") /\ Store(i, v)
    BY <2>1, <2>2 DEF Reached
  <2> QED BY <1>1, <1>2, <1>3, <2>3, <2>5, <2>6, VerdictKeeps
<1>5. CASE UNCHANGED shown /\ FastMatch(Ranked(job[i].hits)) # {}
           /\ Reached(i, CuratedVerdict(Ranked(job[i].hits)[Min(FastMatch(Ranked(job[i].hits)))]), "curated")
  <2>1. PICK h : h = Ranked(job[i].hits)[Min(FastMatch(Ranked(job[i].hits)))]
    OBVIOUS
  <2>2. h \in job[i].hits
    BY <1>2, <1>5, <2>1, RankedHits, FirstMatch
  <2>3. PICK v : v = CuratedVerdict(h)
    OBVIOUS
  <2>4. Ends(i, v, "curated") /\ Store(i, v)
    BY <1>5, <2>1, <2>3 DEF Reached
  <2>5. Cited(v, shown'[job[i].text]) /\ Guarded(v, "curated")
    BY <1>2, <1>5, <2>2, <2>3, BorrowedIsCited
  <2>6. shown' = [t \in Texts |-> shown'[t]] /\ \A t \in Texts : shown[t] \subseteq shown'[t]
    BY <1>5 DEF JudgmentInv, JobsOK
  <2> QED BY <1>1, <1>2, <1>3, <2>4, <2>5, <2>6, VerdictKeeps
<1>6. CASE UNCHANGED <<cache, shown>> /\ Goes(i, "route")
  <2>1. "route" \in Working
    BY DEF Working
  <2> QED BY <1>1, <1>2, <1>3, <1>6, <2>1, GoesKeeps
<1> QED BY <1>4, <1>5, <1>6 DEF Borrow

LEMMA RouteKeeps == ASSUME JudgmentInv, NEW i \in 1 .. MaxClaims, Route(i) PROVE JudgmentInv'
<1>1. job[i].pc = "route" /\ ClaimOnly
  BY DEF Route
<1>2. ClaimRight(job[i], shown) /\ job[i].pc \in Working /\ job[i].text \in Texts
  BY <1>1 DEF JudgmentInv, JobsOK, ClaimRight, Working
<1>3. PICK first, more :
        LET found   == first.pages \cup more.pages
            failed  == ~(first.ok /\ more.ok)
        IN /\ IF failed THEN CallFault ELSE NoCallFault
           /\ IF Throws(first, more) THEN Fails(i)
              ELSE /\ Shows(i, found)
                   /\ IF found = {}
                      THEN /\ job' = [job EXCEPT ![i] = [@ EXCEPT !.pc = "done", !.hits = {}, !.verdict = NoEvidence,
                                                        !.by = "silence", !.failed = failed]]
                           /\ Store(i, NoEvidence)
                      ELSE job' = [job EXCEPT ![i].pc = "acquire", ![i].hits = {[id |-> p] : p \in found}] /\ UNCHANGED cache
  BY Zenon DEF Route
<1> DEFINE found  == first.pages \cup more.pages
           failed == ~(first.ok /\ more.ok)
<1>4. callFaults' \in 0 .. MaxCallFaults
  BY <1>3, FaultsCounted
<1>5. CASE Throws(first, more)
  BY <1>1, <1>2, <1>3, <1>4, <1>5, FailsKeeps
<1>6. CASE ~Throws(first, more) /\ found = {}
  <2>1. failed = FALSE
    BY <1>6 DEF Throws
  <2>2. /\ Shows(i, {}) /\ Store(i, NoEvidence)
        /\ job' = [job EXCEPT ![i] = [@ EXCEPT !.pc = "done", !.hits = {}, !.verdict = NoEvidence, !.by = "silence", !.failed = FALSE]]
    BY <1>3, <1>6, <2>1
  <2>3. PICK v : v = NoEvidence
    OBVIOUS
  <2>4. Ends(i, v, "silence") /\ Store(i, v)
    <3>1. PICK c : c = job[i]
      OBVIOUS
    <3>2. ClaimRight(c, shown)
      BY <1>2, <3>1
    <3>3. \A by : [c EXCEPT !.pc = "done", !.hits = {}, !.verdict = v, !.by = by]
                  = [c EXCEPT !.pc = "done", !.hits = {}, !.verdict = v, !.by = by, !.failed = FALSE]
      <4> TAKE by
      <4>1. PICK j : j = [c EXCEPT !.pc = "done", !.hits = {}, !.verdict = v, !.by = by]
        OBVIOUS
      <4>2. PICK g : g = [c EXCEPT !.pc = "done", !.hits = {}, !.verdict = v, !.by = by, !.failed = FALSE]
        OBVIOUS
      <4>3. j = Claim("done", c.text, {}, v, by)
        BY <3>2, <4>1, ClaimEnds, Zenon
      <4>4. g = Claim("done", c.text, {}, v, by)
        BY <3>2, <4>2, ClaimEnds, Zenon
      <4> QED BY <4>1, <4>2, <4>3, <4>4, Zenon
    <3>4. job' = [job EXCEPT ![i] = [c EXCEPT !.pc = "done", !.hits = {}, !.verdict = v, !.by = "silence"]]
      BY <2>2, <2>3, <3>1, <3>3
    <3> QED BY <2>2, <2>3, <3>1, <3>4 DEF Ends
  <2>5. Cited(v, shown'[job[i].text]) /\ Guarded(v, "silence")
    BY <2>3, NothingIsGuarded
  <2>6. shown' = [t \in Texts |-> shown'[t]] /\ \A t \in Texts : shown[t] \subseteq shown'[t]
    BY <1>2, <2>2 DEF JudgmentInv, JobsOK, Shows
  <2> QED BY <1>1, <1>2, <1>4, <2>4, <2>5, <2>6, VerdictKeeps
<1>7. CASE ~Throws(first, more) /\ found # {}
  <2> DEFINE hits == {[id |-> p] : p \in found}
  <2>1. Shows(i, found) /\ job' = [job EXCEPT ![i].pc = "acquire", ![i].hits = hits] /\ UNCHANGED cache
    BY <1>3, <1>7
  <2>2. \A h \in hits : h.id \in found
    OBVIOUS
  <2> HIDE DEF hits, found
  <2> QED BY <1>1, <1>2, <1>4, <2>1, <2>2, HitsKeep
<1> QED BY <1>5, <1>6, <1>7

LEMMA AcquireKeeps == ASSUME JudgmentInv, NEW i \in 1 .. MaxClaims, AcquireVerifySlot(i) PROVE JudgmentInv'
<1>1. job[i].pc = "acquire" /\ ClaimOnly
  BY DEF AcquireVerifySlot
<1>2. job[i].pc \in Working /\ "verify" \in Working
  BY <1>1 DEF Working
<1>3. callFaults' \in 0 .. MaxCallFaults
  BY FaultsCounted DEF AcquireVerifySlot
<1>4. CASE Fails(i)
  BY <1>1, <1>2, <1>3, <1>4, FailsKeeps
<1>5. CASE live + Cardinality(Holders) < VerifySlots /\ Goes(i, "verify") /\ UNCHANGED <<cache, shown>>
  BY <1>1, <1>2, <1>3, <1>5, GoesKeeps
<1> QED BY <1>4, <1>5 DEF AcquireVerifySlot

LEMMA VerifyKeeps == ASSUME JudgmentInv, NEW i \in 1 .. MaxClaims, Verify(i) PROVE JudgmentInv'
<1>1. job[i].pc = "verify" /\ ClaimOnly /\ UNCHANGED shown
  BY DEF Verify
<1>2. /\ ClaimRight(job[i], shown) /\ job[i].pc \in Working /\ job[i].text \in Texts
      /\ \A h \in job[i].hits : h.id \in shown[job[i].text]
  BY <1>1 DEF JudgmentInv, JobsOK, ClaimRight, Working
<1>3. Ids(i) \subseteq shown[job[i].text]
  BY <1>2 DEF Ids
<1>4. callFaults' \in 0 .. MaxCallFaults
  BY FaultsCounted DEF Verify, CallFails
<1>5. shown' = [t \in Texts |-> shown'[t]] /\ \A t \in Texts : shown[t] \subseteq shown'[t]
  BY <1>1 DEF JudgmentInv, JobsOK
<1>6. CASE Fails(i)
  BY <1>1, <1>2, <1>4, <1>6, FailsKeeps
<1>7. CASE \E v \in Judgment(i) : Reached(i, v, "verifier")
  <2>1. PICK v \in Judgment(i) : Reached(i, v, "verifier")
    BY <1>7
  <2>2. Ends(i, v, "verifier") /\ Store(i, v)
    BY <2>1 DEF Reached
  <2>3. Cited(v, shown'[job[i].text]) /\ Guarded(v, "verifier")
    BY <1>1, <1>3, <2>1, JudgmentIsGuarded DEF Cited
  <2> QED BY <1>1, <1>2, <1>4, <1>5, <2>2, <2>3, VerdictKeeps
<1>8. CASE \E v \in Judgment(i) :
             Qualifies(v) /\ job' = [job EXCEPT ![i].pc = "reverify", ![i].verdict = v] /\ UNCHANGED cache
  <2>1. PICK v \in Judgment(i) :
          Qualifies(v) /\ job' = [job EXCEPT ![i].pc = "reverify", ![i].verdict = v] /\ UNCHANGED cache
    BY <1>8
  <2>2. PICK j : j = [job[i] EXCEPT !.pc = "reverify", !.verdict = v]
    OBVIOUS
  <2>3. job' = [job EXCEPT ![i] = j]
    BY <2>1, <2>2 DEF JudgmentInv, JobsOK
  <2>4. j = [pc |-> "reverify", text |-> job[i].text, hits |-> job[i].hits, failed |-> FALSE, verdict |-> v, by |-> job[i].by]
    BY <1>2, <2>2, ClaimFields, Zenon DEF Claim
  <2>5. Grounded(v) /\ Cited(v, shown[job[i].text])
    BY <1>3, <2>1, JudgmentIsGuarded DEF Cited, Guarded, Grounded, Qualifies
  <2>6. ClaimRight(j, shown')
    BY <1>1, <1>2, <2>4, <2>5 DEF ClaimRight, Working
  <2>7. CacheOK' /\ j.pc # "verify"
    BY <1>1, <2>1, <2>4 DEF JudgmentInv, CacheOK
  <2> QED BY <1>1, <1>4, <1>5, <2>3, <2>6, <2>7, ClaimMoves
<1> QED BY <1>6, <1>7, <1>8 DEF Verify, LiteralJudgment

LEMMA ReverifyKeeps == ASSUME JudgmentInv, NEW i \in 1 .. MaxClaims, Reverify(i) PROVE JudgmentInv'
<1>1. job[i].pc = "reverify" /\ ClaimOnly /\ UNCHANGED shown
  BY DEF Reverify
<1>2. callFaults' \in 0 .. MaxCallFaults
  BY FaultsCounted DEF Reverify, CallFails
<1>3. /\ ClaimRight(job[i], shown) /\ job[i].pc \in Working /\ job[i].text \in Texts
      /\ Grounded(job[i].verdict) /\ Cited(job[i].verdict, shown[job[i].text])
      /\ Ids(i) \subseteq shown[job[i].text]
  BY <1>1 DEF JudgmentInv, JobsOK, ClaimRight, Working, Ids
<1>4. PICK fast : fast = job[i].verdict
  OBVIOUS
<1>5. PICK v : Reached(i, v, "verifier") /\ (v = fast \/ v \in Judgment(i))
  BY <1>4 DEF Reverify, DeeperJudgment, Upgrade
<1>6. Ends(i, v, "verifier") /\ Store(i, v)
  BY <1>5 DEF Reached
<1>7. Cited(v, shown'[job[i].text]) /\ Guarded(v, "verifier")
  <2>1. CASE v = fast
    BY <1>1, <1>3, <1>4, <2>1 DEF Guarded, Grounded
  <2>2. CASE v \in Judgment(i)
    BY <1>1, <1>3, <2>2, JudgmentIsGuarded DEF Cited
  <2> QED BY <1>5, <2>1, <2>2
<1>8. shown' = [t \in Texts |-> shown'[t]] /\ \A t \in Texts : shown[t] \subseteq shown'[t]
  BY <1>1 DEF JudgmentInv, JobsOK
<1> QED BY <1>1, <1>2, <1>3, <1>6, <1>7, <1>8, VerdictKeeps

LEMMA NoClaim == (\A found : ClaimRight(NoJob, found)) /\ NoJob.pc = "none"
BY DEF NoJob, ClaimRight

LEMMA PoolOfNone ==
  ASSUME JudgmentInv, Holders' = {}, live' = live
  PROVE  PoolOK'
<1>1. Cardinality({}) = 0 /\ live \in 0 .. MaxLive /\ MaxLive \in Nat /\ MaxLive <= VerifySlots /\ VerifySlots \in Nat
  BY FS_EmptySet, AdjudicationAssumption DEF JudgmentInv, PoolOK
<1> QED BY <1>1 DEF PoolOK

\* The claims of a unit start afresh.
LEMMA StartKeeps ==
  ASSUME JudgmentInv, NEW reply \in Seq(Texts \cup {Blank}), Start(reply), callFaults' \in 0 .. MaxCallFaults,
         UNCHANGED <<mode, cache, live, shown, units>>
  PROVE  JudgmentInv'
<1>1. UnitOK'
  BY DEF JudgmentInv, UnitOK, UnitPoints, Start, Turn
<1>2. ASSUME NEW i \in 1 .. MaxClaims
      PROVE  job'[i].pc # "verify" /\ ClaimRight(job'[i], shown)
  <2>1. job'[i] = IF CleanClaims(reply, i) = {} THEN NoJob
                  ELSE [NoJob EXCEPT !.pc = "lookup", !.text = reply[Min(CleanClaims(reply, i))]]
    BY DEF Start
  <2>2. CASE CleanClaims(reply, i) = {}
    BY <2>1, <2>2 DEF NoJob, ClaimRight, Working
  <2>3. CASE CleanClaims(reply, i) # {}
    <3>1. PICK n : n = Min(CleanClaims(reply, i))
      OBVIOUS
    <3>2. n \in CleanClaims(reply, i)
      <4>1. CleanClaims(reply, i) \subseteq Nat
        BY DEF CleanClaims
      <4> QED BY <2>3, <3>1, <4>1, LeastNat
    <3>3. reply[n] \in Texts
      BY <3>2 DEF CleanClaims
    <3>4. job'[i] = Claim("lookup", reply[n], {}, None, "none")
      BY <2>1, <2>3, <3>1 DEF NoJob, Claim
    <3> QED BY <3>3, <3>4 DEF Claim, ClaimRight, Working
  <2> QED BY <2>2, <2>3
<1>3. job' = [i \in 1 .. MaxClaims |-> job'[i]]
  BY DEF Start
<1>4. JobsOK'
  BY <1>2, <1>3 DEF JudgmentInv, JobsOK
<1>5. CacheOK'
  BY DEF JudgmentInv, CacheOK
<1>6. Holders' = {}
  BY <1>2, <1>3 DEF Holders
<1>7. PoolOK'
  BY <1>6, PoolOfNone
<1> QED BY <1>1, <1>4, <1>5, <1>7 DEF JudgmentInv

LEMMA NextUnitKeeps == ASSUME JudgmentInv, NextUnit PROVE JudgmentInv'
<1>1. UnitOK'
  BY AdjudicationAssumption DEF JudgmentInv, UnitOK, UnitPoints, NextUnit
<1>2. job' = [i \in 1 .. MaxClaims |-> NoJob] /\ UNCHANGED <<cache, live, shown>>
  BY DEF NextUnit
<1>3. JobsOK'
  BY <1>2, NoClaim DEF JudgmentInv, JobsOK
<1>4. CacheOK'
  BY <1>2 DEF JudgmentInv, CacheOK
<1>5. Holders' = {}
  BY <1>2, NoClaim DEF Holders
<1> QED BY <1>1, <1>2, <1>3, <1>4, <1>5, PoolOfNone DEF JudgmentInv

\* The gates and the end of a unit move the unit alone.
LEMMA UnitMoves ==
  ASSUME JudgmentInv, UNCHANGED <<mode, job, cache, live, shown, units>>, callFaults' \in 0 .. MaxCallFaults,
         unit' = [pc |-> unit'.pc, matches |-> unit'.matches], unit'.pc \in UnitPoints, unit'.matches \in Seq(Hits)
  PROVE  JudgmentInv'
<1>1. UnitOK'
  BY DEF JudgmentInv, UnitOK
<1>2. JobsOK' /\ CacheOK' /\ PoolOK'
  BY DEF JudgmentInv, JobsOK, CacheOK, PoolOK, Holders
<1> QED BY <1>1, <1>2 DEF JudgmentInv

LEMMA TurnKeeps ==
  ASSUME JudgmentInv, UNCHANGED <<mode, job, cache, live, shown, units>>, callFaults' \in 0 .. MaxCallFaults,
         NEW to \in UnitPoints, Turn(to)
  PROVE  JudgmentInv'
<1>1. PICK p, m : unit = [pc |-> p, matches |-> m] /\ m \in Seq(Hits)
  BY DEF JudgmentInv, UnitOK
<1>2. unit \in [pc : {p}, matches : {m}]
  BY <1>1
<1>3. unit' \in [pc : {to}, matches : {m}]
  BY <1>2 DEF Turn
<1>4. unit'.pc = to /\ unit'.matches = m /\ unit' = [pc |-> unit'.pc, matches |-> unit'.matches]
  BY <1>3
<1> QED BY <1>1, <1>4, UnitMoves

LEMMA CascadeCounts ==
  ASSUME JudgmentInv, NEW worthy, Cascade(worthy)
  PROVE  callFaults' \in 0 .. MaxCallFaults
BY FaultsCounted DEF Cascade, CallFails

LEMMA GatesKeep == ASSUME JudgmentInv, ClaimGate \/ Gate \/ Match \/ Gather PROVE JudgmentInv'
<1>1. CASE ClaimGate
  <2>1. PICK worthy \in BOOLEAN : Cascade(worthy) /\ Turn(IF worthy THEN "decompose" ELSE "skipped")
    BY <1>1 DEF ClaimGate
  <2>2. (IF worthy THEN "decompose" ELSE "skipped") \in UnitPoints
    BY DEF UnitPoints
  <2> QED BY <1>1, <2>1, <2>2, CascadeCounts, TurnKeeps DEF ClaimGate
<1>2. CASE Gate
  <2>1. UNCHANGED <<mode, job, cache, live, shown, units>> /\ {"match", "skipped", "failed"} \subseteq UnitPoints
    BY <1>2 DEF Gate, UnitPoints
  <2>2. CASE SearchFails /\ Turn("failed")
    BY <2>1, <2>2, FaultsCounted, TurnKeeps DEF SearchFails
  <2>3. CASE \E worthy \in BOOLEAN, hits \in SUBSET Hits :
               Cascade(worthy) /\ Turn(IF worthy /\ CoveredBy(hits) THEN "match" ELSE "skipped")
    <3>1. PICK worthy, to : to \in {"match", "skipped"} /\ Cascade(worthy) /\ Turn(to)
      BY <2>3
    <3> QED BY <2>1, <3>1, CascadeCounts, TurnKeeps
  <2> QED BY <1>2, <2>2, <2>3 DEF Gate
<1>3. CASE Match
  <2>1. UNCHANGED <<mode, job, cache, live, shown, units>> /\ "failed" \in UnitPoints /\ "done" \in UnitPoints
    BY <1>3 DEF Match, UnitPoints
  <2>2. CASE SearchFails /\ Turn("failed")
    BY <2>1, <2>2, FaultsCounted, TurnKeeps DEF SearchFails
  <2>3. CASE NoCallFault /\ \E hits \in SUBSET Hits : unit' = [pc |-> "done", matches |-> MatchSegment(hits)]
    <3>1. PICK hits \in SUBSET Hits : unit' = [pc |-> "done", matches |-> MatchSegment(hits)]
      BY <2>3
    <3>2. MatchSegment(hits) \in Seq(Hits)
      <4>1. MatchSegment(hits) \in Seq(hits) /\ hits \subseteq Hits
        BY RankedHits
      <4> QED BY <4>1
    <3>3. unit'.pc = "done" /\ unit'.matches = MatchSegment(hits)
      BY <3>1
    <3> QED BY <2>1, <2>3, <3>1, <3>2, <3>3, FaultsCounted, UnitMoves
  <2> QED BY <1>3, <2>2, <2>3 DEF Match
<1>4. CASE Gather
  <2>1. "done" \in UnitPoints
    BY DEF UnitPoints
  <2>2. callFaults' \in 0 .. MaxCallFaults
    BY <1>4 DEF Gather, JudgmentInv, UnitOK
  <2> QED BY <1>4, <2>1, <2>2, TurnKeeps DEF Gather
<1> QED BY <1>1, <1>2, <1>3, <1>4

LEMMA DecomposeKeeps == ASSUME JudgmentInv, Decompose PROVE JudgmentInv'
<1>1. callFaults' \in 0 .. MaxCallFaults /\ UNCHANGED <<mode, cache, live, shown, units>>
  BY FaultsCounted DEF Decompose, CallFails
<1>2. CASE \E reply \in Replies : Start(reply)
  <2>1. PICK reply \in Replies : Start(reply)
    BY <1>2
  <2>2. reply \in Seq(Texts \cup {Blank})
    BY TextsAssumption
  <2> QED BY <1>1, <2>1, <2>2, StartKeeps
<1>3. CASE Start(<<Statement>>)
  <2>1. <<Statement>> \in Seq(Texts \cup {Blank})
    <3>1. Statement \in Texts \cup {Blank}
      BY TextsAssumption, Zenon
    <3> QED BY <3>1
  <2> QED BY <1>1, <1>3, <2>1, StartKeeps
<1> QED BY <1>2, <1>3 DEF Decompose

LEMMA LiveSessionsKeep == ASSUME JudgmentInv, LiveSessions PROVE JudgmentInv'
<1>1. UNCHANGED <<mode, unit, job, cache, shown, units, callFaults>>
  BY DEF LiveSessions
<1>2. UnitOK' /\ JobsOK' /\ CacheOK' /\ Holders' = Holders
  BY <1>1 DEF JudgmentInv, UnitOK, JobsOK, CacheOK, Holders
<1>3. Cardinality(Holders) \in Nat /\ MaxLive \in Nat /\ VerifySlots \in Nat
  BY HoldersAreFinite, AdjudicationAssumption
<1>4. PoolOK'
  BY <1>2, <1>3 DEF JudgmentInv, PoolOK, LiveSessions, LiveHolds, LiveReleases
<1> QED BY <1>2, <1>4 DEF JudgmentInv

LEMMA ExpireKeeps == ASSUME JudgmentInv, NEW t \in Texts, Expire(t) PROVE JudgmentInv'
<1>1. UNCHANGED <<mode, unit, job, live, shown, units, callFaults>> /\ cache' = [cache EXCEPT ![t] = None]
  BY DEF Expire
<1>2. UnitOK' /\ JobsOK' /\ PoolOK'
  BY <1>1 DEF JudgmentInv, UnitOK, JobsOK, PoolOK, Holders
<1>3. CacheOK'
  BY <1>1 DEF JudgmentInv, CacheOK
<1> QED BY <1>2, <1>3 DEF JudgmentInv

-----------------------------------------------------------------------------
(* The theorems about judgment.                                            *)

AdjudicationRuns == InitAdjudication /\ [][NextAdjudication]_adjudicationVars

LEMMA JudgmentInit == InitAdjudication => JudgmentInv
<1> SUFFICES ASSUME InitAdjudication PROVE JudgmentInv
  OBVIOUS
<1>1. UnitOK
  BY AdjudicationAssumption DEF InitAdjudication, UnitOK, UnitPoints
<1>2. JobsOK
  BY NoClaim DEF InitAdjudication, JobsOK
<1>3. CacheOK
  BY DEF InitAdjudication, CacheOK
<1>4. Holders = {}
  BY NoClaim DEF InitAdjudication, Holders
<1>5. PoolOK
  <2>1. Cardinality({}) = 0
    BY FS_EmptySet
  <2> QED BY <1>4, <2>1, AdjudicationAssumption DEF InitAdjudication, PoolOK
<1> QED BY <1>1, <1>2, <1>3, <1>5 DEF JudgmentInv

LEMMA JudgmentStep == JudgmentInv /\ [NextAdjudication]_adjudicationVars => JudgmentInv'
<1> SUFFICES ASSUME JudgmentInv, [NextAdjudication]_adjudicationVars PROVE JudgmentInv'
  OBVIOUS
<1>1. CASE NextUnit
  BY <1>1, NextUnitKeeps
<1>2. CASE ClaimGate \/ Gate \/ Match \/ Gather
  BY <1>2, GatesKeep
<1>3. CASE Decompose
  BY <1>3, DecomposeKeeps
<1>4. CASE LiveSessions
  BY <1>4, LiveSessionsKeep
<1>5. CASE \E i \in DOMAIN job : Judge(i)
  <2>1. PICK i \in 1 .. MaxClaims : Judge(i)
    BY <1>5, HoldersAreFinite
  <2> QED BY <2>1, LookupKeeps, RetrieveKeeps, BorrowKeeps, RouteKeeps, AcquireKeeps, VerifyKeeps, ReverifyKeeps DEF Judge
<1>6. CASE \E t \in Texts : Expire(t)
  BY <1>6, ExpireKeeps
<1>7. CASE UNCHANGED adjudicationVars
  BY <1>7 DEF adjudicationVars, JudgmentInv, UnitOK, JobsOK, CacheOK, PoolOK, Holders
<1> QED BY <1>1, <1>2, <1>3, <1>4, <1>5, <1>6, <1>7 DEF NextAdjudication

LEMMA InvIsJudgmentSound == JudgmentInv => JudgmentSound
<1> SUFFICES ASSUME JudgmentInv PROVE JudgmentSound
  OBVIOUS
<1>1. DOMAIN job = 1 .. MaxClaims /\ \A i \in 1 .. MaxClaims : ClaimRight(job[i], shown)
  BY HoldersAreFinite DEF JudgmentInv, JobsOK
<1>2. AdjudicationTypeOK
  BY <1>1 DEF JudgmentInv, UnitOK, UnitPoints, PoolOK, AdjudicationTypeOK, ClaimRight
<1>3. CitationsHold
  BY <1>1 DEF CitationsHold, AnsweredClaims, ClaimRight, Cited, Guarded
<1>4. KnowledgeStaysCapped
  BY <1>1 DEF KnowledgeStaysCapped, AnsweredClaims, ClaimRight, Guarded
<1>5. SilenceIsHonest
  <2>1. \A i \in 1 .. MaxClaims : job[i].failed = FALSE
    BY <1>1 DEF ClaimRight
  <2> QED BY <1>1, <2>1 DEF SilenceIsHonest, AnsweredClaims
<1>6. ScoreIsExplained
  BY WeightsAddUp DEF JudgmentInv, UnitOK, ScoreIsExplained
<1> QED BY <1>2, <1>3, <1>4, <1>5, <1>6 DEF JudgmentSound

\* A result cites what was found for its claim, what a model says without a
\* citation never looks certain, silence means that no source failed, and a
\* score counts the weights shown with it.
THEOREM JudgmentIsSound == AdjudicationRuns => []JudgmentSound
<1>1. AdjudicationRuns => []JudgmentInv
  BY JudgmentInit, JudgmentStep, PTL DEF AdjudicationRuns
<1> QED BY <1>1, InvIsJudgmentSound, PTL

\* A claim judges itself alone.
LEMMA JudgesItself ==
  ASSUME JudgmentInv, NEW k \in 1 .. MaxClaims, Judge(k), NEW i \in 1 .. MaxClaims, i # k
  PROVE  job'[i] = job[i]
<1>0. DOMAIN job = 1 .. MaxClaims
  BY HoldersAreFinite
<1>1. CASE Lookup(k)
  BY <1>0, <1>1 DEF Lookup, Ends, Goes
<1>2. CASE Retrieve(k)
  BY <1>0, <1>2 DEF Retrieve, Fails, Reached, Ends
<1>3. CASE Borrow(k)
  BY <1>0, <1>3 DEF Borrow, Reached, Ends, Goes
<1>4. CASE Route(k)
  BY <1>0, <1>4 DEF Route, Fails
<1>5. CASE AcquireVerifySlot(k)
  BY <1>0, <1>5 DEF AcquireVerifySlot, Fails, Goes
<1>6. CASE Verify(k)
  BY <1>0, <1>6 DEF Verify, Fails, Reached, Ends
<1>7. CASE Reverify(k)
  BY <1>0, <1>7 DEF Reverify, Reached, Ends
<1> QED BY <1>1, <1>2, <1>3, <1>4, <1>5, <1>6, <1>7 DEF Judge

LEMMA ReverifyUpgrades ==
  ASSUME JudgmentInv, NEW i \in 1 .. MaxClaims, Reverify(i)
  PROVE  Grounded(job'[i].verdict)
<1>1. ClaimRight(job[i], shown) /\ Grounded(job[i].verdict) /\ DOMAIN job = 1 .. MaxClaims
  BY HoldersAreFinite DEF Reverify, JudgmentInv, JobsOK, ClaimRight
<1>2. PICK c : c = job[i]
  OBVIOUS
<1>3. PICK v : Ends(i, v, "verifier") /\ (v = c.verdict \/ \E reasoned : v = Upgrade(c.verdict, reasoned))
  BY <1>2 DEF Reverify, Reached
<1>4. Grounded(v)
  BY <1>1, <1>2, <1>3 DEF Upgrade, Grounded
<1>5. job'[i] = [c EXCEPT !.pc = "done", !.hits = {}, !.verdict = v, !.by = "verifier"]
  BY <1>1, <1>2, <1>3 DEF Ends
<1>6. job'[i] = Claim("done", c.text, {}, v, "verifier")
  <2>1. PICK j, by : by = "verifier" /\ j = [c EXCEPT !.pc = "done", !.hits = {}, !.verdict = v, !.by = by]
    OBVIOUS
  <2>2. ClaimRight(c, shown)
    BY <1>1, <1>2
  <2>3. j = Claim("done", c.text, {}, v, by)
    BY <2>1, <2>2, ClaimEnds, Zenon
  <2> QED BY <1>5, <2>1, <2>3
<1>7. job'[i].verdict = v
  BY <1>6 DEF Claim
<1> QED BY <1>4, <1>7, Zenon

LEMMA NoneIsDowngraded ==
  ASSUME JudgmentInv, [NextAdjudication]_adjudicationVars, NEW i \in DOMAIN job,
         job[i].pc = "reverify", job'[i].pc = "done"
  PROVE  job'[i].verdict.basis = "evidence" /\ job'[i].verdict.cites # {}
<1>1. i \in 1 .. MaxClaims /\ job'[i] # job[i]
  BY HoldersAreFinite
<1>2. CASE NextUnit \/ Decompose
  <2>1. job'[i].pc \in {"none", "lookup"}
    <3>1. CASE NextUnit
      BY <1>1, <3>1, NoClaim DEF NextUnit
    <3>2. CASE Decompose
      <4>1. PICK reply : Start(reply)
        BY <3>2 DEF Decompose
      <4> QED BY <1>1, <4>1 DEF Start, NoJob
    <3> QED BY <1>2, <3>1, <3>2
  <2> QED BY <2>1
<1>3. CASE \E k \in DOMAIN job : Judge(k)
  <2>1. PICK k \in 1 .. MaxClaims : Judge(k)
    BY <1>3, HoldersAreFinite
  <2>2. k = i
    BY <1>1, <2>1, JudgesItself
  <2>3. Reverify(i)
    BY <2>1, <2>2 DEF Judge, Lookup, Retrieve, Borrow, Route, AcquireVerifySlot, Verify
  <2> QED BY <1>1, <2>3, ReverifyUpgrades DEF Grounded
<1>4. CASE UNCHANGED job
  BY <1>1, <1>4
<1> QED BY <1>2, <1>3, <1>4
     DEF NextAdjudication, ClaimGate, Gate, Match, Gather, LiveSessions, Expire, adjudicationVars

\* A second look never trades a grounded verdict for an ungrounded one.
THEOREM NothingIsDowngraded == AdjudicationRuns => NeverDowngraded
<1>1. JudgmentInv /\ [NextAdjudication]_adjudicationVars =>
        [\A i \in DOMAIN job :
           job[i].pc = "reverify" /\ job'[i].pc = "done" =>
             job'[i].verdict.basis = "evidence" /\ job'[i].verdict.cites # {}]_adjudicationVars
  BY NoneIsDowngraded
<1> QED BY <1>1, JudgmentInit, JudgmentStep, PTL DEF AdjudicationRuns, NeverDowngraded

-----------------------------------------------------------------------------
(* The mirror. *)

\* A generation that is gone with everything before it, under a newer one.
Dropped(g) == (\A h \in 1 .. g : mirror[h] = {}) /\ \E h \in g + 1 .. newest : Complete(h)

\* It once had both files.
WasWhole(g) == g = 0 \/ Complete(g) \/ Dropped(g)

\* The generations that the disk and its records speak of.
StoredOf(f) == {disk[f], sidecar[f]}
Stored == StoredOf("dump") \cup StoredOf("index")
Fetching == {"local", "copy", "record", "fetched"}

\* A run that probes is not below what is stored, unless that is gone.
Probing ==
  fetch.pc = "head" =>
    /\ fetch.gen >= 1 /\ fetch.candidates = 1 .. fetch.gen
    /\ \A d \in Stored : d <= fetch.gen \/ Dropped(d)
    /\ fetch.file = "index" => "dump" \in mirror[fetch.gen] \/ Dropped(fetch.gen)

\* A run that has chosen is not below what is stored, and what it has is its own.
Copying ==
  fetch.pc \in Fetching =>
    /\ fetch.gen >= 1 /\ WasWhole(fetch.gen) /\ \A d \in Stored : d <= fetch.gen
    /\ fetch.file = "index" \/ fetch.pc = "fetched" => disk["dump"] = fetch.gen
    /\ fetch.pc = "record" => disk[fetch.file] = fetch.gen
    /\ fetch.pc = "fetched" => disk["index"] = fetch.gen

RecordsBehind == \A f \in Files : disk[f] # 0 => sidecar[f] <= disk[f]
StoredWhole == \A d \in Stored : WasWhole(d)

MirrorInv == MirrorTypeOK /\ StoredWhole /\ Probing /\ Copying /\ RecordsBehind

MirrorStands == UNCHANGED <<newest, mirror>>
MirrorMoves == List \/ \E g \in 1 .. Generations : Drop(g) \/ \E f \in Files : PublishFile(g, f)

LEMMA MaxBelow ==
  ASSUME NEW g \in Nat, g >= 2
  PROVE  Max((1 .. g) \ {g}) = g - 1
<1>1. g - 1 \in (1 .. g) \ {g} /\ \A y \in (1 .. g) \ {g} : g - 1 >= y
  OBVIOUS
<1>2. \A x \in (1 .. g) \ {g} : (\A y \in (1 .. g) \ {g} : x >= y) => x = g - 1
  BY <1>1
<1> QED BY <1>1, <1>2, Zenon DEF Max

\* What is gone stays gone.
LEMMA DroppedStays ==
  ASSUME MirrorTypeOK, MirrorMoves \/ MirrorStands, NEW d \in Nat, Dropped(d)
  PROVE  Dropped(d)'
<1> USE MirrorAssumption
<1>1. PICK n \in d + 1 .. newest : Complete(n)
  BY DEF Dropped
<1>2. n \in 1 .. Generations /\ newest \in Nat /\ Generations \in Nat /\ Files # {}
  BY <1>1 DEF MirrorTypeOK, Files
<1>3. CASE MirrorStands
  BY <1>1, <1>3 DEF MirrorStands, Dropped, Complete
<1>4. CASE List
  BY <1>1, <1>2, <1>4 DEF List, Dropped, Complete
<1>5. ASSUME NEW g \in 1 .. Generations, NEW f \in Files, PublishFile(g, f)
      PROVE  Dropped(d)'
  <2>1. g > n
    BY <1>1, <1>2, <1>5 DEF PublishFile, MirrorTypeOK
  <2>2. \A h \in 1 .. n : mirror'[h] = mirror[h]
    BY <2>1, <1>2, <1>5 DEF PublishFile, MirrorTypeOK
  <2>3. newest' = newest
    BY <1>5 DEF PublishFile
  <2> QED BY <1>1, <1>2, <2>1, <2>2, <2>3 DEF Dropped, Complete
<1>6. ASSUME NEW g \in 1 .. Generations, Drop(g)
      PROVE  Dropped(d)'
  <2>1. \A h \in 1 .. Generations : mirror'[h] = IF h = g THEN {} ELSE mirror[h]
    BY <1>6 DEF Drop, MirrorTypeOK
  <2>2. newest' = newest
    BY <1>6 DEF Drop
  <2>3. \A h \in 1 .. d : mirror'[h] = {}
    BY <1>1, <1>2, <2>1 DEF Dropped, MirrorTypeOK
  <2>4. CASE g # n
    BY <1>1, <1>2, <2>1, <2>2, <2>3, <2>4 DEF Dropped, Complete
  <2>5. CASE g = n
    <3>1. PICK m \in n + 1 .. newest : Complete(m)
      BY <1>6, <2>5 DEF Drop
    <3>2. m \in d + 1 .. newest' /\ m \in 1 .. Generations /\ m # g
      BY <3>1, <1>1, <1>2, <2>2, <2>5 DEF MirrorTypeOK
    <3>3. Complete(m)'
      BY <3>1, <3>2, <2>1 DEF Complete
    <3> QED BY <3>2, <3>3, <2>3 DEF Dropped
  <2> QED BY <2>4, <2>5
<1> QED BY <1>3, <1>4, <1>5, <1>6 DEF MirrorMoves

\* What was complete is complete or gone.
LEMMA WholeStays ==
  ASSUME MirrorTypeOK, MirrorMoves \/ MirrorStands, NEW d \in 0 .. newest, WasWhole(d)
  PROVE  WasWhole(d)'
<1> USE MirrorAssumption
<1>1. CASE d = 0
  BY <1>1 DEF WasWhole
<1>2. CASE Dropped(d)
  BY <1>2, DroppedStays DEF WasWhole, MirrorTypeOK
<1>3. CASE d # 0 /\ Complete(d)
  <2>1. d \in 1 .. Generations /\ d <= newest /\ newest \in Nat /\ Files # {}
    BY <1>3 DEF MirrorTypeOK, Files
  <2>2. CASE MirrorStands \/ List
    BY <1>3, <2>2 DEF MirrorStands, List, WasWhole, Complete
  <2>3. ASSUME NEW g \in 1 .. Generations, NEW f \in Files, PublishFile(g, f)
        PROVE  Complete(d)'
    BY <1>3, <2>1, <2>3 DEF PublishFile, Complete, MirrorTypeOK
  <2>4. ASSUME NEW g \in 1 .. Generations, Drop(g), g # d
        PROVE  Complete(d)'
    BY <1>3, <2>1, <2>4 DEF Drop, Complete, MirrorTypeOK
  <2>5. ASSUME Drop(d)
        PROVE  Dropped(d)'
    <3>1. \A h \in 1 .. Generations : mirror'[h] = IF h = d THEN {} ELSE mirror[h]
      BY <2>5 DEF Drop, MirrorTypeOK
    <3>2. PICK n \in d + 1 .. newest : Complete(n)
      BY <2>5 DEF Drop
    <3>3. n \in d + 1 .. newest' /\ Complete(n)'
      BY <2>5, <3>1, <3>2, <2>1 DEF Drop, Complete, MirrorTypeOK
    <3>4. \A h \in 1 .. d : mirror'[h] = {}
      BY <2>5, <3>1, <2>1 DEF Drop, MirrorTypeOK
    <3> QED BY <3>3, <3>4 DEF Dropped
  <2> QED BY <2>2, <2>3, <2>4, <2>5 DEF WasWhole, MirrorMoves
<1> QED BY <1>1, <1>2, <1>3 DEF WasWhole

\* The parts that speak of the mirror, over its own steps.
LEMMA MirrorMovesKeep ==
  ASSUME MirrorInv, MirrorMoves
  PROVE  MirrorInv'
<1> USE MirrorAssumption
<1>1. UNCHANGED <<disk, sidecar, fetch, mishaps>> /\ newest <= newest' /\ newest' \in 1 .. Generations
  BY DEF MirrorMoves, List, PublishFile, Drop, MirrorInv, MirrorTypeOK
<1>2. newest \in Nat /\ newest' \in Nat /\ \A d \in Stored : d \in 0 .. newest
  <2>1. newest \in 1 .. Generations /\ disk \in [Files -> 0 .. newest] /\ sidecar \in [Files -> 0 .. newest]
    BY DEF MirrorInv, MirrorTypeOK
  <2> QED BY <1>1, <2>1 DEF Stored, StoredOf, Files
<1>3. MirrorTypeOK'
  <2>1. mirror' \in [1 .. Generations -> SUBSET Files]
    <3>1. mirror \in [1 .. Generations -> SUBSET Files]
      BY DEF MirrorInv, MirrorTypeOK
    <3>2. CASE List
      BY <3>1, <3>2 DEF List
    <3>3. ASSUME NEW g \in 1 .. Generations, NEW f \in Files, PublishFile(g, f)
          PROVE  mirror' \in [1 .. Generations -> SUBSET Files]
      BY <3>1, <3>3 DEF PublishFile
    <3>4. ASSUME NEW g \in 1 .. Generations, Drop(g)
          PROVE  mirror' \in [1 .. Generations -> SUBSET Files]
      BY <3>1, <3>4 DEF Drop
    <3> QED BY <3>2, <3>3, <3>4 DEF MirrorMoves
  <2> QED BY <1>1, <2>1 DEF MirrorInv, MirrorTypeOK
<1>4. Stored' = Stored
  BY <1>1 DEF Stored, StoredOf
<1>5. StoredWhole'
  BY <1>2, <1>4, WholeStays DEF StoredWhole, MirrorInv
<1>6. ASSUME fetch.pc = "head"
      PROVE  Probing'
  <2>1. fetch.gen \in 1 .. newest
    BY <1>6 DEF MirrorInv, MirrorTypeOK, Probing
  <2>2. \A d \in Stored : d <= fetch.gen \/ Dropped(d)'
    BY <1>2, <1>6, DroppedStays DEF MirrorInv, Probing
  <2>3. CASE fetch.file = "index" /\ Dropped(fetch.gen)
    BY <1>1, <1>4, <1>6, <2>1, <2>2, <2>3, DroppedStays DEF MirrorInv, Probing
  <2>4. CASE fetch.file = "index" /\ "dump" \in mirror[fetch.gen] /\ ~ Dropped(fetch.gen)
    <3>1. "dump" \in mirror'[fetch.gen] \/ Dropped(fetch.gen)'
      <4>1. CASE List
        BY <2>4, <4>1 DEF List
      <4>2. ASSUME NEW g \in 1 .. Generations, NEW f \in Files, PublishFile(g, f)
            PROVE  "dump" \in mirror'[fetch.gen]
        BY <2>1, <2>4, <4>2 DEF PublishFile, MirrorInv, MirrorTypeOK
      <4>3. ASSUME NEW g \in 1 .. Generations, Drop(g), g # fetch.gen
            PROVE  "dump" \in mirror'[fetch.gen]
        BY <2>1, <2>4, <4>3 DEF Drop, MirrorInv, MirrorTypeOK
      <4>4. ASSUME Drop(fetch.gen)
            PROVE  Dropped(fetch.gen)'
        <5>1. PICK n \in fetch.gen + 1 .. newest : Complete(n)
          BY <4>4 DEF Drop
        <5>2. \A h \in 1 .. Generations : mirror'[h] = IF h = fetch.gen THEN {} ELSE mirror[h]
          BY <4>4 DEF Drop, MirrorInv, MirrorTypeOK
        <5>3. n \in fetch.gen + 1 .. newest' /\ Complete(n)'
          BY <1>1, <5>1, <5>2, <2>1 DEF Complete, MirrorInv, MirrorTypeOK
        <5>4. \A h \in 1 .. fetch.gen : mirror'[h] = {}
          <6>1. newest <= Generations /\ \A h \in 1 .. fetch.gen - 1 : mirror[h] = {}
            BY <4>4 DEF Drop, MirrorInv, MirrorTypeOK
          <6> QED BY <1>2, <6>1, <5>2, <2>1
        <5> QED BY <1>1, <5>3, <5>4 DEF Dropped
      <4> QED BY <4>1, <4>2, <4>3, <4>4 DEF MirrorMoves
    <3> QED BY <1>1, <1>4, <1>6, <2>2, <3>1 DEF MirrorInv, Probing
  <2> QED BY <1>1, <1>4, <1>6, <2>2, <2>3, <2>4 DEF MirrorInv, Probing
<1>7. ASSUME fetch.pc \in Fetching
      PROVE  Copying'
  <2>1. fetch.gen \in 0 .. newest
    BY DEF MirrorInv, MirrorTypeOK
  <2>2. WasWhole(fetch.gen)'
    BY <1>1, <1>7, <2>1, WholeStays DEF MirrorInv, Copying
  <2> QED BY <1>1, <1>4, <1>7, <2>2 DEF MirrorInv, Copying
<1>8. RecordsBehind'
  BY <1>1 DEF MirrorInv, RecordsBehind
<1> QED BY <1>1, <1>3, <1>5, <1>6, <1>7, <1>8 DEF MirrorInv, Probing, Copying

\* Over the run's steps nothing on the mirror changes.
LEMMA StandingKeeps ==
  ASSUME MirrorInv, MirrorStands
  PROVE  \A d \in Nat : (Dropped(d)' <=> Dropped(d)) /\ (WasWhole(d)' <=> WasWhole(d))
BY DEF MirrorStands, Dropped, WasWhole, Complete

\* The steps that end a run, or read what it fetched.
LEMMA EndsKeep ==
  ASSUME MirrorInv, EndFetch \/ StopFetch
  PROVE  MirrorInv'
<1>1. UNCHANGED <<newest, mirror, disk, sidecar>> /\ fetch' = NoFetch /\ mishaps' \in 0 .. MaxMishaps
  BY MirrorAssumption DEF EndFetch, StopFetch, Mishap, MirrorInv, MirrorTypeOK
<1>2. MirrorTypeOK'
  BY <1>1, MirrorAssumption DEF MirrorInv, MirrorTypeOK, NoFetch, Files
<1>3. StoredWhole' /\ RecordsBehind'
  BY <1>1 DEF MirrorInv, StoredWhole, Stored, StoredOf, RecordsBehind, WasWhole, Dropped, Complete
<1> QED BY <1>1, <1>2, <1>3 DEF MirrorInv, Probing, Copying, NoFetch, Fetching

LEMMA StartFetchKeeps ==
  ASSUME MirrorInv, StartFetch
  PROVE  MirrorInv'
<1> USE MirrorAssumption
<1>1. UNCHANGED <<newest, mirror, disk, sidecar, mishaps>>
      /\ fetch' = [pc |-> "head", candidates |-> 1 .. newest, gen |-> newest, file |-> "dump"]
  BY DEF StartFetch, NoFetch
<1>2. MirrorTypeOK'
  BY <1>1 DEF MirrorInv, MirrorTypeOK, Files
<1>3. StoredWhole' /\ RecordsBehind'
  BY <1>1 DEF MirrorInv, StoredWhole, Stored, StoredOf, RecordsBehind, WasWhole, Dropped, Complete
<1>4. Probing'
  <2>1. Stored' = Stored /\ \A d \in Stored : d <= newest
    BY <1>1 DEF MirrorInv, MirrorTypeOK, Stored, StoredOf, Files
  <2> QED BY <1>1, <2>1 DEF MirrorInv, MirrorTypeOK, Probing
<1> QED BY <1>1, <1>2, <1>3, <1>4 DEF MirrorInv, Copying, Fetching

\* What a step of the run has to show when the mirror stands and no file moves.
LEMMA FetchMovesKeep ==
  ASSUME MirrorInv, UNCHANGED <<newest, mirror, disk, sidecar, mishaps>>,
         fetch' \in [pc : {"off", "head", "local", "copy", "record", "fetched"}, candidates : SUBSET (1 .. newest),
                     gen : 0 .. newest, file : Files],
         Probing', Copying'
  PROVE  MirrorInv'
<1>1. MirrorTypeOK'
  BY DEF MirrorInv, MirrorTypeOK
<1>2. StoredWhole' /\ RecordsBehind'
  BY DEF MirrorInv, StoredWhole, Stored, StoredOf, RecordsBehind, WasWhole, Dropped, Complete
<1> QED BY <1>1, <1>2 DEF MirrorInv

LEMMA HeadFileKeeps ==
  ASSUME MirrorInv, NEW f \in Files, HeadFile(f)
  PROVE  MirrorInv'
<1> USE MirrorAssumption
<1> DEFINE older == fetch.candidates \ {fetch.gen}
<1>1. /\ UNCHANGED <<newest, mirror, disk, sidecar, mishaps>> /\ fetch.pc = "head" /\ fetch.file = f
      /\ fetch' = IF f \in mirror[fetch.gen]
                  THEN IF f = "dump" THEN [fetch EXCEPT !.file = "index"]
                       ELSE [fetch EXCEPT !.pc = "local", !.file = "dump"]
                  ELSE IF older = {} THEN NoFetch
                       ELSE [fetch EXCEPT !.candidates = older, !.gen = Max(older), !.file = "dump"]
  BY DEF HeadFile
<1>2. /\ fetch \in [pc : {"off", "head", "local", "copy", "record", "fetched"}, candidates : SUBSET (1 .. newest),
                    gen : 0 .. newest, file : Files]
      /\ newest \in Nat /\ newest <= Generations /\ mirror \in [1 .. Generations -> SUBSET Files]
  BY DEF MirrorInv, MirrorTypeOK
<1>3. /\ fetch.gen \in 1 .. newest /\ fetch.candidates = 1 .. fetch.gen
      /\ \A d \in Stored : d <= fetch.gen \/ Dropped(d)
      /\ f = "index" => "dump" \in mirror[fetch.gen] \/ Dropped(fetch.gen)
  BY <1>1, <1>2 DEF MirrorInv, Probing
<1>4. /\ Stored' = Stored /\ Stored \subseteq Nat /\ StoredWhole
      /\ \A d \in Nat : (Dropped(d)' <=> Dropped(d)) /\ (WasWhole(d)' <=> WasWhole(d))
  <2>1. Stored \subseteq Nat
    BY <1>2 DEF MirrorInv, MirrorTypeOK, Stored, StoredOf, Files
  <2> QED BY <1>1, <2>1, StandingKeeps DEF MirrorStands, MirrorInv, Stored, StoredOf
<1>5. CASE f = "dump" /\ f \in mirror[fetch.gen]
  <2>1. fetch' = [pc |-> "head", candidates |-> fetch.candidates, gen |-> fetch.gen, file |-> "index"]
    BY <1>1, <1>2, <1>5
  <2>2. Probing' /\ Copying'
    BY <1>1, <1>3, <1>4, <1>5, <2>1 DEF Probing, Copying, Fetching
  <2> QED BY <1>1, <1>2, <2>1, <2>2, FetchMovesKeep DEF Files
<1>6. CASE f # "dump" /\ f \in mirror[fetch.gen]
  <2>1. fetch' = [pc |-> "local", candidates |-> fetch.candidates, gen |-> fetch.gen, file |-> "dump"]
    BY <1>1, <1>2, <1>6
  <2>2. f = "index" /\ mirror[fetch.gen] # {} /\ ~ Dropped(fetch.gen)
    BY <1>3, <1>6 DEF Files, Dropped
  <2>3. Complete(fetch.gen)
    BY <1>2, <1>3, <1>6, <2>2 DEF Complete, Files
  <2>4. \A d \in Stored : d <= fetch.gen
    <3>1. ASSUME NEW d \in Stored, d > fetch.gen
          PROVE  FALSE
      <4>1. Dropped(d) /\ fetch.gen \in 1 .. d
        BY <1>3, <1>4, <3>1
      <4> QED BY <2>2, <4>1 DEF Dropped
    <3>2. PICK g \in Nat : g = fetch.gen
      BY <1>2, <1>3
    <3>3. \A d \in Stored : d \in Nat /\ ~ (d > g)
      BY <1>4, <3>1, <3>2
    <3>4. \A d \in Stored : d <= g
      BY <3>3
    <3> QED BY <3>2, <3>4
  <2>5. WasWhole(fetch.gen)
    BY <2>3 DEF WasWhole
  <2>6. PICK g \in Nat : g = fetch.gen
    BY <1>3
  <2>7. WasWhole(g)' /\ \A d \in Stored' : d <= g
    BY <1>4, <2>4, <2>5, <2>6
  <2>8. fetch'.pc = "local" /\ fetch'.gen = g /\ fetch'.file = "dump" /\ g >= 1
    BY <1>3, <2>1, <2>6
  <2>9. Probing'
    BY <2>8 DEF Probing
  <2>10. WasWhole(fetch.gen)'
    BY <2>7, <2>8 DEF WasWhole, Complete, Dropped
  <2>11. Copying'
    BY <2>7, <2>8, <2>10 DEF Copying
  <2> QED BY <1>1, <1>2, <2>1, <2>9, <2>11, FetchMovesKeep DEF Files
<1>7. CASE f \notin mirror[fetch.gen] /\ older = {}
  <2>1. fetch' = [pc |-> "off", candidates |-> {}, gen |-> 0, file |-> "dump"]
    BY <1>1, <1>7 DEF NoFetch
  <2>2. Probing' /\ Copying'
    BY <2>1 DEF Probing, Copying, Fetching
  <2> QED BY <1>1, <1>2, <2>1, <2>2, FetchMovesKeep DEF Files
<1>8. CASE f \notin mirror[fetch.gen] /\ older # {}
  <2>1. fetch.gen >= 2 /\ older = 1 .. fetch.gen - 1 /\ Max(older) = fetch.gen - 1
    BY <1>3, <1>8, MaxBelow
  <2>2. fetch' = [pc |-> "head", candidates |-> 1 .. fetch.gen - 1, gen |-> fetch.gen - 1, file |-> "dump"]
    BY <1>1, <1>2, <1>8, <2>1
  <2>3. \A d \in Stored : d <= fetch.gen - 1 \/ Dropped(d)
    <3>1. ASSUME fetch.gen \in Stored
          PROVE  Dropped(fetch.gen)
      BY <1>3, <1>4, <1>8, <3>1 DEF StoredWhole, WasWhole, Complete
    <3>2. ASSUME NEW d \in Stored PROVE d <= fetch.gen - 1 \/ Dropped(d)
      <4>1. d \in Nat /\ fetch.gen \in Nat
        BY <1>2, <1>4
      <4>2. d <= fetch.gen \/ Dropped(d)
        BY <1>3
      <4>3. CASE d = fetch.gen
        BY <3>1, <4>3
      <4>4. CASE d # fetch.gen /\ d <= fetch.gen
        BY <4>1, <4>4
      <4> QED BY <4>2, <4>3, <4>4
    <3> QED BY <3>2
  <2>4. Probing' /\ Copying'
    BY <1>3, <1>4, <2>1, <2>2, <2>3 DEF Probing, Copying, Fetching
  <2> QED BY <1>1, <1>2, <1>3, <2>1, <2>2, <2>4, FetchMovesKeep DEF Files
<1> QED BY <1>5, <1>6, <1>7, <1>8

\* What a copying run stands on.
LEMMA CopyingFacts ==
  ASSUME MirrorInv, fetch.pc \in Fetching
  PROVE  /\ fetch \in [pc : {"off", "head", "local", "copy", "record", "fetched"}, candidates : SUBSET (1 .. newest),
                       gen : 0 .. newest, file : Files]
         /\ newest \in Nat /\ fetch.gen \in 1 .. newest /\ WasWhole(fetch.gen)
         /\ \A g \in Files : disk[g] \in 0 .. fetch.gen /\ sidecar[g] \in 0 .. fetch.gen
         /\ disk \in [Files -> 0 .. newest] /\ sidecar \in [Files -> 0 .. newest]
         /\ \A d \in Nat : UNCHANGED <<newest, mirror>> => (WasWhole(d)' <=> WasWhole(d))
<1>1. \A d \in Stored : d <= fetch.gen
  BY DEF MirrorInv, Copying
<1>2. disk \in [Files -> 0 .. newest] /\ sidecar \in [Files -> 0 .. newest] /\ newest \in Nat
  BY MirrorAssumption DEF MirrorInv, MirrorTypeOK
<1>3. fetch.gen \in 1 .. newest /\ WasWhole(fetch.gen)
  BY <1>2 DEF MirrorInv, MirrorTypeOK, Copying
<1>4. \A g \in Files : disk[g] \in Stored /\ sidecar[g] \in Stored
  BY DEF Stored, StoredOf, Files
<1>5. \A g \in Files : disk[g] \in 0 .. fetch.gen /\ sidecar[g] \in 0 .. fetch.gen
  BY <1>1, <1>2, <1>3, <1>4
<1> QED BY <1>2, <1>3, <1>5 DEF MirrorInv, MirrorTypeOK, WasWhole, Dropped, Complete

LEMMA RequestKeeps ==
  ASSUME MirrorInv, NEW f \in Files, Request(f)
  PROVE  MirrorInv'
<1>1. UNCHANGED <<newest, mirror, disk, sidecar, mishaps>> /\ fetch.pc = "local" /\ fetch.pc \in Fetching
  BY DEF Request, Fetching
<1>2. CASE f \notin mirror[fetch.gen]
  <2>1. fetch' = NoFetch
    BY <1>2 DEF Request
  <2> QED BY <1>1, <2>1, CopyingFacts, FetchMovesKeep DEF NoFetch, Files, Probing, Copying, Fetching
<1>3. CASE f \in mirror[fetch.gen]
  <2>1. fetch' = [pc |-> "copy", candidates |-> fetch.candidates, gen |-> fetch.gen, file |-> fetch.file]
    BY <1>1, <1>3, CopyingFacts DEF Request
  <2>2. Stored' = Stored
    BY <1>1 DEF Stored, StoredOf
  <2>3. Copying' /\ Probing'
    BY <1>1, <2>1, <2>2, CopyingFacts DEF MirrorInv, Copying, Probing, Fetching
  <2> QED BY <1>1, <2>1, <2>3, CopyingFacts, FetchMovesKeep
<1> QED BY <1>2, <1>3

\* The file is there and its record with it: on to the next one.
LEMMA NextFileKeeps ==
  ASSUME MirrorInv, NEW f \in Files, fetch.pc \in Fetching, fetch.pc # "fetched", fetch.file = f, disk[f] = fetch.gen,
         UNCHANGED <<newest, mirror, disk, sidecar, mishaps>>, fetch' = NextFile(f)
  PROVE  MirrorInv'
<1>1. Stored' = Stored
  BY DEF Stored, StoredOf
<1>2. CASE f = "dump"
  <2>1. fetch' = [pc |-> "local", candidates |-> fetch.candidates, gen |-> fetch.gen, file |-> "index"]
    BY <1>2, CopyingFacts DEF NextFile
  <2>2. Copying' /\ Probing'
    BY <1>1, <1>2, <2>1, CopyingFacts DEF MirrorInv, Copying, Probing, Fetching
  <2> QED BY <2>1, <2>2, CopyingFacts, FetchMovesKeep DEF Files
<1>3. CASE f = "index"
  <2>1. fetch' = [pc |-> "fetched", candidates |-> fetch.candidates, gen |-> fetch.gen, file |-> "index"]
    BY <1>3, CopyingFacts DEF NextFile
  <2>2. disk["dump"] = fetch.gen
    BY <1>3 DEF MirrorInv, Copying
  <2>3. Copying' /\ Probing'
    BY <1>1, <1>3, <2>1, <2>2, CopyingFacts DEF MirrorInv, Copying, Probing, Fetching
  <2> QED BY <2>1, <2>3, CopyingFacts, FetchMovesKeep DEF Files
<1> QED BY <1>2, <1>3 DEF Files

\* The record names the run's generation, so the bytes are not older; nor newer.
LEMMA ReuseKeeps ==
  ASSUME MirrorInv, NEW f \in Files, Reuse(f)
  PROVE  MirrorInv'
<1>1. fetch.pc \in Fetching /\ fetch.pc # "fetched" /\ fetch.file = f /\ LocalVersion(f) = fetch.gen
  BY DEF Reuse, Fetching
<1>2. fetch.gen \in Nat /\ fetch.gen # 0 /\ disk[f] \in Nat /\ disk[f] <= fetch.gen
  BY <1>1, CopyingFacts
<1>3. disk[f] # 0 /\ sidecar[f] = fetch.gen /\ sidecar[f] <= disk[f]
  BY <1>1, <1>2 DEF LocalVersion, MirrorInv, RecordsBehind
<1>4. disk[f] = fetch.gen
  BY <1>2, <1>3
<1> QED BY <1>1, <1>4, NextFileKeeps DEF Reuse

LEMMA RenameKeeps ==
  ASSUME MirrorInv, NEW f \in Files, Rename(f)
  PROVE  MirrorInv'
<1>1. fetch.pc \in Fetching /\ fetch.pc = "copy" /\ fetch.file = f /\ UNCHANGED <<newest, mirror, sidecar, mishaps>>
  BY DEF Rename, Fetching
<1>2. fetch' = [pc |-> "record", candidates |-> fetch.candidates, gen |-> fetch.gen, file |-> f]
  BY <1>1, CopyingFacts DEF Rename
<1>3. \A g \in Files : disk'[g] = IF g = f THEN fetch.gen ELSE disk[g]
  BY <1>1, CopyingFacts DEF Rename
<1>4. MirrorTypeOK'
  <2>1. disk' \in [Files -> 0 .. newest]
    BY <1>1, CopyingFacts DEF Rename
  <2> QED BY <1>1, <1>2, <2>1, CopyingFacts DEF MirrorInv, MirrorTypeOK
<1>5. \A d \in Stored' : (d \in Stored \/ d = fetch.gen) /\ d <= fetch.gen /\ d \in Nat
  <2>1. Stored' = {disk'["dump"], sidecar["dump"], disk'["index"], sidecar["index"]}
        /\ "dump" \in Files /\ "index" \in Files
    BY <1>1 DEF Stored, StoredOf, Files
  <2> QED BY <1>1, <1>3, <2>1, CopyingFacts DEF Stored, StoredOf
<1>6. StoredWhole'
  BY <1>1, <1>5, CopyingFacts DEF StoredWhole, MirrorInv
<1>7. RecordsBehind'
  BY <1>1, <1>3, CopyingFacts DEF RecordsBehind, MirrorInv
<1>8. Probing' /\ Copying'
  <2>1. f = "index" => disk'["dump"] = fetch.gen
    BY <1>1, <1>3 DEF MirrorInv, Copying, Files
  <2> QED BY <1>1, <1>2, <1>3, <1>5, <2>1, CopyingFacts DEF Probing, Copying
<1> QED BY <1>4, <1>6, <1>7, <1>8 DEF MirrorInv

LEMMA RecordVersionKeeps ==
  ASSUME MirrorInv, NEW f \in Files, RecordVersion(f)
  PROVE  MirrorInv'
<1>1. fetch.pc \in Fetching /\ fetch.pc = "record" /\ fetch.file = f /\ UNCHANGED <<newest, mirror, disk, mishaps>>
  BY DEF RecordVersion, Fetching
<1>2. disk[f] = fetch.gen /\ (f = "index" => disk["dump"] = fetch.gen)
  BY <1>1 DEF MirrorInv, Copying
<1>3. \A g \in Files : sidecar'[g] = IF g = f THEN fetch.gen ELSE sidecar[g]
  BY <1>1, CopyingFacts DEF RecordVersion
<1>4. PICK pc \in {"local", "fetched"}, file \in Files :
        /\ fetch' = [pc |-> pc, candidates |-> fetch.candidates, gen |-> fetch.gen, file |-> file]
        /\ (pc = "local" => f = "dump") /\ (pc = "fetched" => f = "index")
  <2>1. CASE f = "dump"
    <3>1. fetch' = [pc |-> "local", candidates |-> fetch.candidates, gen |-> fetch.gen, file |-> "index"]
      BY <1>1, <2>1, CopyingFacts DEF RecordVersion, NextFile
    <3> QED BY <2>1, <3>1 DEF Files
  <2>2. CASE f = "index"
    <3>1. fetch' = [pc |-> "fetched", candidates |-> fetch.candidates, gen |-> fetch.gen, file |-> "index"]
      BY <1>1, <2>2, CopyingFacts DEF RecordVersion, NextFile
    <3> QED BY <2>2, <3>1 DEF Files
  <2> QED BY <2>1, <2>2 DEF Files
<1>5. MirrorTypeOK'
  <2>1. sidecar' \in [Files -> 0 .. newest]
    BY <1>1, CopyingFacts DEF RecordVersion
  <2> QED BY <1>1, <1>4, <2>1, CopyingFacts DEF MirrorInv, MirrorTypeOK
<1>6. \A d \in Stored' : (d \in Stored \/ d = fetch.gen) /\ d <= fetch.gen /\ d \in Nat
  <2>1. Stored' = {disk["dump"], sidecar'["dump"], disk["index"], sidecar'["index"]}
        /\ "dump" \in Files /\ "index" \in Files
    BY <1>1 DEF Stored, StoredOf, Files
  <2> QED BY <1>1, <1>3, <2>1, CopyingFacts DEF Stored, StoredOf
<1>7. StoredWhole'
  BY <1>1, <1>6, CopyingFacts DEF StoredWhole, MirrorInv
<1>8. RecordsBehind'
  BY <1>1, <1>2, <1>3, CopyingFacts DEF RecordsBehind, MirrorInv
<1>9. Probing' /\ Copying'
  BY <1>1, <1>2, <1>4, <1>6, CopyingFacts DEF Probing, Copying, Files
<1> QED BY <1>5, <1>7, <1>8, <1>9 DEF MirrorInv

LEMMA LoseFileKeeps ==
  ASSUME MirrorInv, NEW f \in Files, LoseFile(f)
  PROVE  MirrorInv'
<1>1. UNCHANGED <<newest, mirror, sidecar, fetch>> /\ fetch.pc = "off" /\ disk \in [Files -> 0 .. newest]
      /\ newest \in Nat /\ mishaps' \in 0 .. MaxMishaps /\ disk' = [disk EXCEPT ![f] = 0]
  BY MirrorAssumption DEF LoseFile, Mishap, MirrorInv, MirrorTypeOK
<1>2. disk' \in [Files -> 0 .. newest] /\ \A g \in Files : disk'[g] = IF g = f THEN 0 ELSE disk[g]
  BY <1>1
<1>3. MirrorTypeOK'
  BY <1>1, <1>2 DEF MirrorInv, MirrorTypeOK
<1>4. StoredWhole'
  <2>1. \A d \in Stored' : d \in Stored \/ d = 0
    BY <1>1, <1>2 DEF Stored, StoredOf, Files
  <2> QED BY <1>1, <2>1 DEF StoredWhole, MirrorInv, WasWhole, Dropped, Complete
<1>5. RecordsBehind'
  BY <1>1, <1>2 DEF RecordsBehind, MirrorInv
<1> QED BY <1>1, <1>3, <1>4, <1>5 DEF MirrorInv, Probing, Copying, Fetching

LEMMA MirrorStep ==
  ASSUME MirrorInv, [NextMirror]_mirrorVars
  PROVE  MirrorInv'
<1>1. CASE MirrorMoves
  BY <1>1, MirrorMovesKeep
<1>2. CASE StartFetch \/ EndFetch \/ StopFetch
  BY <1>2, StartFetchKeeps, EndsKeep
<1>3. ASSUME NEW f \in Files, HeadFile(f) \/ Reuse(f) \/ Request(f) \/ Rename(f) \/ RecordVersion(f) \/ LoseFile(f)
      PROVE  MirrorInv'
  BY <1>3, HeadFileKeeps, ReuseKeeps, RequestKeeps, RenameKeeps, RecordVersionKeeps, LoseFileKeeps
<1>4. CASE UNCHANGED mirrorVars
  BY <1>4 DEF mirrorVars, MirrorInv, MirrorTypeOK, StoredWhole, Stored, StoredOf, Probing, Copying, RecordsBehind,
    WasWhole, Dropped, Complete
<1> QED BY <1>1, <1>2, <1>3, <1>4 DEF NextMirror, MirrorMoves

(* Whatever runs stop wherever and whatever files are lost, while the mirror   *)
(* only goes forward a run that has its files has one generation's dump and    *)
(* index, the one it reports (Fetch).                                          *)
THEOREM MirrorIsSound == MirrorSpec => []MirrorSound
<1>1. InitMirror => MirrorInv
  <2>1. InitMirror => MirrorTypeOK
    BY MirrorAssumption DEF InitMirror, MirrorTypeOK, NoFetch, Files
  <2> QED BY <2>1 DEF InitMirror, MirrorInv, StoredWhole, Stored, StoredOf, WasWhole, Probing, Copying, Fetching,
    RecordsBehind, NoFetch, Files
<1>2. MirrorInv /\ [NextMirror]_mirrorVars => MirrorInv'
  BY MirrorStep
<1>3. MirrorInv => MirrorSound
  BY DEF MirrorInv, MirrorSound, DumpPaired, Copying, Fetching, Files
<1> QED BY <1>1, <1>2, <1>3, PTL DEF MirrorSpec

-----------------------------------------------------------------------------
(* The clustering of what is embedded: the first keys of a set, and the last. *)
KeysOver(keys, k) == {x \in keys : x > k}
KeysUnder(keys, k) == {x \in keys : x < k}

LEMMA GreatestNat ==
  ASSUME NEW S \in SUBSET Nat, S # {}, IsFiniteSet(S)
  PROVE  Max(S) \in S /\ \A y \in S : Max(S) >= y
<1> DEFINE Beyond(x) == KeysOver(S, x)
           T == {Cardinality(Beyond(x)) : x \in S}
<1>1. \A x \in S : IsFiniteSet(Beyond(x)) /\ Cardinality(Beyond(x)) \in Nat
  <2>1. \A x \in S : Beyond(x) \in SUBSET S
    BY DEF KeysOver
  <2> QED BY <2>1, FS_Subset, FS_CardinalityType
<1>2. T \in SUBSET Nat /\ T # {}
  BY <1>1
<1>3. PICK x \in S : \A y \in S : Cardinality(Beyond(x)) <= Cardinality(Beyond(y))
  <2>1. Min(T) \in T /\ \A n \in T : Min(T) <= n
    <3> HIDE DEF T
    <3> QED BY <1>2, LeastNat
  <2>2. PICK x \in S : Min(T) = Cardinality(Beyond(x))
    BY <2>1
  <2>3. \A y \in S : Cardinality(Beyond(y)) \in T
    OBVIOUS
  <2> HIDE DEF T, Beyond
  <2> QED BY <2>1, <2>2, <2>3
<1>4. ASSUME NEW y \in S PROVE x >= y
  <2> SUFFICES ASSUME y > x PROVE FALSE
    <3>1. x \in Nat /\ y \in Nat
      OBVIOUS
    <3> QED BY <3>1
  <2>0. x \in Nat /\ y \in Nat /\ \A z \in S : z \in Nat
    OBVIOUS
  <2>1. Beyond(y) \in SUBSET Beyond(x) /\ y \in Beyond(x) /\ y \notin Beyond(y)
    <3>1. \A z \in S : (z > y => z > x) /\ ~ (y > y)
      BY <2>0
    <3> QED BY <3>1 DEF KeysOver
  <2>2. Cardinality(Beyond(y)) <= Cardinality(Beyond(x)) /\ Cardinality(Beyond(x)) # Cardinality(Beyond(y))
    <3> QED BY <1>1, <2>1, FS_Subset
  <2> QED BY <1>1, <1>3, <2>2
<1>5. \E z \in S : \A y \in S : z >= y
  BY <1>4
<1> QED BY <1>5 DEF Max

\* A page or a batch: the first keys, as many as asked for or all there are.
LEMMA FirstKeys ==
  ASSUME NEW keys \in SUBSET Nat, IsFiniteSet(keys), NEW limit \in Nat \ {0}
  PROVE  /\ FirstOf(keys, limit) \subseteq keys /\ IsFiniteSet(FirstOf(keys, limit))
         /\ \A k \in FirstOf(keys, limit), x \in keys : x < k => x \in FirstOf(keys, limit)
         /\ FirstOf(keys, limit) # keys => Cardinality(FirstOf(keys, limit)) = limit
<1> DEFINE first == FirstOf(keys, limit)
           Under(k) == KeysUnder(keys, k)
<1>1. first \in SUBSET keys /\ IsFiniteSet(first) /\ \A k \in keys : k \in first <=> Cardinality(Under(k)) < limit
  <2>1. first \in SUBSET keys /\ \A k \in keys : k \in first <=> Cardinality(Under(k)) < limit
    BY DEF FirstOf, KeysUnder
  <2> QED BY <2>1, FS_Subset
<1>2. \A k \in keys : Under(k) \in SUBSET keys /\ IsFiniteSet(Under(k)) /\ Cardinality(Under(k)) \in Nat
  <2>1. \A k \in keys : Under(k) \in SUBSET keys
    BY DEF KeysUnder
  <2> QED BY <2>1, FS_Subset, FS_CardinalityType
<1>3. ASSUME NEW k \in first, NEW x \in keys, x < k PROVE x \in first
  <2>1. k \in keys /\ Under(x) \in SUBSET Under(k)
    <3>1. k \in keys /\ k \in Nat /\ x \in Nat /\ \A y \in keys : y \in Nat
      BY <1>1
    <3>2. \A y \in keys : y < x => y < k
      BY <1>3, <3>1
    <3> QED BY <3>1, <3>2 DEF KeysUnder
  <2>2. Cardinality(Under(x)) <= Cardinality(Under(k)) /\ Cardinality(Under(k)) < limit
    <3> HIDE DEF first
    <3> QED BY <1>1, <1>2, <2>1, FS_Subset
  <2>3. Cardinality(Under(x)) < limit
    <3> HIDE DEF first
    <3> QED BY <1>2, <2>1, <2>2
  <2> QED BY <1>1, <2>3
<1>4. ASSUME first # keys PROVE Cardinality(first) = limit
  <2>1. PICK k \in keys \ first : \A x \in keys \ first : k <= x
    <3>1. keys \ first \in SUBSET Nat /\ keys \ first # {}
      BY <1>1, <1>4
    <3> HIDE DEF first
    <3> QED BY <3>1, LeastNat
  <2>2. Under(k) \in SUBSET first
    <3>1. \A x \in Under(k) : x \in keys /\ x \in Nat /\ k \in Nat /\ x < k
      BY DEF KeysUnder
    <3> QED BY <2>1, <3>1
  <2>3. Cardinality(first) \in Nat /\ Cardinality(Under(k)) <= Cardinality(first) /\ ~ (Cardinality(Under(k)) < limit)
    <3> HIDE DEF first
    <3> QED BY <1>1, <2>1, <2>2, FS_Subset, FS_CardinalityType
  <2>4. first # {}
    <3>1. first = {} => Cardinality(first) = 0
      BY FS_EmptySet
    <3> HIDE DEF first
    <3> QED BY <1>2, <2>1, <2>3, <3>1
  <2>5. PICK m \in first : m \in Nat /\ \A y \in first : m >= y
    <3>1. first \in SUBSET Nat
      BY <1>1
    <3> HIDE DEF first
    <3> QED BY <1>1, <2>4, <3>1, GreatestNat
  <2>6. first \in SUBSET (Under(m) \cup {m})
    <3>1. \A y \in first : y \in keys /\ y \in Nat /\ m >= y
      BY <1>1, <2>5
    <3>2. \A y \in first : y = m \/ y < m
      BY <2>5, <3>1
    <3> QED BY <3>1, <3>2 DEF KeysUnder
  <2>7. IsFiniteSet(Under(m) \cup {m}) /\ Cardinality(Under(m) \cup {m}) = Cardinality(Under(m)) + 1
    <3>1. m \notin Under(m) /\ IsFiniteSet(Under(m))
      BY <1>1, <1>2, <2>5 DEF KeysUnder
    <3> QED BY <3>1, FS_AddElement
  <2>8. Cardinality(first) <= Cardinality(Under(m)) + 1 /\ Cardinality(Under(m)) < limit /\ Cardinality(Under(m)) \in Nat
    <3>1. m \in keys /\ Cardinality(Under(m)) < limit
      BY <1>1, <2>5
    <3>2. Cardinality(Under(m)) \in Nat
      BY <1>2, <3>1
    <3>3. Cardinality(first) <= Cardinality(Under(m) \cup {m})
      <4> HIDE DEF first
      <4> QED BY <2>6, <2>7, FS_Subset
    <3> QED BY <2>7, <3>1, <3>2, <3>3
  <2>9. Cardinality(Under(k)) \in Nat
    BY <1>2, <2>1
  <2> HIDE DEF first
  <2> QED BY <2>3, <2>8, <2>9
<1> QED BY <1>1, <1>3, <1>4

\* A page holds what was not settled too; what counts is each settled chunk up
\* to the cursor: read with its text, then written with it in this run.
ClusterTypes ==
  /\ DOMAIN chunk \subseteq ChunkKeys
  /\ \A k \in DOMAIN chunk : /\ chunk[k] = ChunkRow(chunk[k].text, chunk[k].vector)
                             /\ chunk[k].vector \in {NoVector, chunk[k].text}
  /\ DOMAIN score \subseteq DOMAIN chunk /\ DOMAIN staged \subseteq ChunkKeys
  /\ clustering = [pc |-> clustering.pc, cursor |-> clustering.cursor, scored |-> clustering.scored]
  /\ clustering.pc \in {"off", "read", "write"} /\ clustering.cursor \in Nat
  /\ DOMAIN clustering.scored \subseteq ChunkKeys
  /\ settled \subseteq EmbeddedIn(chunk) /\ changes \in Nat

ReadOf(k) == k \in DOMAIN clustering.scored /\ clustering.scored[k] = chunk[k].text
WrittenOf(k) == k \in DOMAIN score /\ score[k] = [text |-> chunk[k].text, run |-> runsLeft]
Paging == clustering.pc = "read" => \A k \in settled : k <= clustering.cursor => ReadOf(k)
Writing ==
  clustering.pc = "write" => \A k \in settled : ReadOf(k) /\ (k <= clustering.cursor => WrittenOf(k))

ClusterInv == ClusterTypes /\ Paging /\ Writing

LEMMA ChunkFacts ==
  ASSUME ClusterTypes
  PROVE  /\ \A S \in SUBSET ChunkKeys : IsFiniteSet(S) /\ S \in SUBSET Nat /\ \A k \in S : k >= 1
         /\ EmbeddedIn(chunk) \subseteq DOMAIN chunk
         /\ \A k \in EmbeddedIn(chunk) : chunk[k].vector = chunk[k].text
<1>1. ChunkKeys \subseteq Nat \ {0} /\ IsFiniteSet(ChunkKeys)
  BY ClusterAssumption
<1>2. \A S \in SUBSET ChunkKeys : IsFiniteSet(S)
  BY <1>1, FS_Subset
<1>3. \A k \in ChunkKeys : k \in Nat /\ k >= 1
  BY <1>1
<1> QED BY <1>1, <1>2, <1>3 DEF EmbeddedIn, ClusterTypes

\* What a write of ingestion has to show: the chunks that stay settled keep
\* their text and their score.
LEMMA IngestionLeaves ==
  ASSUME ClusterInv, ClusterTypes', UNCHANGED <<clustering, runsLeft>>, settled' \subseteq settled,
         \A k \in settled' : chunk'[k].text = chunk[k].text /\ (k \in DOMAIN score => k \in DOMAIN score' /\ score'[k] = score[k])
  PROVE  ClusterInv'
<1>1. \A k \in settled' : ReadOf(k) => ReadOf(k)'
  BY DEF ReadOf
<1>2. \A k \in settled' : WrittenOf(k) => WrittenOf(k)'
  BY DEF WrittenOf
<1> QED BY <1>1, <1>2 DEF ClusterInv, Paging, Writing

LEMMA IngestKeeps ==
  ASSUME ClusterInv, NEW k \in ChunkKeys, NEW text \in ChunkTexts, Ingest(k, text)
  PROVE  ClusterInv'
<1>1. /\ DOMAIN chunk' = DOMAIN chunk \cup {k} /\ chunk'[k] = ChunkRow(text, NoVector)
      /\ \A x \in DOMAIN chunk \ {k} : chunk'[x] = chunk[x]
      /\ settled' = settled \ {k} /\ UNCHANGED <<score, staged, clustering, runsLeft>> /\ changes' = changes + 1
  BY DEF Ingest, Change
<1>2. settled \subseteq DOMAIN chunk /\ \A x \in settled : chunk[x].vector # NoVector
  BY DEF ClusterInv, ClusterTypes, EmbeddedIn
<1>3. settled' \subseteq EmbeddedIn(chunk')
  BY <1>1, <1>2 DEF EmbeddedIn
<1>4. \A x \in DOMAIN chunk' : /\ chunk'[x] = ChunkRow(chunk'[x].text, chunk'[x].vector)
                               /\ chunk'[x].vector \in {NoVector, chunk'[x].text}
  <2>1. chunk'[k].text = text /\ chunk'[k].vector = NoVector
    BY <1>1 DEF ChunkRow
  <2> QED BY <1>1, <2>1 DEF ClusterInv, ClusterTypes
<1>5. ClusterTypes'
  BY <1>1, <1>3, <1>4 DEF ClusterInv, ClusterTypes
<1> QED BY <1>1, <1>2, <1>5, IngestionLeaves

LEMMA EmbedKeeps ==
  ASSUME ClusterInv, NEW k \in ChunkKeys, Embed(k)
  PROVE  ClusterInv'
<1>1. /\ k \in DOMAIN chunk /\ k \notin EmbeddedIn(chunk) /\ chunk' = [chunk EXCEPT ![k].vector = chunk[k].text]
      /\ UNCHANGED <<score, staged, settled, clustering, runsLeft>> /\ changes' = changes + 1
  BY DEF Embed, Change
<1>2. settled \subseteq DOMAIN chunk \ {k} /\ \A x \in settled : chunk[x].vector # NoVector
  BY <1>1 DEF ClusterInv, ClusterTypes, EmbeddedIn
<1>3. PICK row : row = chunk[k] /\ row = [text |-> row.text, vector |-> row.vector]
  BY <1>1 DEF ClusterInv, ClusterTypes, ChunkRow
<1>4. PICK full : full = [text |-> row.text, vector |-> row.text]
  OBVIOUS
<1>5. [row EXCEPT !.vector = row.text] = full
  BY <1>3, <1>4
<1>6. /\ DOMAIN chunk' = DOMAIN chunk /\ chunk'[k] = full
      /\ \A x \in DOMAIN chunk \ {k} : chunk'[x] = chunk[x]
  <2>1. chunk' = [chunk EXCEPT ![k] = [row EXCEPT !.vector = row.text]]
    BY <1>1, <1>3
  <2> QED BY <1>1, <1>5, <2>1
<1>7. settled' \subseteq EmbeddedIn(chunk')
  BY <1>1, <1>2, <1>6 DEF EmbeddedIn
<1>8. \A x \in DOMAIN chunk' : /\ chunk'[x] = ChunkRow(chunk'[x].text, chunk'[x].vector)
                               /\ chunk'[x].vector \in {NoVector, chunk'[x].text}
  <2>1. full = ChunkRow(full.text, full.vector) /\ full.vector = full.text
    BY <1>4 DEF ChunkRow
  <2> QED BY <1>6, <2>1 DEF ClusterInv, ClusterTypes
<1>9. UNCHANGED <<score, staged, settled, clustering, runsLeft>> /\ changes' = changes + 1
  BY <1>1
<1>10. ClusterTypes'
  BY <1>6, <1>7, <1>8, <1>9 DEF ClusterInv, ClusterTypes
<1> QED BY <1>2, <1>6, <1>9, <1>10, IngestionLeaves

LEMMA DeleteKeeps ==
  ASSUME ClusterInv, NEW k \in ChunkKeys, Delete(k)
  PROVE  ClusterInv'
<1>1. /\ DOMAIN chunk' = DOMAIN chunk \ {k} /\ \A x \in DOMAIN chunk \ {k} : chunk'[x] = chunk[x]
      /\ DOMAIN score' = DOMAIN score \ {k} /\ \A x \in DOMAIN score \ {k} : score'[x] = score[x]
      /\ settled' = settled \ {k} /\ UNCHANGED <<staged, clustering, runsLeft>> /\ changes' = changes + 1
  BY DEF Delete, Change, Without, Restrict
<1>2. settled \subseteq DOMAIN chunk /\ \A x \in settled : chunk[x].vector # NoVector
  BY DEF ClusterInv, ClusterTypes, EmbeddedIn
<1>3. settled' \subseteq EmbeddedIn(chunk')
  BY <1>1, <1>2 DEF EmbeddedIn
<1>4. ClusterTypes'
  BY <1>1, <1>3 DEF ClusterInv, ClusterTypes
<1> QED BY <1>1, <1>2, <1>4, IngestionLeaves

LEMMA BulkKeeps ==
  ASSUME ClusterInv, Swap \/ \E texts \in Layouts : LayOut(texts)
  PROVE  ClusterInv'
<1>1. CASE Swap
  <2>1. /\ DOMAIN chunk' = DOMAIN staged /\ settled' = {} /\ DOMAIN staged' = {} /\ DOMAIN score' = {}
        /\ \A k \in DOMAIN staged : chunk'[k] = ChunkRow(staged[k].text, staged[k].text)
        /\ UNCHANGED <<clustering, runsLeft>> /\ changes' = changes + 1
    BY <1>1 DEF Swap, Change
  <2>2. \A x \in DOMAIN chunk' : /\ chunk'[x] = ChunkRow(chunk'[x].text, chunk'[x].vector)
                                 /\ chunk'[x].vector \in {NoVector, chunk'[x].text}
    BY <2>1 DEF ChunkRow
  <2>3. ClusterTypes'
    BY <2>1, <2>2 DEF ClusterInv, ClusterTypes
  <2> QED BY <2>1, <2>3, IngestionLeaves
<1>2. CASE \E texts \in Layouts : LayOut(texts)
  <2>1. PICK texts \in Layouts : LayOut(texts)
    BY <1>2
  <2>2. DOMAIN texts \subseteq ChunkKeys
    BY DEF Layouts
  <2>3. /\ DOMAIN staged' = DOMAIN texts /\ UNCHANGED <<chunk, score, settled, clustering, runsLeft>>
        /\ changes' = changes + 1
    BY <2>1 DEF LayOut, Change
  <2>4. ClusterTypes'
    BY <2>2, <2>3 DEF ClusterInv, ClusterTypes
  <2> QED BY <2>3, <2>4, IngestionLeaves
<1> QED BY <1>1, <1>2

LEMMA JobStartsAndFails ==
  ASSUME ClusterInv, StartClustering \/ ClusteringFails
  PROVE  ClusterInv'
<1>1. CASE StartClustering
  <2>1. /\ clustering' = [pc |-> "read", cursor |-> 0, scored |-> << >>]
        /\ settled' = EmbeddedIn(chunk) /\ UNCHANGED <<chunk, score, staged, changes>>
    BY <1>1 DEF StartClustering, NoClusterJob
  <2>2. \A k \in settled' : ~ (k <= 0)
    <3>1. settled' \in SUBSET ChunkKeys
      BY <2>1, ChunkFacts DEF ClusterInv, ClusterTypes
    <3> QED BY <3>1, ChunkFacts DEF ClusterInv
  <2>3. ClusterTypes'
    BY <2>1 DEF ClusterInv, ClusterTypes
  <2> QED BY <2>1, <2>2, <2>3 DEF ClusterInv, Paging, Writing
<1>2. CASE ClusteringFails
  <2>1. /\ clustering' = [pc |-> "off", cursor |-> 0, scored |-> << >>]
        /\ changes' = changes + 1 /\ UNCHANGED <<chunk, score, staged, runsLeft, settled>>
    BY <1>2 DEF ClusteringFails, NoClusterJob
  <2>2. ClusterTypes'
    BY <2>1 DEF ClusterInv, ClusterTypes
  <2> QED BY <2>1, <2>2 DEF ClusterInv, Paging, Writing
<1> QED BY <1>1, <1>2

\* A page: every settled chunk up to where it ends is read with its text.
LEMMA PageKeeps ==
  ASSUME ClusterInv, ReadEmbedded
  PROVE  ClusterInv' /\ (clustering'.pc = "off" => settled = {}) /\ UNCHANGED <<chunk, score, settled>>
<1>1. PICK page : page = AfterCursor(clustering.cursor)
  OBVIOUS
<1>2. PICK read : read = [k \in DOMAIN clustering.scored \cup page |->
                            IF k \in page THEN chunk[k].vector ELSE clustering.scored[k]]
  OBVIOUS
<1>3. /\ clustering.pc = "read" /\ UNCHANGED <<chunk, score, staged, runsLeft, changes, settled>>
      /\ clustering' = IF Cardinality(page) = ReadBatch
                       THEN [clustering EXCEPT !.cursor = Max(page), !.scored = read]
                       ELSE IF read = << >> THEN NoClusterJob
                       ELSE [pc |-> "write", cursor |-> 0, scored |-> read]
  BY <1>1, <1>2 DEF ReadEmbedded
<1>s. UNCHANGED <<chunk, score, staged, runsLeft, changes, settled>>
  BY <1>3
<1>4. PICK keys : keys = {k \in EmbeddedIn(chunk) : k > clustering.cursor}
  OBVIOUS
<1>5. keys \in SUBSET ChunkKeys /\ keys \in SUBSET Nat /\ IsFiniteSet(keys) /\ keys \subseteq EmbeddedIn(chunk)
  BY <1>4, ChunkFacts DEF ClusterInv, ClusterTypes
<1>6. ReadBatch \in Nat \ {0} /\ clustering.cursor \in Nat
  BY ClusterAssumption DEF ClusterInv, ClusterTypes
<1>7. /\ page \subseteq keys /\ IsFiniteSet(page) /\ (page # keys => Cardinality(page) = ReadBatch)
      /\ \A k \in page, x \in keys : x < k => x \in page
  BY <1>1, <1>4, <1>5, <1>6, FirstKeys DEF AfterCursor
<1>8. settled \subseteq EmbeddedIn(chunk) /\ settled \subseteq Nat
      /\ \A k \in settled : chunk[k].vector = chunk[k].text /\ (k <= clustering.cursor => ReadOf(k))
  BY <1>3, ChunkFacts DEF ClusterInv, ClusterTypes, Paging
<1>9. ASSUME NEW k \in settled, k <= clustering.cursor \/ k \in page
      PROVE  k \in DOMAIN read /\ read[k] = chunk[k].text
  BY <1>2, <1>8, <1>9 DEF ReadOf
<1>10. DOMAIN read \subseteq ChunkKeys
  BY <1>2, <1>5, <1>7 DEF ClusterInv, ClusterTypes
<1>11. CASE Cardinality(page) = ReadBatch
  <2>1. page # {}
    BY <1>6, <1>11, FS_EmptySet
  <2>2. page \in SUBSET Nat
    BY <1>5, <1>7
  <2>3. PICK m \in page : m = Max(page) /\ m \in Nat
    BY <1>7, <2>1, <2>2, GreatestNat
  <2>4. clustering' = [pc |-> "read", cursor |-> m, scored |-> read]
    BY <1>3, <1>11, <2>3 DEF ClusterInv, ClusterTypes
  <2>5. \A k \in settled : k <= m => k <= clustering.cursor \/ k \in page
    <3>1. ASSUME NEW k \in settled, k <= m, ~ (k <= clustering.cursor) PROVE k \in page
      <4>1. k \in keys
        BY <1>4, <1>6, <1>8, <3>1
      <4>2. k = m \/ k < m
        BY <1>8, <2>3, <3>1
      <4> QED BY <1>7, <2>3, <4>1, <4>2
    <3> QED BY <3>1
  <2>6. ClusterTypes'
    BY <1>s, <1>10, <2>3, <2>4 DEF ClusterInv, ClusterTypes
  <2>7. Paging'
    BY <1>s, <1>9, <2>4, <2>5 DEF Paging, ReadOf
  <2> QED BY <1>s, <2>4, <2>6, <2>7 DEF ClusterInv, Writing
<1>12. CASE Cardinality(page) # ReadBatch
  <2>1. ASSUME NEW k \in settled PROVE k <= clustering.cursor \/ k \in page
    <3>1. k \in EmbeddedIn(chunk) /\ k \in Nat /\ page = keys
      BY <1>7, <1>8, <1>12
    <3>2. k <= clustering.cursor \/ k > clustering.cursor
      BY <1>6, <3>1
    <3> QED BY <1>4, <3>1, <3>2
  <2>2. \A k \in settled : k \in DOMAIN read /\ read[k] = chunk[k].text
    BY <1>9, <2>1
  <2>3. CASE read = << >>
    <3>1. clustering' = [pc |-> "off", cursor |-> 0, scored |-> << >>]
      BY <1>3, <1>12, <2>3 DEF NoClusterJob
    <3>2. settled = {}
      BY <2>2, <2>3
    <3>3. ClusterTypes'
      BY <1>s, <3>1 DEF ClusterInv, ClusterTypes
    <3> QED BY <1>s, <3>1, <3>2, <3>3 DEF ClusterInv, Paging, Writing
  <2>4. CASE read # << >>
    <3>1. clustering' = [pc |-> "write", cursor |-> 0, scored |-> read]
      BY <1>3, <1>12, <2>4
    <3>2. ClusterTypes'
      BY <1>s, <1>10, <3>1 DEF ClusterInv, ClusterTypes
    <3>3. \A k \in settled : ~ (k <= 0)
      <4>1. settled \in SUBSET ChunkKeys
        BY <1>8, ChunkFacts DEF ClusterInv, ClusterTypes
      <4> QED BY <4>1, ChunkFacts DEF ClusterInv
    <3>4. Writing'
      BY <1>s, <2>2, <3>1, <3>3 DEF Writing, ReadOf
    <3> QED BY <1>s, <3>1, <3>2, <3>4 DEF ClusterInv, Paging
  <2> QED BY <2>3, <2>4
<1> QED BY <1>11, <1>12

\* A batch: every settled chunk up to where it ends has the score of this run.
LEMMA BatchKeeps ==
  ASSUME ClusterInv, WriteClustering
  PROVE  ClusterInv' /\ (clustering'.pc = "off" => ScoresSettled)
<1>1. PICK left : left = {k \in DOMAIN clustering.scored : k > clustering.cursor}
  OBVIOUS
<1>2. PICK batch : batch = FirstOf(left, ScoreBatch)
  OBVIOUS
<1>3. /\ clustering.pc = "write" /\ UNCHANGED <<chunk, staged, runsLeft, changes, settled>>
      /\ score' = [k \in DOMAIN score \cup (batch \cap DOMAIN chunk) |->
                     IF k \in batch \cap DOMAIN chunk THEN ClusteringOf(k) ELSE score[k]]
      /\ clustering' = IF batch = left THEN NoClusterJob ELSE [clustering EXCEPT !.cursor = Max(batch)]
  BY <1>1, <1>2 DEF WriteClustering, SetChunkClustering
<1>s. UNCHANGED <<chunk, staged, runsLeft, changes, settled>>
  BY <1>3
<1>4. left \in SUBSET ChunkKeys /\ left \in SUBSET Nat /\ IsFiniteSet(left)
  BY <1>1, ChunkFacts DEF ClusterInv, ClusterTypes
<1>5. ScoreBatch \in Nat \ {0} /\ clustering.cursor \in Nat
  BY ClusterAssumption DEF ClusterInv, ClusterTypes
<1>6. /\ batch \subseteq left /\ IsFiniteSet(batch) /\ (batch # left => Cardinality(batch) = ScoreBatch)
      /\ \A k \in batch, x \in left : x < k => x \in batch
  BY <1>2, <1>4, <1>5, FirstKeys
<1>7. settled \subseteq DOMAIN chunk /\ settled \subseteq Nat
      /\ \A k \in settled : ReadOf(k) /\ (k <= clustering.cursor => WrittenOf(k))
  BY <1>3, ChunkFacts DEF ClusterInv, ClusterTypes, Writing
<1>8. ASSUME NEW k \in settled, k <= clustering.cursor \/ k \in batch
      PROVE  k \in DOMAIN score' /\ score'[k] = [text |-> chunk[k].text, run |-> runsLeft]
  BY <1>3, <1>7, <1>8 DEF ReadOf, WrittenOf, ClusteringOf
<1>9. DOMAIN score' \subseteq DOMAIN chunk
  BY <1>3 DEF ClusterInv, ClusterTypes
<1>10. CASE batch = left
  <2>1. clustering' = [pc |-> "off", cursor |-> 0, scored |-> << >>]
    BY <1>3, <1>10 DEF NoClusterJob
  <2>2. ClusterTypes'
    BY <1>s, <1>9, <2>1 DEF ClusterInv, ClusterTypes
  <2>3. \A k \in settled : k <= clustering.cursor \/ k \in batch
    BY <1>1, <1>5, <1>7, <1>10 DEF ReadOf
  <2>4. ScoresSettled
    BY <1>8, <2>3 DEF ScoresSettled
  <2> QED BY <2>1, <2>2, <2>4 DEF ClusterInv, Paging, Writing
<1>11. CASE batch # left
  <2>1. batch # {}
    BY <1>5, <1>6, <1>11, FS_EmptySet
  <2>2. batch \in SUBSET Nat
    BY <1>4, <1>6
  <2>3. PICK m \in batch : m = Max(batch) /\ m \in Nat
    BY <1>6, <2>1, <2>2, GreatestNat
  <2>4. clustering' = [pc |-> "write", cursor |-> m, scored |-> clustering.scored]
    BY <1>3, <1>11, <2>3 DEF ClusterInv, ClusterTypes
  <2>5. \A k \in settled : k <= m => k <= clustering.cursor \/ k \in batch
    <3>1. ASSUME NEW k \in settled, k <= m, ~ (k <= clustering.cursor) PROVE k \in batch
      <4>1. k \in left
        BY <1>1, <1>5, <1>7, <3>1 DEF ReadOf
      <4>2. k = m \/ k < m
        BY <1>7, <2>3, <3>1
      <4> QED BY <1>6, <2>3, <4>1, <4>2
    <3> QED BY <3>1
  <2>6. ClusterTypes'
    BY <1>s, <1>9, <2>3, <2>4 DEF ClusterInv, ClusterTypes
  <2>7. Writing'
    BY <1>s, <1>7, <1>8, <2>4, <2>5 DEF Writing, ReadOf, WrittenOf
  <2> QED BY <2>4, <2>6, <2>7 DEF ClusterInv, Paging
<1> QED BY <1>10, <1>11

LEMMA ClusterStarts == InitCluster => ClusterInv
<1> SUFFICES ASSUME InitCluster PROVE ClusterInv
  OBVIOUS
<1>1. PICK some \in SUBSET ChunkKeys : chunk \in [some -> {ChunkRow(t, t) : t \in ChunkTexts}]
  BY DEF InitCluster
<1>2. \A k \in some : \E t \in ChunkTexts : chunk[k] = ChunkRow(t, t)
  BY <1>1
<1>3. DOMAIN chunk = some /\ \A k \in some : chunk[k] = ChunkRow(chunk[k].text, chunk[k].vector) /\ chunk[k].vector = chunk[k].text
  BY <1>1, <1>2 DEF ChunkRow
<1>4. /\ DOMAIN score = {} /\ DOMAIN staged = {} /\ changes = 0 /\ settled = {}
      /\ clustering = [pc |-> "off", cursor |-> 0, scored |-> << >>]
  BY DEF InitCluster, NoClusterJob
<1> QED BY <1>3, <1>4 DEF ClusterInv, ClusterTypes, Paging, Writing

LEMMA ClusterStep == ClusterInv /\ [NextCluster]_clusterVars => ClusterInv'
<1> SUFFICES ASSUME ClusterInv, [NextCluster]_clusterVars PROVE ClusterInv'
  OBVIOUS
<1>1. CASE UNCHANGED clusterVars
  BY <1>1 DEF clusterVars, ClusterInv, ClusterTypes, Paging, Writing, ReadOf, WrittenOf
<1>2. CASE StartClustering \/ ReadEmbedded \/ WriteClustering \/ ClusteringFails
  BY <1>2, JobStartsAndFails, PageKeeps, BatchKeeps
<1>3. CASE Swap \/ \E texts \in Layouts : LayOut(texts)
  BY <1>3, BulkKeeps
<1>4. ASSUME NEW k \in ChunkKeys, Embed(k) \/ Delete(k) \/ \E text \in ChunkTexts : Ingest(k, text) PROVE ClusterInv'
  BY <1>4, EmbedKeeps, DeleteKeeps, IngestKeeps
<1> QED BY <1>1, <1>2, <1>3, <1>4 DEF NextCluster

LEMMA ClusterEnds == ClusterInv /\ [NextCluster]_clusterVars => [ClusteringEnds => ScoresSettled]_clusterVars
<1> SUFFICES ASSUME ClusterInv, NextCluster, ClusteringEnds PROVE ScoresSettled
  OBVIOUS
<1>1. clustering.pc # "off" /\ clustering'.pc = "off" /\ changes' = changes /\ changes \in Nat
  BY DEF ClusteringEnds, ClusterInv, ClusterTypes
<1>2. ~ ClusteringFails /\ ~ StartClustering
  BY <1>1 DEF ClusteringFails, StartClustering
<1>3. CASE ReadEmbedded
  BY <1>1, <1>3, PageKeeps DEF ScoresSettled
<1>4. CASE WriteClustering
  BY <1>1, <1>4, BatchKeeps
<1>5. CASE UNCHANGED clustering
  BY <1>1, <1>5
<1> QED BY <1>2, <1>3, <1>4, <1>5 DEF NextCluster, Swap, Embed, Delete, Ingest, LayOut, Change

(* Whatever the batches and whatever is ingested, embedded, deleted or        *)
(* swapped around it, a run of the job that ends by itself has given every    *)
(* chunk that stayed embedded a score of its own text (clusterCorpus).        *)
THEOREM ClusteringIsSettled == ClusterSpec => ClustersAll
<1>1. ClusterInv => ClusterTypeOK
  BY DEF ClusterInv, ClusterTypes, ClusterTypeOK
<1> QED BY ClusterStarts, ClusterStep, ClusterEnds, <1>1, PTL DEF ClusterSpec, ClustersAll

-----------------------------------------------------------------------------
(* The worker fleet: its invariant.                                        *)

TaskSet == [status : {"none", "active", "primary", "gone"}, version : Versions \cup {0},
            running : 0 .. MaxWorkers, age : 0 .. MaxAge]
SweepRec == [pc : {"off", "listed", "retire"}, drained : SUBSET Versions, ages : [SetIds -> -1 .. MaxAge],
             primary : SetIds \cup {0}, doomed : SUBSET SetIds, busy : SUBSET SetIds]
FleetTyped ==
  /\ sets \in [SetIds -> TaskSet] /\ sweep \in SweepRec
  /\ desired \in 0 .. MaxWorkers /\ cooling \in BOOLEAN
  /\ producing \in Versions \cup {0} /\ deploying \in SetIds \cup {0} /\ posts \in 0 .. MaxPosts
DepthsTyped ==
  /\ depth = [v \in DOMAIN depth |-> depth[v]] /\ DOMAIN depth \subseteq Versions
  /\ \A v \in DOMAIN depth : depth[v] \in 0 .. MaxDepth
OnePrimary == \A s, t \in Primaries : s = t

\* Once a PRIMARY is old, nothing is posted to another version.
PinsOK ==
  /\ producing # 0 => producing \in DOMAIN depth
  /\ \A p \in Primaries : sets[p].age >= MaxAge => producing \in {0, Reads(p)}

\* A task set that is deployed is not old yet.
DeployOK == deploying # 0 => sets[deploying].status # "primary" /\ sets[deploying].age < MaxAge

\* A set is at least as old as a cleanup takes it for.
AgesOK ==
  /\ \A s \in SetIds : sweep.ages[s] <= sets[s].age
  /\ sweep.pc = "retire" => \A s \in SetIds : sweep.ages[s] = -1

\* What a cleanup found empty beside an old PRIMARY is empty still.
ListedOK ==
  sweep.pc = "listed" =>
    /\ sweep.drained \subseteq DOMAIN depth
    /\ \A p \in Primaries : sweep.ages[p] >= MaxAge => \A v \in sweep.drained : v # Reads(p) => depth[v] = 0

\* And so is the queue of a working set that it is to delete.
DoomedOK ==
  sweep.pc = "retire" =>
    /\ sweep.primary \in SetIds \ {deploying} /\ sets[sweep.primary].status # "none"
    /\ \A s \in sweep.doomed : sets[s].status # "none"
    /\ \A s \in sweep.doomed : SeenWorking(s) /\ sweep.primary \in Primaries /\ Reads(s) # Reads(sweep.primary)
         => sets[sweep.primary].age >= MaxAge /\ Reads(s) \in DOMAIN depth /\ depth[Reads(s)] = 0

FleetInv == FleetTyped /\ DepthsTyped /\ OnePrimary /\ PinsOK /\ DeployOK /\ AgesOK /\ ListedOK /\ DoomedOK

-----------------------------------------------------------------------------
(* The worker fleet: the operators.                                        *)

LEMMA OneMin == ASSUME NEW a PROVE Min({a}) = a \/ a \notin Int
BY DEF Min

LEMMA TwoMin == ASSUME NEW a \in Int, NEW b \in Int PROVE Min({a, b}) = IF a <= b THEN a ELSE b
<1> DEFINE m == IF a <= b THEN a ELSE b
<1>1. m \in {a, b} /\ \A y \in {a, b} : m <= y
  OBVIOUS
<1>2. \A x \in {a, b} : (\A y \in {a, b} : x <= y) => x = m
  OBVIOUS
<1> QED BY <1>1, <1>2 DEF Min

LEMMA TwoMax == ASSUME NEW a \in Int, NEW b \in Int PROVE Max({a, b}) = IF a >= b THEN a ELSE b
<1> DEFINE m == IF a >= b THEN a ELSE b
<1>1. m \in {a, b} /\ \A y \in {a, b} : m >= y
  OBVIOUS
<1>2. \A x \in {a, b} : (\A y \in {a, b} : x >= y) => x = m
  OBVIOUS
<1> QED BY <1>1, <1>2 DEF Max

LEMMA TheVersion ==
  ASSUME FleetTyped, OnePrimary, NEW p \in Primaries
  PROVE  PrimaryVersion = Reads(p) /\ Min(Primaries) = p /\ p \in SetIds
<1>1. Primaries = {p} /\ p \in SetIds
  BY DEF OnePrimary, Primaries
<1>2. Min({p}) = p
  BY <1>1, OneMin DEF SetIds
<1> QED BY <1>1, <1>2 DEF PrimaryVersion

LEMMA ReadsVersion == ASSUME FleetTyped, NEW s \in SetIds PROVE Reads(s) \in Versions
<1>1. sets[s].version \in Versions \cup {0}
  BY DEF FleetTyped, TaskSet
<1> QED BY <1>1, LifecycleAssumption DEF Reads

LEMMA NoSweepTyped ==
  /\ NoSweep \in SweepRec /\ NoSweep.pc = "off" /\ NoSweep.doomed = {}
  /\ \A s \in SetIds : NoSweep.ages[s] = -1
<1>1. [s \in SetIds |-> -1] \in [SetIds -> -1 .. MaxAge]
  <2>1. -1 \in -1 .. MaxAge
    BY LifecycleAssumption
  <2> QED BY <2>1
<1> QED BY <1>1 DEF NoSweep, SweepRec

\* The count is within the policy's bounds, wherever it starts.
LEMMA CountInRange ==
  ASSUME NEW current \in Nat, NEW backlog \in Nat
  PROVE  ComputeDesiredCount(current, backlog) \in 0 .. MaxWorkers
<1>1. Ratio \in Nat \ {0} /\ MaxWorkers \in Nat /\ MinWorkers \in Nat
  BY LifecycleAssumption DEF ScalingOK
<1>2. PICK raw \in Nat : raw = (backlog + Ratio - 1) \div Ratio
  <2>1. backlog + Ratio - 1 \in Nat
    BY <1>1
  <2>2. (backlog + Ratio - 1) \div Ratio \in Nat
    BY <1>1, <2>1
  <2> QED BY <2>2
<1>3. PICK half \in Nat : half = current \div 2
  OBVIOUS
<1>4. PICK double \in Nat : double = Max({1, current}) * 2
  BY TwoMax
<1>5. StepToward(current, raw) = IF raw > current THEN Min({raw, double}) ELSE Max({raw, half})
  BY <1>3, <1>4 DEF StepToward
<1>6. PICK step \in Nat : step = StepToward(current, raw)
  BY <1>5, TwoMin, TwoMax
<1>7. PICK floored \in Nat : floored = Max({MinWorkers, step})
  BY <1>1, TwoMax
<1>8. PICK count \in Nat : count = Min({MaxWorkers, floored}) /\ count <= MaxWorkers
  BY <1>1, TwoMin
<1>9. ComputeDesiredCount(current, backlog) = IF MaxWorkers = 0 THEN 0 ELSE count
  BY <1>2, <1>6, <1>7, <1>8 DEF ComputeDesiredCount
<1> QED BY <1>1, <1>8, <1>9

\* Declaring a queue adds an empty one, or nothing.
LEMMA DeclareKeeps ==
  ASSUME DepthsTyped, NEW v \in Versions
  PROVE  /\ Declared(v) = [u \in DOMAIN Declared(v) |-> Declared(v)[u]]
         /\ DOMAIN Declared(v) = DOMAIN depth \cup {v}
         /\ \A u \in DOMAIN depth : Declared(v)[u] = depth[u]
         /\ v \notin DOMAIN depth => Declared(v)[v] = 0
<1>1. CASE v \in DOMAIN depth
  BY <1>1 DEF Declared, DepthsTyped
<1>2. CASE v \notin DOMAIN depth
  BY <1>2 DEF Declared, DepthsTyped
<1> QED BY <1>1, <1>2

-----------------------------------------------------------------------------
(* The worker fleet: the steps.                                            *)

-----------------------------------------------------------------------------
(* The worker fleet: the steps.                                            *)

LEMMA FleetStarts == ASSUME 0 < MaxAge, InitLifecycle PROVE FleetInv
<1>1. /\ sets = [s \in SetIds |-> Unused] /\ desired = 0 /\ cooling = FALSE
      /\ depth = << >> /\ producing = 0 /\ deploying = 0 /\ sweep = NoSweep /\ posts = 0
  BY DEF InitLifecycle
<1>2. FleetTyped
  <2>1. Unused \in TaskSet
    BY LifecycleAssumption DEF TaskSet, Unused, ScalingOK
  <2>2. sets \in [SetIds -> TaskSet]
    BY <1>1, <2>1
  <2>3. 0 \in 0 .. MaxWorkers /\ 0 \in 0 .. MaxPosts
    BY LifecycleAssumption DEF ScalingOK
  <2>4. cooling \in BOOLEAN
    BY <1>1
  <2> QED BY <1>1, <2>2, <2>3, <2>4, NoSweepTyped DEF FleetTyped
<1>3. DepthsTyped
  BY <1>1 DEF DepthsTyped
<1>4. Primaries = {} /\ \A s \in SetIds : sets[s].age = 0
  BY <1>1 DEF Primaries, Unused
<1>5. PinsOK /\ OnePrimary /\ DeployOK
  BY <1>1, <1>4 DEF PinsOK, OnePrimary, DeployOK
<1>6. AgesOK /\ ListedOK /\ DoomedOK
  BY <1>1, <1>4, NoSweepTyped DEF AgesOK, ListedOK, DoomedOK
<1> QED BY <1>2, <1>3, <1>5, <1>6 DEF FleetInv

\* What a cleanup relies on stands a step that keeps what is empty empty unless the
\* producers are pinned to it, keeps the sets that there are, and makes no set the
\* PRIMARY but a young one that was being deployed.
LEMMA SweepMoves ==
  ASSUME FleetInv, FleetTyped', sweep' = sweep, DOMAIN depth \subseteq DOMAIN depth',
         \A v \in DOMAIN depth : v # producing /\ depth[v] = 0 => depth'[v] = 0,
         \A s \in SetIds : sets[s].age <= sets'[s].age,
         \A s \in SetIds : sets[s].status # "none" => sets'[s].status # "none" /\ sets'[s].version = sets[s].version,
         \A p \in Primaries' : p \in Primaries \/ (p = deploying /\ sets'[p].age < MaxAge),
         deploying' \in {0, deploying} \/ sets[deploying'].status = "none"
  PROVE  AgesOK' /\ ListedOK' /\ DoomedOK'
<1>1. /\ sets \in [SetIds -> TaskSet] /\ sets' \in [SetIds -> TaskSet] /\ sweep \in SweepRec
      /\ \A s \in SetIds : sweep.ages[s] \in Int /\ sets[s].age \in Int /\ sets'[s].age \in Int
      /\ MaxAge \in Nat /\ Primaries' \subseteq SetIds /\ Primaries \subseteq SetIds
  <2>1. sets \in [SetIds -> TaskSet] /\ sets' \in [SetIds -> TaskSet] /\ sweep \in SweepRec /\ MaxAge \in Nat
    BY LifecycleAssumption DEF FleetInv, FleetTyped
  <2>2. \A s \in SetIds : sweep.ages[s] \in Int /\ sets[s].age \in Int /\ sets'[s].age \in Int
    BY <2>1 DEF SweepRec, TaskSet
  <2> QED BY <2>1, <2>2 DEF Primaries
<1>2. \A s \in SetIds : sweep.ages[s] <= sets[s].age
  BY DEF FleetInv, AgesOK
<1>3. AgesOK'
  <2>1. \A s \in SetIds : sweep.ages[s] <= sets'[s].age
    BY <1>1, <1>2
  <2> QED BY <2>1 DEF FleetInv, AgesOK
<1>4. \A s \in SetIds : sets[s].status # "none" => Reads(s)' = Reads(s)
  BY DEF Reads
<1>5. ASSUME NEW p \in Primaries PROVE p \in SetIds /\ sets[p].status # "none"
  BY DEF Primaries
<1>6. ASSUME NEW p \in Primaries, sets[p].age >= MaxAge, NEW v \in DOMAIN depth, v # Reads(p), depth[v] = 0
      PROVE  depth'[v] = 0
  <2>1. producing \in {0, Reads(p)}
    BY <1>6 DEF FleetInv, PinsOK
  <2>2. v # 0
    BY LifecycleAssumption DEF FleetInv, DepthsTyped
  <2> QED BY <1>6, <2>1, <2>2
<1>7. ListedOK'
  <2>1. ASSUME sweep.pc = "listed" PROVE sweep.drained \subseteq DOMAIN depth'
    BY <2>1 DEF FleetInv, ListedOK
  <2>2. ASSUME sweep.pc = "listed", NEW p \in Primaries', sweep.ages[p] >= MaxAge,
               NEW v \in sweep.drained, v # Reads(p)'
        PROVE  depth'[v] = 0
    <3>1. p \in Primaries /\ sets[p].age >= MaxAge
      BY <1>1, <1>2, <2>2
    <3>2. Reads(p)' = Reads(p)
      BY <1>4, <1>5, <3>1
    <3>3. v \in DOMAIN depth /\ depth[v] = 0
      BY <2>2, <3>1, <3>2 DEF FleetInv, ListedOK
    <3> QED BY <1>6, <2>2, <3>1, <3>2, <3>3
  <2> QED BY <2>1, <2>2 DEF ListedOK
<1>8. DoomedOK'
  <2> SUFFICES ASSUME sweep.pc = "retire"
               PROVE  /\ sweep.primary \in SetIds \ {deploying'} /\ sets'[sweep.primary].status # "none"
                      /\ \A s \in sweep.doomed : sets'[s].status # "none"
                      /\ \A s \in sweep.doomed :
                           SeenWorking(s)' /\ sweep.primary \in Primaries' /\ Reads(s)' # Reads(sweep.primary)'
                             => sets'[sweep.primary].age >= MaxAge /\ Reads(s)' \in DOMAIN depth' /\ depth'[Reads(s)'] = 0
    BY DEF DoomedOK
  <2> PICK p : p = sweep.primary
    OBVIOUS
  <2>1. p \in SetIds \ {deploying} /\ sets[p].status # "none" /\ sweep.doomed \subseteq SetIds
    BY <1>1 DEF FleetInv, DoomedOK, SweepRec
  <2>2. p # deploying' /\ sets'[p].status # "none" /\ Reads(p)' = Reads(p)
    BY <1>4, <2>1 DEF SetIds
  <2>3. \A s \in sweep.doomed : s \in SetIds /\ sets[s].status # "none"
    BY <2>1 DEF FleetInv, DoomedOK
  <2>4. \A s \in sweep.doomed : sets'[s].status # "none" /\ Reads(s)' = Reads(s) /\ sets'[s].version = sets[s].version
    BY <1>4, <2>3
  <2>5. ASSUME NEW s \in sweep.doomed, SeenWorking(s)', p \in Primaries', Reads(s)' # Reads(p)'
        PROVE  sets'[p].age >= MaxAge /\ Reads(s)' \in DOMAIN depth' /\ depth'[Reads(s)'] = 0
    <3>1. p \in Primaries
      BY <2>1, <2>5
    <3>2. SeenWorking(s)
      BY <2>4, <2>5 DEF SeenWorking
    <3>3. Reads(s)' = Reads(s) /\ Reads(s) # Reads(p)
      BY <2>2, <2>4, <2>5
    <3>4. sets[p].age >= MaxAge /\ Reads(s) \in DOMAIN depth /\ depth[Reads(s)] = 0
      BY <3>1, <3>2, <3>3 DEF FleetInv, DoomedOK
    <3>5. depth'[Reads(s)] = 0
      BY <1>6, <3>1, <3>3, <3>4
    <3>6. sets'[p].age >= MaxAge
      BY <1>1, <2>1, <3>4
    <3> QED BY <3>3, <3>4, <3>5, <3>6
  <2> QED BY <2>1, <2>2, <2>4, <2>5
<1> QED BY <1>3, <1>7, <1>8

\* A step of the queues alone: one more message for whom the producers are
\* pinned to, one less anywhere, or a new and empty queue.
LEMMA QueuesMove ==
  ASSUME FleetInv, sets' = sets, deploying' = deploying, sweep' = sweep, FleetTyped', DepthsTyped',
         producing' \in {producing, PrimaryVersion}, producing' # 0 => producing' \in DOMAIN depth',
         DOMAIN depth \subseteq DOMAIN depth',
         \A v \in DOMAIN depth : v # producing => depth'[v] <= depth[v]
  PROVE  FleetInv'
<1>1. Primaries' = Primaries /\ \A s : Reads(s)' = Reads(s)
  BY DEF Primaries, Reads
<1>2. OnePrimary' /\ DeployOK'
  BY <1>1 DEF FleetInv, OnePrimary, DeployOK
<1>3. PinsOK'
  <2>1. ASSUME NEW p \in Primaries, sets[p].age >= MaxAge PROVE producing' \in {0, Reads(p)}
    <3>1. PrimaryVersion = Reads(p)
      BY TheVersion DEF FleetInv
    <3> QED BY <2>1, <3>1 DEF FleetInv, PinsOK
  <2> QED BY <1>1, <2>1 DEF PinsOK
<1>4. ASSUME NEW v \in DOMAIN depth, v # producing, depth[v] = 0 PROVE depth'[v] = 0
  <2>1. depth'[v] <= 0 /\ v \in DOMAIN depth'
    BY <1>4
  <2> QED BY <2>1 DEF DepthsTyped
<1>5. \A s \in SetIds : sets[s].age \in Int
  BY LifecycleAssumption DEF FleetInv, FleetTyped, TaskSet
<1>6. AgesOK' /\ ListedOK' /\ DoomedOK'
  BY <1>1, <1>4, <1>5, SweepMoves
<1> QED BY <1>2, <1>3, <1>6 DEF FleetInv

LEMMA ScaleKeeps == ASSUME FleetInv, NEW depths \in Listings, Scale(depths) PROVE FleetInv'
<1>1. PICK backlog \in Nat : desired' = ComputeDesiredCount(desired, backlog)
  <2>1. CASE depths = << >>
    BY <2>1 DEF Scale, SetDesiredCount
  <2>2. CASE depths # << >>
    <3>1. PICK vs \in SUBSET DOMAIN depth : depths = [v \in vs |-> depth[v]]
      BY DEF Listings, Restrict
    <3>2. vs # {}
      BY <3>1, <2>2
    <3>3. Newest(depths) \in vs
      <4>1. IsFiniteSet(vs) /\ vs \in SUBSET Nat /\ DOMAIN depths = vs
        BY <3>1, FS_Subset, LifecycleAssumption DEF FleetInv, DepthsTyped
      <4> QED BY <4>1, <3>2, GreatestNat DEF Newest
    <3>4. depths[Newest(depths)] \in Nat
      BY <3>1, <3>3, LifecycleAssumption DEF FleetInv, DepthsTyped
    <3> QED BY <2>2, <3>4 DEF Scale, SetDesiredCount
  <2> QED BY <2>1, <2>2
<1>2. desired' \in 0 .. MaxWorkers
  BY <1>1, CountInRange, LifecycleAssumption DEF FleetInv, FleetTyped, ScalingOK
<1>3. FleetTyped'
  BY <1>2 DEF FleetInv, FleetTyped, Scale, SetDesiredCount
<1>4. DepthsTyped'
  BY DEF FleetInv, DepthsTyped, Scale
<1>5. UNCHANGED <<sets, depth, producing, deploying, sweep>>
  BY DEF Scale
<1>6. \A v \in DOMAIN depth : depth[v] \in Int
  BY DEF FleetInv, DepthsTyped
<1> QED BY <1>3, <1>4, <1>5, <1>6, QueuesMove DEF FleetInv, PinsOK

LEMMA ListKeeps == ASSUME FleetInv, CleanupList PROVE FleetInv'
<1>1. UNCHANGED <<sets, desired, cooling, depth, producing, deploying, posts>>
  BY DEF CleanupList
<1>2. PICK depths \in Listings :
        sweep' = [NoSweep EXCEPT !.pc = "listed", !.drained = Retirable(depths),
                                 !.ages = [s \in SetIds |-> IF s \in Standing THEN sets[s].age ELSE -1]]
  BY DEF CleanupList
<1>3. PICK vs \in SUBSET DOMAIN depth : depths = [v \in vs |-> depth[v]]
  BY DEF Listings, Restrict
<1>4. Retirable(depths) \subseteq DOMAIN depth /\ \A v \in Retirable(depths) : depth[v] = 0
  BY <1>3 DEF Retirable
<1>5. PICK ages \in [SetIds -> -1 .. MaxAge] : ages = [s \in SetIds |-> IF s \in Standing THEN sets[s].age ELSE -1]
  <2>1. ASSUME NEW s \in SetIds PROVE (IF s \in Standing THEN sets[s].age ELSE -1) \in -1 .. MaxAge
    <3>1. sets[s].age \in 0 .. MaxAge
      BY DEF FleetInv, FleetTyped, TaskSet
    <3>2. MaxAge \in Nat
      BY LifecycleAssumption
    <3> QED BY <3>1, <3>2
  <2> QED BY <2>1
<1>6. /\ sweep' = [pc |-> "listed", drained |-> Retirable(depths), ages |-> ages, primary |-> 0, doomed |-> {}, busy |-> {}]
  BY <1>2, <1>5 DEF NoSweep
<1>7. sweep' \in SweepRec /\ sweep'.pc = "listed" /\ sweep'.drained = Retirable(depths) /\ sweep'.ages = ages
  <2>1. Retirable(depths) \in SUBSET Versions
    BY <1>4 DEF FleetInv, DepthsTyped
  <2> QED BY <1>5, <1>6, <2>1 DEF SweepRec
<1>8. FleetTyped'
  BY <1>1, <1>7 DEF FleetInv, FleetTyped
<1>9. AgesOK'
  <2>1. ASSUME NEW s \in SetIds PROVE ages[s] <= sets[s].age
    <3>1. sets[s].age \in Nat /\ ages[s] \in {sets[s].age, -1}
      BY <1>5, LifecycleAssumption DEF FleetInv, FleetTyped, TaskSet
    <3> QED BY <3>1
  <2> QED BY <1>1, <1>7, <2>1 DEF AgesOK
<1>10. ListedOK' /\ DoomedOK'
  BY <1>1, <1>4, <1>7 DEF ListedOK, DoomedOK
<1>11. DepthsTyped' /\ OnePrimary' /\ PinsOK' /\ DeployOK'
  BY <1>1 DEF FleetInv, DepthsTyped, OnePrimary, PinsOK, DeployOK, Primaries, Reads
<1> QED BY <1>8, <1>9, <1>10, <1>11 DEF FleetInv

\* A working set is doomed only where its queue is drained and the PRIMARY old.
LEMMA DescribeKeeps == ASSUME FleetInv, CleanupDescribe PROVE FleetInv'
<1>1. UNCHANGED <<sets, desired, cooling, depth, producing, deploying, posts>> /\ sweep.pc = "listed"
  BY DEF CleanupDescribe
<1>2. DepthsTyped' /\ OnePrimary' /\ PinsOK' /\ DeployOK'
  BY <1>1 DEF FleetInv, DepthsTyped, OnePrimary, PinsOK, DeployOK, Primaries, Reads
<1>3. CASE sweep' = NoSweep
  <2>1. FleetTyped'
    BY <1>1, <1>3, NoSweepTyped DEF FleetInv, FleetTyped
  <2>2. \A s \in SetIds : -1 <= sets[s].age
    BY LifecycleAssumption DEF FleetInv, FleetTyped, TaskSet
  <2>3. AgesOK' /\ ListedOK' /\ DoomedOK'
    BY <1>1, <1>3, <2>2, NoSweepTyped DEF AgesOK, ListedOK, DoomedOK
  <2> QED BY <1>2, <2>1, <2>3 DEF FleetInv
<1>4. CASE sweep' # NoSweep
  <2>1. PICK p \in Primaries : TRUE
    BY <1>4 DEF CleanupDescribe
  <2>2. Min(Primaries) = p /\ p \in SetIds
    BY <2>1, TheVersion DEF FleetInv
  <2>3. PICK old : old = {s \in Standing \ Primaries : RetireReason(s, p)}
    OBVIOUS
  <2>4. PICK busy : busy = {s \in old : sets[s].running > 0}
    OBVIOUS
  <2>5. sweep' = [NoSweep EXCEPT !.pc = "retire", !.primary = p, !.doomed = old, !.busy = busy]
    BY <1>4, <2>2, <2>3, <2>4 DEF CleanupDescribe
  <2>6. sweep' = [pc |-> "retire", drained |-> {}, ages |-> [s \in SetIds |-> -1], primary |-> p, doomed |-> old, busy |-> busy]
    BY <2>5 DEF NoSweep
  <2>7. /\ sweep'.pc = "retire" /\ sweep'.primary = p /\ sweep'.doomed = old /\ sweep'.busy = busy
        /\ \A s \in SetIds : sweep'.ages[s] = -1
    BY <2>6
  <2>8. sweep' \in SweepRec
    <3>1. [s \in SetIds |-> -1] \in [SetIds -> -1 .. MaxAge]
      <4>1. -1 \in -1 .. MaxAge
        BY LifecycleAssumption
      <4> QED BY <4>1
    <3>2. old \in SUBSET SetIds /\ busy \in SUBSET SetIds
      BY <2>3, <2>4 DEF Standing
    <3> QED BY <2>2, <2>6, <3>1, <3>2 DEF SweepRec
  <2>9. FleetTyped'
    BY <1>1, <2>8 DEF FleetInv, FleetTyped
  <2>10. \A s \in SetIds : sets[s].age \in Nat /\ sweep.ages[s] \in Int /\ sets[s].running \in Nat
    <3>1. \A s \in SetIds : sets[s] \in TaskSet
      BY DEF FleetInv, FleetTyped
    <3>2. \A s \in SetIds : sweep.ages[s] \in -1 .. MaxAge
      BY DEF FleetInv, FleetTyped, SweepRec
    <3> QED BY <3>1, <3>2, LifecycleAssumption DEF TaskSet, ScalingOK
  <2>11. AgesOK'
    <3>1. \A s \in SetIds : sweep'.ages[s] <= sets[s].age
      BY <2>7, <2>10
    <3> QED BY <1>1, <2>7, <3>1 DEF AgesOK
  <2>12. ListedOK'
    BY <2>7 DEF ListedOK
  <2>13. ASSUME NEW s \in old, s \in busy, sets[s].version # 0, Reads(s) # Reads(p)
         PROVE  sets[p].age >= MaxAge /\ Reads(s) \in DOMAIN depth /\ depth[Reads(s)] = 0
    <3>1. s \in SetIds /\ RetireReason(s, p) /\ sets[s].running > 0
      BY <2>3, <2>4, <2>13 DEF Standing
    <3>2. ~ Zombie(s) /\ ~ Orphan(s)
      BY <2>13, <3>1 DEF Zombie, Orphan
    <3>3. ~ SameVersion(s, p)
      BY <2>13 DEF SameVersion, Reads
    <3>4. sets[s].version \in sweep.drained /\ sweep.ages[p] >= MaxAge
      BY <3>1, <3>2, <3>3 DEF RetireReason, Drained
    <3>5. Reads(s) = sets[s].version
      BY <2>13 DEF Reads
    <3>6. Reads(s) \in DOMAIN depth /\ depth[Reads(s)] = 0
      BY <1>1, <2>1, <2>13, <3>4, <3>5 DEF FleetInv, ListedOK
    <3>7. sets[p].age >= MaxAge
      <4>1. sweep.ages[p] <= sets[p].age
        BY <2>2 DEF FleetInv, AgesOK
      <4> QED BY <2>2, <2>10, <3>4, <4>1, LifecycleAssumption
    <3> QED BY <3>6, <3>7
  <2>14. p # deploying /\ sets[p].status # "none" /\ \A s \in old : sets[s].status # "none"
    <3>1. p # deploying
      BY <2>1, <2>2 DEF FleetInv, DeployOK, Primaries, SetIds
    <3> QED BY <2>1, <2>3, <3>1 DEF Primaries, Standing
  <2>15. DoomedOK'
    <3>1. Primaries' = Primaries /\ \A s : Reads(s)' = Reads(s)
      BY <1>1 DEF Primaries, Reads
    <3>2. \A s : SeenWorking(s)' => s \in busy /\ sets[s].version # 0
      BY <1>1, <2>7 DEF SeenWorking
    <3> QED BY <1>1, <2>2, <2>7, <2>13, <2>14, <3>1, <3>2 DEF DoomedOK
  <2> QED BY <1>2, <2>9, <2>11, <2>12, <2>15 DEF FleetInv
<1> QED BY <1>3, <1>4

LEMMA ForcedKeeps == ASSUME 0 < MaxAge, FleetInv, CleanupDelete PROVE FleetInv'
<1>1. /\ UNCHANGED <<desired, cooling, depth, producing, deploying, posts>>
      /\ sweep.pc = "retire" /\ sets \in [SetIds -> TaskSet] /\ sweep \in SweepRec
  BY DEF CleanupDelete, FleetInv, FleetTyped
<1>2. PICK s \in sweep.doomed :
        /\ sweep' = IF sweep.doomed = {s} THEN NoSweep ELSE [sweep EXCEPT !.doomed = @ \ {s}]
        /\ sets' = [sets EXCEPT ![s] = [Unused EXCEPT !.status = "gone"]] \/ UNCHANGED sets
  BY DEF CleanupDelete
<1>3. s \in SetIds /\ sets[s].status # "none"
  BY <1>1 DEF FleetInv, DoomedOK, SweepRec
<1>4. PICK gone \in TaskSet : gone = [Unused EXCEPT !.status = "gone"]
  <2>1. PICK gone : gone = [Unused EXCEPT !.status = "gone"]
    OBVIOUS
  <2>2. 0 \in 0 .. MaxWorkers /\ 0 \in 0 .. MaxAge
    BY LifecycleAssumption DEF ScalingOK
  <2>3. gone \in TaskSet
    BY <2>1, <2>2 DEF TaskSet, Unused
  <2> QED BY <2>1, <2>3
<1>5. gone.status = "gone" /\ gone.age = 0 /\ gone.version = 0
  BY <1>4 DEF Unused
<1>6. \A t \in SetIds : sets'[t] = sets[t] \/ (t = s /\ sets'[t] = gone)
  BY <1>1, <1>2, <1>4
<1>7. sets' \in [SetIds -> TaskSet]
  BY <1>1, <1>2, <1>4
<1>8. Primaries' \subseteq Primaries /\ \A p \in Primaries' : sets'[p] = sets[p] /\ Reads(p)' = Reads(p)
  <2>1. ASSUME NEW p \in Primaries' PROVE p \in SetIds /\ sets'[p] = sets[p]
    BY <1>5, <1>6 DEF Primaries
  <2> QED BY <2>1 DEF Primaries, Reads
<1>9. OnePrimary' /\ PinsOK' /\ DepthsTyped'
  <2>1. OnePrimary' /\ DepthsTyped'
    BY <1>1, <1>8 DEF FleetInv, OnePrimary, DepthsTyped
  <2>2. ASSUME NEW p \in Primaries', sets'[p].age >= MaxAge PROVE producing \in {0, Reads(p)'}
    BY <1>8, <2>2 DEF FleetInv, PinsOK
  <2> QED BY <1>1, <2>1, <2>2 DEF FleetInv, PinsOK
<1>10. DeployOK'
  <2>1. ASSUME deploying # 0 PROVE sets'[deploying].status # "primary" /\ sets'[deploying].age < MaxAge
    <3>1. deploying \in SetIds /\ sets[deploying].status # "primary" /\ sets[deploying].age < MaxAge
      BY <2>1 DEF FleetInv, FleetTyped, DeployOK
    <3> QED BY <1>5, <1>6, <3>1
  <2> QED BY <1>1, <2>1 DEF DeployOK
<1>11. CASE sweep' = NoSweep
  <2>1. FleetTyped'
    BY <1>1, <1>7, <1>11, NoSweepTyped DEF FleetInv, FleetTyped
  <2>2. \A t \in SetIds : -1 <= sets'[t].age
    BY <1>7, LifecycleAssumption DEF TaskSet
  <2>3. AgesOK' /\ ListedOK' /\ DoomedOK'
    BY <1>11, <2>2, NoSweepTyped DEF AgesOK, ListedOK, DoomedOK
  <2> QED BY <1>9, <1>10, <2>1, <2>3 DEF FleetInv
<1>12. CASE sweep' = [sweep EXCEPT !.doomed = @ \ {s}]
  <2>1. /\ sweep' \in SweepRec /\ sweep'.pc = "retire" /\ sweep'.primary = sweep.primary /\ sweep'.ages = sweep.ages
        /\ sweep'.doomed = sweep.doomed \ {s} /\ sweep'.busy = sweep.busy
    BY <1>1, <1>12 DEF SweepRec
  <2>2. FleetTyped'
    BY <1>1, <1>7, <2>1 DEF FleetInv, FleetTyped
  <2>3. AgesOK'
    <3>1. \A t \in SetIds : sweep.ages[t] = -1 /\ sets'[t].age \in Nat
      BY <1>1, <1>7, LifecycleAssumption DEF FleetInv, AgesOK, TaskSet
    <3> QED BY <2>1, <3>1 DEF AgesOK
  <2>4. ListedOK'
    BY <2>1 DEF ListedOK
  <2>5. DoomedOK'
    <3>1. sweep.primary \in SetIds \ {deploying} /\ sets[sweep.primary].status # "none" /\ sweep.doomed \subseteq SetIds
      BY <1>1 DEF FleetInv, DoomedOK, SweepRec
    <3>2. sets'[sweep.primary].status # "none"
      BY <1>5, <1>6, <3>1
    <3>3. ASSUME NEW t \in sweep.doomed, t # s
          PROVE  sets'[t] = sets[t] /\ Reads(t)' = Reads(t) /\ sets[t].status # "none" /\ (SeenWorking(t)' => SeenWorking(t))
      <4>1. sets'[t] = sets[t]
        BY <1>6, <3>1, <3>3
      <4>2. sets[t].status # "none"
        BY <1>1 DEF FleetInv, DoomedOK
      <4> QED BY <2>1, <4>1, <4>2 DEF Reads, SeenWorking
    <3>4. PICK p : p = sweep.primary
      OBVIOUS
    <3>5. ASSUME NEW t \in sweep.doomed, t # s, SeenWorking(t)', p \in Primaries', Reads(t)' # Reads(p)'
          PROVE  sets'[p].age >= MaxAge /\ Reads(t)' \in DOMAIN depth /\ depth[Reads(t)'] = 0
      <4>1. p \in Primaries /\ sets'[p] = sets[p] /\ Reads(p)' = Reads(p)
        BY <1>8, <3>5
      <4> QED BY <1>1, <3>3, <3>4, <3>5, <4>1 DEF FleetInv, DoomedOK
    <3> QED BY <1>1, <2>1, <3>1, <3>2, <3>3, <3>4, <3>5 DEF DoomedOK
  <2> QED BY <1>9, <1>10, <2>2, <2>3, <2>4, <2>5 DEF FleetInv
<1> QED BY <1>2, <1>11, <1>12

LEMMA CreateKeepsFleet == ASSUME 0 < MaxAge, FleetInv, NEW v \in Versions \cup {0}, DeployCreate(v) PROVE FleetInv'
<1>1. deploying = 0 /\ UNCHANGED <<desired, cooling, depth, producing, sweep, posts>>
  BY DEF DeployCreate
<1>2. PICK n \in SetIds : /\ sets[n] = Unused /\ deploying' = n
                         /\ sets' = [sets EXCEPT ![n] = [Unused EXCEPT !.status = "active", !.version = v]]
  BY DEF DeployCreate
<1>3. PICK new \in TaskSet : new = [Unused EXCEPT !.status = "active", !.version = v]
  <2>1. 0 \in 0 .. MaxWorkers /\ 0 \in 0 .. MaxAge
    BY LifecycleAssumption DEF ScalingOK
  <2>2. PICK new : new = [Unused EXCEPT !.status = "active", !.version = v]
    OBVIOUS
  <2>3. new \in TaskSet
    BY <2>1, <2>2 DEF TaskSet, Unused
  <2> QED BY <2>2, <2>3
<1>4. new.status = "active" /\ new.age = 0 /\ sets[n].status = "none" /\ sets[n].age = 0
  BY <1>2, <1>3 DEF Unused
<1>5. sets \in [SetIds -> TaskSet] /\ sets' = [sets EXCEPT ![n] = new]
  BY <1>2, <1>3 DEF FleetInv, FleetTyped
<1>6. FleetTyped'
  BY <1>1, <1>2, <1>5 DEF FleetInv, FleetTyped
<1>7. \A s \in SetIds : sets'[s] = sets[s] \/ (s = n /\ sets'[s] = new)
  BY <1>5
<1>8. Primaries' = Primaries /\ \A s \in Primaries : sets'[s] = sets[s] /\ Reads(s)' = Reads(s)
  BY <1>4, <1>5, <1>7 DEF Primaries, Reads
<1>9. OnePrimary' /\ PinsOK' /\ DepthsTyped'
  BY <1>1, <1>8 DEF FleetInv, OnePrimary, PinsOK, DepthsTyped
<1>10. DeployOK'
  <2>1. sets'[n] = new
    BY <1>5
  <2> QED BY <1>2, <1>4, <2>1 DEF DeployOK
<1>11. \A s \in SetIds : sets[s].age \in Int
  BY <1>5, LifecycleAssumption DEF TaskSet
<1>12. AgesOK' /\ ListedOK' /\ DoomedOK'
  <2>1. \A s \in SetIds : sets[s].age <= sets'[s].age
    BY <1>4, <1>7, <1>11
  <2>2. \A s \in SetIds : sets[s].status # "none" => sets'[s].status # "none" /\ sets'[s].version = sets[s].version
    BY <1>4, <1>7
  <2> QED BY <1>1, <1>2, <1>4, <1>6, <1>8, <2>1, <2>2, SweepMoves
<1> QED BY <1>6, <1>9, <1>10, <1>12 DEF FleetInv

LEMMA PromoteKeeps == ASSUME FleetInv, DeployPromote PROVE FleetInv'
<1>1. deploying # 0 /\ deploying' = 0 /\ UNCHANGED <<desired, cooling, depth, producing, sweep, posts>>
  BY DEF DeployPromote
<1>2. DepthsTyped' /\ DeployOK'
  BY <1>1 DEF FleetInv, DepthsTyped, DeployOK
<1>3. deploying \in SetIds /\ sets \in [SetIds -> TaskSet] /\ sets[deploying].age < MaxAge /\ MaxAge \in Nat
      /\ \A s \in SetIds : sets[s].age \in Int
  BY <1>1, LifecycleAssumption DEF FleetInv, FleetTyped, DeployOK, TaskSet
<1>4. CASE UNCHANGED sets
  <2>1. FleetTyped'
    BY <1>1, <1>4 DEF FleetInv, FleetTyped
  <2>2. Primaries' = Primaries /\ \A s : Reads(s)' = Reads(s)
    BY <1>4 DEF Primaries, Reads
  <2>3. OnePrimary' /\ PinsOK'
    BY <1>1, <1>4, <2>2 DEF FleetInv, OnePrimary, PinsOK
  <2>4. AgesOK' /\ ListedOK' /\ DoomedOK'
    BY <1>1, <1>3, <1>4, <2>1, <2>2, SweepMoves
  <2> QED BY <1>2, <2>1, <2>3, <2>4 DEF FleetInv
<1>5. CASE sets[deploying].status = "active" /\ sets' = [s \in SetIds |-> Promoted(s)]
  <2>1. ASSUME NEW s \in SetIds
        PROVE  /\ sets'[s] \in TaskSet /\ sets'[s].version = sets[s].version /\ sets'[s].age = sets[s].age
               /\ sets'[s].status = "none" <=> sets[s].status = "none"
               /\ sets'[s].status = "primary" <=> s = deploying
    <3>1. sets'[s] = Promoted(s) /\ sets[s] \in TaskSet
      BY <1>3, <1>5
    <3>2. PICK old \in TaskSet : old = sets[s]
      BY <3>1
    <3>3. CASE s = deploying
      <4>1. sets'[s] = [old EXCEPT !.status = "primary"]
        BY <3>1, <3>2, <3>3 DEF Promoted
      <4> QED BY <4>1, <3>2, <3>3, <1>5 DEF TaskSet
    <3>4. CASE s # deploying /\ s \in Primaries
      <4>1. sets'[s] = [old EXCEPT !.status = "active"] /\ old.status = "primary"
        BY <3>1, <3>2, <3>4 DEF Promoted, Primaries
      <4> QED BY <4>1, <3>2, <3>4 DEF TaskSet
    <3>5. CASE s # deploying /\ s \notin Primaries
      <4>1. sets'[s] = old /\ old.status # "primary"
        BY <3>1, <3>2, <3>5 DEF Promoted, Primaries
      <4> QED BY <4>1, <3>2, <3>5
    <3> QED BY <3>3, <3>4, <3>5
  <2>2. Primaries' = {deploying}
    BY <1>3, <2>1 DEF Primaries
  <2>3. FleetTyped'
    <3>1. sets' \in [SetIds -> TaskSet]
      BY <1>5, <2>1
    <3> QED BY <1>1, <3>1 DEF FleetInv, FleetTyped
  <2>4. sets'[deploying].age < MaxAge
    BY <1>3, <2>1
  <2>5. OnePrimary' /\ PinsOK'
    <3>1. ~ (sets'[deploying].age >= MaxAge)
      BY <1>3, <2>1, <2>4
    <3> QED BY <1>1, <2>2, <3>1 DEF FleetInv, OnePrimary, PinsOK
  <2>6. AgesOK' /\ ListedOK' /\ DoomedOK'
    <3>1. \A s \in SetIds : sets[s].age <= sets'[s].age
      BY <1>3, <2>1
    <3> QED BY <1>1, <2>1, <2>2, <2>3, <2>4, <3>1, SweepMoves
  <2> QED BY <1>2, <2>3, <2>5, <2>6 DEF FleetInv
<1> QED BY <1>4, <1>5 DEF DeployPromote

LEMMA ConvergeKeeps == ASSUME FleetInv, NEW s \in SetIds, Converge(s) PROVE FleetInv'
<1>1. /\ UNCHANGED <<desired, cooling, producing, deploying, sweep, posts>>
      /\ sets' = [sets EXCEPT ![s].running = desired]
      /\ depth' = IF desired > 0 THEN Declared(Reads(s)) ELSE depth
  BY DEF Converge
<1>2. sets \in [SetIds -> TaskSet] /\ desired \in 0 .. MaxWorkers
  BY DEF FleetInv, FleetTyped
<1>3. PICK new \in TaskSet : new = [sets[s] EXCEPT !.running = desired]
  BY <1>2 DEF TaskSet
<1>4. new.status = sets[s].status /\ new.version = sets[s].version /\ new.age = sets[s].age
  BY <1>2, <1>3 DEF TaskSet
<1>5. sets' = [sets EXCEPT ![s] = new]
  BY <1>1, <1>3
<1>6. \A t \in SetIds :
        sets'[t].status = sets[t].status /\ sets'[t].version = sets[t].version /\ sets'[t].age = sets[t].age
  BY <1>2, <1>4, <1>5
<1>7. Primaries' = Primaries /\ Primaries \subseteq SetIds /\ \A t \in SetIds : Reads(t)' = Reads(t)
  BY <1>6 DEF Primaries, Reads
<1>8. FleetTyped'
  <2>1. sets' \in [SetIds -> TaskSet]
    BY <1>2, <1>5
  <2> QED BY <1>1, <2>1 DEF FleetInv, FleetTyped
<1>9. PICK v \in Versions : v = Reads(s)
  BY ReadsVersion DEF FleetInv
<1>10. /\ DepthsTyped' /\ DOMAIN depth \subseteq DOMAIN depth'
       /\ \A u \in DOMAIN depth : depth'[u] = depth[u]
  <2>1. CASE desired > 0
    <3>1. depth' = Declared(v)
      BY <1>1, <1>9, <2>1
    <3>2. /\ depth' = [u \in DOMAIN depth' |-> depth'[u]]
          /\ DOMAIN depth' = DOMAIN depth \cup {v}
          /\ \A u \in DOMAIN depth : depth'[u] = depth[u]
          /\ v \notin DOMAIN depth => depth'[v] = 0
      BY <3>1, DeclareKeeps DEF FleetInv
    <3>3. 0 \in 0 .. MaxDepth
      BY LifecycleAssumption
    <3> QED BY <3>2, <3>3 DEF FleetInv, DepthsTyped
  <2>2. CASE ~(desired > 0)
    BY <1>1, <2>2 DEF FleetInv, DepthsTyped
  <2> QED BY <2>1, <2>2
<1>11. PinsOK' /\ OnePrimary'
  BY <1>1, <1>6, <1>7, <1>10 DEF FleetInv, PinsOK, OnePrimary
<1>12. DeployOK'
  <2>1. deploying # 0 => deploying \in SetIds
    BY DEF FleetInv, FleetTyped
  <2> QED BY <1>1, <1>6, <2>1 DEF FleetInv, DeployOK
<1>13. AgesOK' /\ ListedOK' /\ DoomedOK'
  <2>1. \A t \in SetIds : sets[t].age <= sets'[t].age
    BY <1>2, <1>6, LifecycleAssumption DEF TaskSet
  <2> QED BY <1>1, <1>6, <1>7, <1>8, <1>10, <2>1, SweepMoves
<1> QED BY <1>8, <1>10, <1>11, <1>12, <1>13 DEF FleetInv

LEMMA PinKeeps == ASSUME FleetInv, Pin PROVE FleetInv'
<1>1. /\ UNCHANGED <<sets, desired, cooling, deploying, sweep, posts>>
      /\ Primaries # {} /\ producing' = PrimaryVersion /\ depth' = Declared(PrimaryVersion)
  BY DEF Pin, Declared
<1>2. PICK p \in Primaries : TRUE
  BY <1>1
<1>3. producing' \in Versions
  BY <1>1, <1>2, TheVersion, ReadsVersion DEF FleetInv
<1>4. /\ depth' = [u \in DOMAIN depth' |-> depth'[u]] /\ DOMAIN depth' = DOMAIN depth \cup {producing'}
      /\ \A u \in DOMAIN depth : depth'[u] = depth[u]
      /\ producing' \notin DOMAIN depth => depth'[producing'] = 0
  BY <1>1, <1>3, DeclareKeeps DEF FleetInv
<1>5. DepthsTyped'
  <2>1. 0 \in 0 .. MaxDepth
    BY LifecycleAssumption
  <2> QED BY <1>3, <1>4, <2>1 DEF FleetInv, DepthsTyped
<1>6. FleetTyped'
  BY <1>1, <1>3 DEF FleetInv, FleetTyped
<1>7. \A v \in DOMAIN depth : depth[v] \in Int
  BY DEF FleetInv, DepthsTyped
<1> QED BY <1>1, <1>4, <1>5, <1>6, <1>7, QueuesMove

LEMMA PostKeeps == ASSUME FleetInv, Post PROVE FleetInv'
<1>1. /\ UNCHANGED <<sets, desired, cooling, producing, deploying, sweep>>
      /\ producing # 0 /\ depth[producing] < MaxDepth /\ posts < MaxPosts
      /\ posts' = posts + 1 /\ depth' = [depth EXCEPT ![producing] = @ + 1]
  BY DEF Post
<1>2. producing \in DOMAIN depth
  BY <1>1 DEF FleetInv, PinsOK
<1>3. /\ DOMAIN depth' = DOMAIN depth /\ depth' = [v \in DOMAIN depth' |-> depth'[v]]
      /\ depth'[producing] = depth[producing] + 1
      /\ \A v \in DOMAIN depth : v # producing => depth'[v] = depth[v]
  BY <1>1, <1>2 DEF FleetInv, DepthsTyped
<1>4. DepthsTyped'
  BY <1>1, <1>2, <1>3, LifecycleAssumption DEF FleetInv, DepthsTyped
<1>5. FleetTyped'
  BY <1>1, LifecycleAssumption DEF FleetInv, FleetTyped
<1>6. \A v \in DOMAIN depth : depth[v] \in Int
  BY DEF FleetInv, DepthsTyped
<1> QED BY <1>1, <1>2, <1>3, <1>4, <1>5, <1>6, QueuesMove

LEMMA ConsumeKeeps == ASSUME FleetInv, NEW s \in SetIds, Consume(s) PROVE FleetInv'
<1>1. UNCHANGED <<sets, desired, cooling, producing, deploying, sweep, posts>>
  BY DEF Consume
<1>2. PICK v \in DOMAIN depth : depth[v] > 0 /\ depth' = [depth EXCEPT ![v] = @ - 1]
  BY DEF Consume
<1>3. /\ DOMAIN depth' = DOMAIN depth /\ depth' = [u \in DOMAIN depth' |-> depth'[u]]
      /\ depth'[v] = depth[v] - 1 /\ \A u \in DOMAIN depth : u # v => depth'[u] = depth[u]
  BY <1>2 DEF FleetInv, DepthsTyped
<1>4. DepthsTyped' /\ FleetTyped'
  BY <1>1, <1>2, <1>3, LifecycleAssumption DEF FleetInv, DepthsTyped, FleetTyped
<1>5. \A u \in DOMAIN depth : depth[u] \in Int /\ depth'[u] <= depth[u]
  BY <1>3 DEF FleetInv, DepthsTyped
<1>6. producing # 0 => producing \in DOMAIN depth
  BY DEF FleetInv, PinsOK
<1> QED BY <1>1, <1>3, <1>4, <1>5, <1>6, QueuesMove

\* Time makes nobody old while it is being deployed, or while producers are
\* pinned to another version.
LEMMA PassKeeps == ASSUME FleetInv, Pass PROVE FleetInv'
<1>1. /\ UNCHANGED <<desired, depth, producing, deploying, sweep, posts>>
      /\ sets' = [s \in SetIds |-> Older(s)] /\ cooling' = FALSE
      /\ \A s \in Unsettled : sets[s].age + 1 < MaxAge
  BY DEF Pass
<1>2. sets \in [SetIds -> TaskSet] /\ MaxAge \in Nat
  BY LifecycleAssumption DEF FleetInv, FleetTyped
<1>3. ASSUME NEW s \in SetIds
      PROVE  /\ sets'[s] \in TaskSet /\ sets'[s].status = sets[s].status /\ sets'[s].version = sets[s].version
             /\ sets[s].age \in 0 .. MaxAge
             /\ sets'[s].age = IF s \in Standing THEN (IF sets[s].age < MaxAge THEN sets[s].age + 1 ELSE MaxAge)
                               ELSE sets[s].age
  <2>1. PICK old \in TaskSet : old = sets[s] /\ old.age \in 0 .. MaxAge
    BY <1>2 DEF TaskSet
  <2>2. PICK age \in 0 .. MaxAge : age = IF s \in Standing THEN Min({MaxAge, old.age + 1}) ELSE old.age
    BY <1>2, <2>1, TwoMin
  <2>3. age = IF s \in Standing THEN (IF old.age < MaxAge THEN old.age + 1 ELSE MaxAge) ELSE old.age
    BY <1>2, <2>1, <2>2, TwoMin
  <2>4. sets'[s] = [old EXCEPT !.age = age]
    BY <1>1, <2>1, <2>2 DEF Older
  <2> QED BY <2>1, <2>3, <2>4 DEF TaskSet
<1>4. Primaries' = Primaries /\ Primaries \subseteq SetIds /\ \A s \in SetIds : Reads(s)' = Reads(s)
  BY <1>3 DEF Primaries, Reads
<1>5. FleetTyped'
  <2>1. sets' \in [SetIds -> TaskSet]
    BY <1>1, <1>3
  <2>2. cooling' \in BOOLEAN
    BY <1>1
  <2> QED BY <1>1, <2>1, <2>2 DEF FleetInv, FleetTyped
<1>6. \A s \in SetIds : sets[s].age <= sets'[s].age /\ sets'[s].age <= sets[s].age + 1
  BY <1>2, <1>3
<1>7. \A s \in Unsettled : s \in SetIds /\ sets'[s].age < MaxAge
  <2>1. ASSUME NEW s \in Unsettled PROVE s \in SetIds /\ sets'[s].age < MaxAge
    <3>1. s \in SetIds /\ sets[s].age + 1 < MaxAge
      BY <1>1 DEF Unsettled
    <3> QED BY <1>2, <1>3, <3>1
  <2> QED BY <2>1
<1>8. PinsOK' /\ OnePrimary'
  <2>1. ASSUME NEW p \in Primaries, sets'[p].age >= MaxAge PROVE producing \in {0, Reads(p)'}
    <3>1. p \in SetIds /\ sets'[p].age \in Int
      BY <1>2, <1>3, <1>4, <1>6
    <3>2. p \notin Unsettled
      BY <1>2, <1>7, <2>1, <3>1
    <3> QED BY <1>4, <3>1, <3>2 DEF Unsettled
  <2> QED BY <1>1, <1>4, <2>1 DEF FleetInv, PinsOK, OnePrimary
<1>9. DeployOK'
  <2>1. ASSUME deploying # 0 PROVE sets'[deploying].status # "primary" /\ sets'[deploying].age < MaxAge
    <3>1. deploying \in SetIds /\ sets[deploying].status # "primary"
      BY <2>1 DEF FleetInv, FleetTyped, DeployOK
    <3>2. deploying \in Unsettled
      BY <3>1 DEF Unsettled
    <3> QED BY <1>3, <1>7, <3>1, <3>2
  <2> QED BY <1>1, <2>1 DEF DeployOK
<1>10. AgesOK' /\ ListedOK' /\ DoomedOK'
  BY <1>1, <1>3, <1>4, <1>5, <1>6, SweepMoves
<1>11. DepthsTyped'
  BY <1>1 DEF FleetInv, DepthsTyped
<1> QED BY <1>5, <1>8, <1>9, <1>10, <1>11 DEF FleetInv

LEMMA FleetKeeps == ASSUME 0 < MaxAge, FleetInv, [NextLifecycle]_lifecycleVars PROVE FleetInv'
<1>1. CASE UNCHANGED lifecycleVars
  <2>1. UNCHANGED <<sets, desired, cooling, depth, producing, deploying, sweep, posts>>
    BY <1>1 DEF lifecycleVars
  <2>2. FleetTyped' /\ DepthsTyped'
    BY <2>1 DEF FleetInv, FleetTyped, DepthsTyped
  <2>3. Primaries' = Primaries /\ (\A s : Reads(s)' = Reads(s)) /\ (\A s : SeenWorking(s)' = SeenWorking(s))
    BY <2>1 DEF Primaries, Reads, SeenWorking
  <2> QED BY <2>1, <2>2, <2>3 DEF FleetInv, OnePrimary, PinsOK, DeployOK, AgesOK, ListedOK, DoomedOK
<1>2. CASE NextLifecycle
  BY <1>2, ScaleKeeps, ListKeeps, DescribeKeeps, ForcedKeeps, PromoteKeeps, CreateKeepsFleet, ConvergeKeeps,
     ConsumeKeeps, PinKeeps, PostKeeps, PassKeeps DEF NextLifecycle
<1> QED BY <1>1, <1>2

\* Only a deletion of the cleanup retires, and for a set that the cleanup saw working on
\* another version's queue the reason can only have been that the queue is drained.
LEMMA RetiresDrained ==
  ASSUME FleetInv, [NextLifecycle]_lifecycleVars,
         NEW s \in SetIds, Retires(s), SeenWorking(s), OnAnotherQueue(s, sweep.primary)
  PROVE  depth[Reads(s)] = 0
<1>1. s \in Standing /\ sets'[s].status = "gone" /\ sets[s].status # "gone" /\ sets \in [SetIds -> TaskSet]
  BY DEF Retires, Standing, FleetInv, FleetTyped
<1>2. CASE CleanupDelete
  <2>1. sweep.pc = "retire"
    BY <1>2 DEF CleanupDelete
  <2>2. PICK t \in sweep.doomed : sets' = [sets EXCEPT ![t] = [Unused EXCEPT !.status = "gone"]] \/ UNCHANGED sets
    BY <1>2 DEF CleanupDelete
  <2>3. s = t
    BY <1>1, <2>2
  <2> QED BY <2>1, <2>3 DEF FleetInv, DoomedOK, OnAnotherQueue
<1>3. CASE UNCHANGED sets
  BY <1>1, <1>3
<1>4. ASSUME NEW v \in Versions \cup {0}, DeployCreate(v) PROVE FALSE
  <2>1. PICK n \in SetIds : sets' = [sets EXCEPT ![n] = [Unused EXCEPT !.status = "active", !.version = v]]
    BY <1>4 DEF DeployCreate
  <2> QED BY <1>1, <2>1 DEF Unused
<1>5. CASE DeployPromote
  <2>1. CASE sets' = [t \in SetIds |-> Promoted(t)]
    <3>1. sets'[s] = Promoted(s)
      BY <2>1
    <3>2. Promoted(s).status # "gone"
      BY <1>1 DEF Promoted, TaskSet
    <3> QED BY <1>1, <3>1, <3>2
  <2> QED BY <1>3, <1>5, <2>1 DEF DeployPromote
<1>6. ASSUME NEW t \in SetIds, Converge(t) PROVE FALSE
  BY <1>1, <1>6 DEF Converge
<1>7. CASE Pass
  <2>1. sets'[s] = Older(s)
    BY <1>7 DEF Pass
  <2>2. Older(s).status = sets[s].status
    BY <1>1 DEF Older, TaskSet
  <2> QED BY <1>1, <2>1, <2>2
<1> QED
  BY <1>2, <1>3, <1>4, <1>5, <1>6, <1>7
  DEF NextLifecycle, lifecycleVars, Scale, CleanupList, CleanupDescribe, Consume, Pin, Post

(***************************************************************************)
(* However deploys, rollbacks, scaling, work and cleanups overlap, no task *)
(* set that a cleanup saw working on another queue than the PRIMARY's, and *)
(* that its task definition names, is retired while that queue has         *)
(* messages, although the depths, the task sets and the deletion are calls *)
(* of their own, as long as the PRIMARY stays the same; for any number of  *)
(* versions, deploys, messages and workers, and any policy that waits at   *)
(* all (RetireReason, runCleanup, cleanupService).                         *)
(***************************************************************************)
THEOREM RetiredWhenDrained == ASSUME 0 < MaxAge PROVE LifecycleSpec => WorkingSetDrained
<1>1. FleetInv /\ [NextLifecycle]_lifecycleVars => FleetInv'
  <2> SUFFICES ASSUME FleetInv, [NextLifecycle]_lifecycleVars PROVE FleetInv'
    OBVIOUS
  <2> QED BY FleetKeeps
<1>2. InitLifecycle => FleetInv
  BY FleetStarts
<1>3. FleetInv /\ [NextLifecycle]_lifecycleVars =>
        [\A s \in SetIds : Retires(s) /\ SeenWorking(s) /\ OnAnotherQueue(s, sweep.primary) => depth[Reads(s)] = 0]_lifecycleVars
  BY RetiresDrained
<1> QED BY <1>1, <1>2, <1>3, PTL DEF LifecycleSpec, WorkingSetDrained
=============================================================================
