------------------------------ MODULE Ingestion ------------------------------
(***************************************************************************)
(* The scheduled ingestion of one source: the scheduler ticks, a run of    *)
(* its producer reads what the source holds and publishes jobs, workers    *)
(* write the rows of the jobs.  The three sources differ in what a job     *)
(* carries and in how a run reads: the crawl takes one page after another  *)
(* and publishes a job for each passage its gate keeps; the fact-check     *)
(* archive takes one page of claims after another, one job for each claim; *)
(* the scrutins come as one archive that is skipped while it is unchanged, *)
(* one job for all the votes of a scrutin.                                 *)
(***************************************************************************)
EXTENDS Naturals, Sequences, FiniteSets, FiniteSetsExt, Broker

CONSTANTS
  Sources,      \* those of "crawl", "factcheck" and "scrutins" to be explored
  Items, Parts, \* pages, claims or scrutins, and the rows of one
  Refused,      \* the <<part, revision>> the crawl's gate turns down
  Unparsable,   \* the <<scrutin, revision>> no worker can parse
  Workers, Slots, \* jobs worked on at once; runs there is room for
  MaxAttempts,
  MaxEdits, MaxFaults, MaxJobs  \* bounds: changes at the source, failures, jobs when a run starts

ASSUME IngestionAssumption ==
  /\ Sources \subseteq {"crawl", "factcheck", "scrutins"} /\ Items # {} /\ Parts \subseteq Nat \ {0} /\ Parts # {}
  /\ MaxAttempts \in Nat \ {0} /\ MaxEdits \in Nat /\ MaxFaults \in Nat /\ MaxJobs \in Nat

VARIABLES
  source,
  world,    \* the revision of each item
  archives, \* the published archives, one for each state of the world
  running,  \* the scheduler's flag of a run in flight
  runs,     \* the runs: what is left to read, what is read and not yet published
  marker,   \* the archive the validators on disk stand for, 0 for none
  queue,
  slots,    \* what each worker is doing
  table,    \* the revision each row was written from, 0 for none
  sent, written, failures, dropped, \* history: jobs published, rows written, failures of a job, jobs thrown away
  faults

feed  == <<source, world, archives, running, runs, marker>>
fleet == <<slots, table, written, failures, dropped>>
ingestionVars == <<feed, queue, fleet, sent, faults>>

\* A job carries all its rows need: a passage, a claim, or all the votes of a scrutin.
Job(i, parts, rev)  == [item |-> i, parts |-> parts, rev |-> rev, attempt |-> 0]
CrawlJob(i, p, rev) == Job(i, {p}, rev)
ClaimJob(i, rev)    == Job(i, {Min(Parts)}, rev)
ScrutinJob(i, rev)  == Job(i, Parts, rev)
Jobs == {Job(i, parts, rev) : i \in Items, parts \in {Parts} \cup {{p} : p \in Parts}, rev \in 1 .. MaxEdits + 1}
Unreadable(job) == source = "scrutins" /\ <<job.item, job.rev>> \in Unparsable
Id(job)     == [job EXCEPT !.attempt = 0]
NoRun       == [on |-> FALSE, archive |-> 0, todo |-> {}, out |-> {}]
Free        == [pc |-> "idle", job |-> <<>>, left |-> {}]
Fault       == faults < MaxFaults /\ faults' = faults + 1
NoFault     == UNCHANGED faults

InitIngestion ==
  /\ source \in Sources
  /\ world = [i \in Items |-> 1] /\ archives = <<world>>
  /\ running = FALSE /\ runs = [n \in Slots |-> NoRun] /\ marker = 0
  /\ queue = EmptyBag /\ slots = [w \in Workers |-> Free]
  /\ table = [k \in Items \X Parts |-> 0]
  /\ sent = {} /\ written = {} /\ failures = EmptyBag /\ dropped = {} /\ faults = 0

\* A page is edited, a review corrected, a new archive put up.
Edit(i) ==
  /\ Len(archives) <= MaxEdits
  /\ world' = [world EXCEPT ![i] = @ + 1] /\ archives' = Append(archives, world')
  /\ UNCHANGED <<source, running, runs, marker, queue, fleet, sent, faults>>

-----------------------------------------------------------------------------
(* What a run publishes for an item.                                       *)

\* Passages keep their index although the gate drops some.
CrawlJobs(i)   == {CrawlJob(i, p, world[i]) : p \in Parts}
Gated(jobs)    == {job \in jobs : \A p \in job.parts : <<p, job.rev>> \notin Refused}
ClaimJobs(i)   == {ClaimJob(i, world[i])}
ScrutinJobs(a) == {ScrutinJob(i, archives[a][i]) : i \in Items}

Waits == BagCardinality(queue) + Cardinality({w \in Workers : slots[w].pc # "idle"}) <= MaxJobs

\* A tick while a run is in flight is skipped.
Tick(n) ==
  /\ Waits /\ ~runs[n].on /\ ~running
  /\ running' = TRUE
  /\ runs' = [runs EXCEPT ![n] = [NoRun EXCEPT !.on = TRUE, !.todo = Items]]
  /\ UNCHANGED <<source, world, archives, marker, queue, fleet, sent, faults>>

ReadOut(n, i, jobs) == runs' = [runs EXCEPT ![n].todo = @ \ {i}, ![n].out = jobs]
Reading(n) == runs[n].on /\ runs[n].out = {} /\ runs[n].todo # {}

ReadOnly == UNCHANGED <<source, world, archives, running, marker, queue, fleet, sent>>

\* Pages are read, chunked and judged as the run comes to them; a call of the
\* gate that fails keeps its passage.
CrawlRead(n) ==
  /\ source = "crawl" /\ Reading(n) /\ ReadOnly
  /\ \E i \in runs[n].todo :
       \/ NoFault /\ ReadOut(n, i, Gated(CrawlJobs(i)))
       \/ \E keep \in SUBSET CrawlJobs(i) : Gated(CrawlJobs(i)) \subseteq keep /\ ReadOut(n, i, keep) /\ Fault

\* A claim without a review that can be stored is passed over and never an item here.
ClaimRead(n) ==
  /\ source = "factcheck" /\ Reading(n) /\ ReadOnly /\ NoFault
  /\ \E i \in runs[n].todo : ReadOut(n, i, ClaimJobs(i))

\* The conditional download: nothing to publish if the archive is the marker's.
Download(n) ==
  /\ source = "scrutins" /\ Reading(n)
  /\ LET a == Len(archives) IN
     runs' = [runs EXCEPT ![n] = [@ EXCEPT !.todo = {}, !.archive = a, !.out = IF marker = a THEN {} ELSE ScrutinJobs(a)]]
  /\ UNCHANGED <<source, world, archives, running, marker, queue, fleet, sent, faults>>

Publish(n) ==
  /\ runs[n].on
  /\ \E job \in runs[n].out :
       /\ queue' = Published(queue, {job}) /\ sent' = sent \cup {job}
       /\ runs' = [runs EXCEPT ![n].out = @ \ {job}]
  /\ UNCHANGED <<source, world, archives, running, marker, fleet, faults>>

Over(n) == running' = FALSE /\ runs' = [runs EXCEPT ![n] = NoRun]

\* A run that published everything; only then are the validators kept, if the
\* server sent any.
Finish(n) ==
  /\ runs[n].on /\ runs[n].out = {} /\ runs[n].todo = {} /\ Over(n)
  /\ marker' \in IF source = "scrutins" THEN {runs[n].archive, marker} ELSE {marker}
  /\ UNCHANGED <<source, world, archives, queue, fleet, sent, faults>>

\* A call fails, or the process goes down; a publish whose confirmation is lost
\* may have been queued.
Abort(n) ==
  /\ runs[n].on /\ Fault /\ Over(n)
  /\ \E some \in {part \in SUBSET runs[n].out : Cardinality(part) <= 1} :
       queue' = Published(queue, some) /\ sent' = sent \cup some
  /\ UNCHANGED <<source, world, archives, marker, fleet>>

-----------------------------------------------------------------------------
(* The workers.                                                            *)

Slot(w, s) == slots' = [slots EXCEPT ![w] = s]
FleetOnly  == UNCHANGED <<feed, sent>>

Receive(w, job) ==
  /\ slots[w].pc = "idle" /\ job \in Waiting(queue)
  /\ queue' = Delivered(queue, job) /\ Slot(w, [pc |-> "work", job |-> job, left |-> job.parts])
  /\ UNCHANGED <<table, written, failures, dropped>> /\ NoFault /\ FleetOnly

\* One statement for each row, whatever the row holds.
Row(job, p)     == <<job.item, p>>
Upserted(job, p) ==
  /\ table' = [table EXCEPT ![Row(job, p)] = job.rev]
  /\ written' = written \cup {<<job.item, p, job.rev>>}

Write(w) ==
  LET s == slots[w]  p == Min(s.left) IN
  /\ s.pc = "work" /\ ~Unreadable(s.job)
  /\ Upserted(s.job, p)
  /\ Slot(w, IF s.left = {p} THEN [s EXCEPT !.pc = "ack", !.left = {}] ELSE [s EXCEPT !.left = @ \ {p}])
  /\ UNCHANGED <<queue, failures, dropped>> /\ NoFault /\ FleetOnly

\* Mutant: the budget is one delivery short.
SpentEarly(job) == job.attempt + 2 >= MaxAttempts

Spent(job) == job.attempt + 1 >= MaxAttempts

\* The embedding or a statement fails, the statement perhaps after it was done.
AfterFailure(w) ==
  LET s == slots[w] IN
  /\ s.pc = "work" /\ ~Unreadable(s.job) /\ Fault
  /\ failures' = failures (+) SetToBag({Id(s.job)})
  /\ Upserted(s.job, Min(s.left)) \/ UNCHANGED <<table, written>>
  /\ Slot(w, IF Spent(s.job) THEN Free ELSE [s EXCEPT !.pc = "retry"])
  /\ UNCHANGED <<queue, dropped>> /\ FleetOnly

\* A provider that answers with anything but one vector of the right dimension
\* costs the job its life at once.
Discard(w) ==
  /\ slots[w].pc = "work" /\ source # "scrutins" /\ Fault
  /\ dropped' = dropped \cup {Id(slots[w].job)} /\ Slot(w, Free)
  /\ UNCHANGED <<queue, table, written, failures>> /\ FleetOnly

\* A scrutin is parsed whole before a row of it is written, and one that does
\* not parse is let go at its first delivery, whatever its budget.
Refuse(w) ==
  LET s == slots[w] IN
  /\ s.pc = "work" /\ Unreadable(s.job)
  /\ dropped' = dropped \cup {Id(s.job)} /\ Slot(w, [s EXCEPT !.pc = "ack", !.left = {}])
  /\ UNCHANGED <<queue, table, written, failures>> /\ NoFault /\ FleetOnly

Retried(job) == [job EXCEPT !.attempt = @ + 1]

\* Mutant: a job whose retry cannot be queued is left where it is.
RetryStuck(w) ==
  LET s == slots[w] IN
  /\ s.pc = "retry"
  /\ \/ queue' = Published(queue, {Retried(s.job)}) /\ Slot(w, [s EXCEPT !.pc = "ack"]) /\ NoFault
     \/ UNCHANGED queue /\ Slot(w, [s EXCEPT !.pc = "stuck"]) /\ NoFault
  /\ UNCHANGED <<table, written, failures, dropped>> /\ FleetOnly

\* The retry is queued before the original is let go; what failed the write may fail it too.
Retry(w) ==
  LET s == slots[w] IN
  /\ s.pc = "retry"
  /\ \/ queue' = Published(queue, {Retried(s.job)}) /\ Slot(w, [s EXCEPT !.pc = "ack"])
     \/ \E q \in PublishedSome(queue, {Retried(s.job)}) : queue' = Requeued(q, s.job) /\ Slot(w, Free)
  /\ UNCHANGED <<table, written, failures, dropped>> /\ NoFault /\ FleetOnly

Ack(w) ==
  /\ slots[w].pc = "ack" /\ Slot(w, Free)
  /\ UNCHANGED <<queue, table, written, failures, dropped>> /\ NoFault /\ FleetOnly

\* A shutdown, a crash or a lost acknowledgement: the delivery comes back as it was.
Interrupt(w) ==
  /\ slots[w].pc # "idle" /\ Fault
  /\ queue' = Requeued(queue, slots[w].job) /\ Slot(w, Free)
  /\ UNCHANGED <<table, written, failures, dropped>> /\ FleetOnly

-----------------------------------------------------------------------------

Produce(n) == Tick(n) \/ CrawlRead(n) \/ ClaimRead(n) \/ Download(n) \/ Publish(n) \/ Finish(n)
Process(w) == Write(w) \/ Refuse(w) \/ Retry(w) \/ Ack(w)

NextIngestion ==
  \/ \E i \in Items : Edit(i)
  \/ \E n \in Slots : Produce(n) \/ Abort(n)
  \/ \E w \in Workers, job \in Waiting(queue) : Receive(w, job)
  \/ \E w \in Workers : Process(w) \/ AfterFailure(w) \/ Discard(w) \/ Interrupt(w)

FailuresOf(job) == IF BagIn(job, failures) THEN failures[job] ELSE 0
Settled(job) ==
  \/ \A p \in job.parts : <<job.item, p, job.rev>> \in written
  \/ FailuresOf(job) >= MaxAttempts
  \/ job \in dropped /\ (source = "scrutins" => Unreadable(job))
Pending(job) == job.rev < world[job.item] \/ ~Settled(Id(job))

\* The clock ticks for ever, what has been taken up goes on, and the broker
\* does not pass over a waiting job for ever, in particular one that is old or unsettled.
IngestionFairness ==
  /\ WF_ingestionVars(\E n \in Slots : Produce(n))
  /\ \A w \in Workers : WF_ingestionVars(Process(w))
  /\ WF_ingestionVars(\E w \in Workers, job \in Waiting(queue) : Receive(w, job))
  /\ SF_ingestionVars(\E w \in Workers, job \in Waiting(queue) : Pending(job) /\ Receive(w, job))

-----------------------------------------------------------------------------
(* Properties.                                                             *)

Holds(job) == \E w \in Workers : slots[w].pc \in {"work", "retry"} /\ Id(slots[w].job) = job
Queued(job) == \E q \in Waiting(queue) : Id(q) = job

\* Every variable keeps its type; no job is delivered beyond its budget.
IngestionTypeOK ==
  /\ source \in Sources /\ world \in [Items -> 1 .. MaxEdits + 1] /\ marker \in 0 .. Len(archives)
  /\ running \in BOOLEAN /\ table \in [Items \X Parts -> 0 .. MaxEdits + 1] /\ sent \subseteq Jobs
  /\ \A n \in Slots : runs[n].todo \subseteq Items /\ runs[n].out \subseteq Jobs
  /\ \A job \in Waiting(queue) : Id(job) \in Jobs /\ job.attempt \in 0 .. MaxAttempts - 1
  /\ \A w \in Workers : slots[w].pc \in {"idle", "work", "retry", "ack"}

\* The in-flight guard is per source: at most one run of the scheduler.
RunsNeverStack == \A n, m \in Slots : runs[n].on /\ runs[m].on => n = m

(***************************************************************************)
(* A published job is never lost: it is written, waiting, being worked on, *)
(* it has failed as often as its budget allows, or it was let go at once:  *)
(* a passage or a claim because the provider's answer was of no use, a     *)
(* scrutin because it does not parse, and for no other reason.  Shutdowns, *)
(* crashes and lost confirmations do not count.                            *)
(***************************************************************************)
PublishedIsKept == \A job \in sent : Settled(job) \/ Queued(job) \/ Holds(job)

\* The archive of the marker has been published whole: a run that skips it leaves
\* out no job, although what workers did with those jobs is not looked at again.
MarkerHonest == marker > 0 => \A job \in ScrutinJobs(marker) : job \in sent

\* What the gate refuses at its current revision keeps whatever it had.
Expected(i, p) == source = "crawl" => <<p, world[i]>> \notin Refused
InForce(i) == \A p \in IF source = "factcheck" THEN {Min(Parts)} ELSE Parts : Expected(i, p) => table[<<i, p>>] = world[i]

(***************************************************************************)
(* Every published job is settled in the end.  A late delivery may put an  *)
(* old revision over a newer one; crawl and fact checks are published      *)
(* again by every run, so in the end their rows are those of the source.   *)
(***************************************************************************)
PublishedSettles ==
  <>[]( /\ \A job \in sent : Settled(job)
        /\ source \in {"crawl", "factcheck"} => \A i \in Items : InForce(i))

\* The same of the scrutins, whose runs skip an archive that was published
\* ("an unchanged archive returns 304 and the run does no redundant work").
ScrutinsRepaired == source = "scrutins" => <>[](\A i \in Items : InForce(i))

\* Runs of a source never overlap, what they publish is never lost, and the
\* marker of an archive is set only when all of it was published.
IngestionSound == IngestionTypeOK /\ RunsNeverStack /\ PublishedIsKept /\ MarkerHonest
=============================================================================
