----------------------------- MODULE Documents ------------------------------
(***************************************************************************)
(* One PDF document and a page that shows it.                              *)
(*                                                                         *)
(* The document: its upload, its extraction and its analysis.  The record  *)
(* lives in the database, the PDF in storage under a key made from the id, *)
(* and an analysis is a goroutine of the server that started it.  A server *)
(* may be stopped at any step, and one that boots fails every analysis it  *)
(* finds under way: those of a dead server, and, where it boots beside     *)
(* another one as in a rolling deploy, those that still run.               *)
(*                                                                         *)
(* The page loads the document and its claims once, asks again as long as  *)
(* what it got says analysing, and stops on anything else.  An answer is   *)
(* put together from a read of the record and a later read of the claims.  *)
(***************************************************************************)
EXTENDS Integers, FiniteSets

CONSTANTS Servers, Requests,     \* servers; extraction requests, each with a text of its own
          Sentences,             \* the document's sentences are 1 .. Sentences
          MaxRuns,               \* bound: analyses started
          MaxPuts,               \* bound: uploads the browser sends
          MaxStops, MaxFaults    \* bounds: servers stopped, calls that fail

ASSUME DocumentsAssumption ==
  /\ Sentences \in Nat \ {0} /\ MaxRuns \in Nat /\ MaxPuts \in Nat
  /\ MaxStops \in Nat /\ MaxFaults \in Nat

VARIABLES doc,       \* the record, NoDoc before and after it exists
          results,   \* per sentence, the analysis whose claims it holds, or 0
          object,    \* the PDF is in storage
          puts,      \* uploads sent: some may arrive late
          up,        \* the servers running
          request,   \* the extraction requests
          runs,      \* the analyses
          deletion,  \* the delete request
          lost,      \* since the last boot, an analysis lost what ends it: its
                     \* lock's answer, its last write, or its server with another one up
          raced,     \* a server booted beside a run, and no lock has been taken
                     \* since with no run at work
          stops, faults

vars == <<doc, results, object, puts, up, request, runs, deletion, lost, raced, stops, faults>>

NoDoc == [status |-> "none", analysis |-> "none", processed |-> 0, ext |-> "none", run |-> 0]
Created == [NoDoc EXCEPT !.status = "pending"]
Exists == doc.status # "none"
RunIds == 1 .. MaxRuns
NoRun == [pc |-> "unused", server |-> "none", at |-> 0, total |-> 0]
Working(r) == runs[r].pc \in {"load", "run", "fail"}
Ended == [NoRun EXCEPT !.pc = "done"]
Answered == [pc |-> "done", server |-> "none"]
Clear == [i \in 1 .. Sentences |-> 0]

Fault   == faults < MaxFaults /\ faults' = faults + 1
NoFault == UNCHANGED faults

Init ==
  /\ doc = NoDoc /\ results = Clear /\ object = FALSE /\ puts = 0
  /\ up \in {{s} : s \in Servers}
  /\ request = [q \in Requests |-> [pc |-> "new", server |-> "none"]]
  /\ runs = [r \in RunIds |-> NoRun]
  /\ deletion = [pc |-> "none", pending |-> FALSE]
  /\ lost = FALSE /\ raced = FALSE /\ stops = 0 /\ faults = 0

-----------------------------------------------------------------------------
(* Upload and extraction.                                                  *)

\* The presign precedes the insert, and the id is new: it happens once.
RequestUpload ==
  /\ ~Exists /\ deletion.pc = "none" /\ up # {}
  /\ doc' = Created
  /\ UNCHANGED <<results, object, puts, up, request, runs, deletion, lost, raced, stops, faults>>

\* A write-once PUT arrives: 412 when the key has an object, stored when it has none.
Put ==
  /\ Exists \/ deletion.pc # "none"
  /\ puts < MaxPuts /\ puts' = puts + 1
  /\ object' = TRUE
  /\ UNCHANGED <<doc, results, up, request, runs, deletion, lost, raced, stops, faults>>

\* A repeat of a stored extraction, or one without an object, changes nothing.
IngestRead(q, s) ==
  /\ request[q].pc = "new" /\ s \in up
  /\ doc.status = "pending" /\ object
  /\ request' = [request EXCEPT ![q] = [pc |-> "store", server |-> s]]
  /\ UNCHANGED <<doc, results, object, puts, up, runs, deletion, lost, raced, stops, faults>>

IngestStore(q) ==
  /\ request[q].pc = "store"
  /\ IF doc.status = "pending"
     THEN /\ doc' = [doc EXCEPT !.status = "ready", !.ext = q]
          /\ request' = [request EXCEPT ![q].pc = "start"]
     ELSE UNCHANGED doc /\ request' = [request EXCEPT ![q] = Answered]
  /\ UNCHANGED <<results, object, puts, up, runs, deletion, lost, raced, stops, faults>>

-----------------------------------------------------------------------------
(* Analysis.                                                               *)

\* Mutant: an analysis in progress does not exclude another.
LockAny == doc.status = "ready"

\* LockDocumentForAnalysis: the update's guard is the lock.
Lockable == doc.status = "ready" /\ doc.analysis # "analysing"

\* The lock, with what it does to the counter and to the results.
Lock(r, processed, kept) ==
  /\ \A q \in RunIds : q < r <=> q <= doc.run
  /\ Lockable
  /\ doc' = [doc EXCEPT !.analysis = "analysing", !.processed = processed, !.run = r]
  /\ results' = kept
  /\ raced' = (raced /\ \E q \in RunIds : Working(q))

\* The run is spawned and dies with its server; with the answer lost it is not.
Spawn(r, s) ==
  \/ /\ runs' = [runs EXCEPT ![r] = [pc |-> "load", server |-> s, at |-> 1, total |-> 0]]
     /\ UNCHANGED lost /\ NoFault
  \/ UNCHANGED runs /\ lost' = TRUE /\ Fault

\* Mutant: a new analysis wipes the claims of the last one.
StartWipes(s) == \E r \in RunIds : Lock(r, 0, Clear) /\ Spawn(r, s)

Start(s) == \E r \in RunIds : Lock(r, 0, results) /\ Spawn(r, s)

\* The request that stored the extraction starts the first analysis, if it can.
AutoStart(q) ==
  /\ request[q].pc = "start"
  /\ \/ Start(request[q].server)
     \/ ~Lockable /\ UNCHANGED <<doc, results, runs, lost, raced>> /\ NoFault
     \/ Lockable /\ UNCHANGED <<doc, results, runs, lost, raced>> /\ Fault
  /\ request' = [request EXCEPT ![q] = Answered]
  /\ UNCHANGED <<object, puts, up, deletion, stops>>

Reanalyse(s) ==
  /\ s \in up /\ Start(s)
  /\ UNCHANGED <<object, puts, up, request, deletion, stops>>

Run(r, rec) == runs' = [runs EXCEPT ![r] = rec]
RunOnly == UNCHANGED <<object, puts, up, request, deletion, lost, raced, stops>>

\* A deleted document has no sentences.
LoadSentences(r) ==
  /\ runs[r].pc = "load"
  /\ Run(r, [runs[r] EXCEPT !.pc = "run", !.total = IF doc.status = "ready" THEN Sentences ELSE 0])
  /\ UNCHANGED <<doc, results>> /\ NoFault /\ RunOnly

\* One transaction replaces the sentence's claims and counts it.  Claims of a
\* document that is gone violate their foreign key; a claimless result does not.
Record(r) ==
  LET i == runs[r].at IN
  /\ runs[r].pc = "run" /\ i <= runs[r].total
  /\ IF Exists
     THEN /\ results' = [results EXCEPT ![i] = r]
          /\ doc' = [doc EXCEPT !.processed = @ + 1]
          /\ Run(r, [runs[r] EXCEPT !.at = i + 1])
     ELSE /\ UNCHANGED <<doc, results>>
          /\ \/ Run(r, [runs[r] EXCEPT !.at = i + 1])
             \/ Run(r, [runs[r] EXCEPT !.pc = "fail"])
  /\ NoFault /\ RunOnly

\* The run's time is up, or a write fails: it is to be recorded as failed.
RunFails(r) ==
  /\ runs[r].pc \in {"load", "run"}
  /\ Run(r, [runs[r] EXCEPT !.pc = "fail"])
  /\ UNCHANGED <<doc, results>> /\ Fault /\ RunOnly

\* The terminal updates are by id: neither asks which run holds the document.
Settle(r, status) ==
  /\ doc' = IF Exists THEN [doc EXCEPT !.analysis = status] ELSE doc
  /\ Run(r, Ended)
  /\ UNCHANGED results /\ NoFault /\ RunOnly

Complete(r) == runs[r].pc = "run" /\ runs[r].at > runs[r].total /\ Settle(r, "complete")

FailRun(r) == runs[r].pc = "fail" /\ Settle(r, "failed")

\* The failure cannot be recorded either: it is logged.
FailLost(r) ==
  /\ runs[r].pc = "fail"
  /\ Run(r, Ended)
  /\ lost' = TRUE /\ Fault
  /\ UNCHANGED <<doc, results, object, puts, up, request, deletion, raced, stops>>

-----------------------------------------------------------------------------
(* Deletion: the object, then the row, then a pending document's object.   *)

DeleteRead ==
  /\ deletion.pc \in {"none", "failed"} /\ Exists /\ up # {}
  /\ deletion' = [pc |-> "object", pending |-> doc.status = "pending"]
  /\ UNCHANGED <<doc, results, object, puts, up, request, runs, lost, raced, stops, faults>>

DeleteObject ==
  /\ deletion.pc = "object"
  /\ object' = FALSE /\ deletion' = [deletion EXCEPT !.pc = "row"]
  /\ UNCHANGED <<doc, results, puts, up, request, runs, lost, raced, stops, faults>>

DeleteRow ==
  /\ deletion.pc = "row"
  /\ doc' = NoDoc /\ results' = Clear
  /\ deletion' = [deletion EXCEPT !.pc = IF deletion.pending THEN "sweep" ELSE "done"]
  /\ UNCHANGED <<object, puts, up, request, runs, lost, raced, stops, faults>>

Sweep ==
  /\ deletion.pc = "sweep"
  /\ object' = FALSE /\ deletion' = [deletion EXCEPT !.pc = "done"]
  /\ UNCHANGED <<doc, results, puts, up, request, runs, lost, raced, stops, faults>>

\* A failed call ends the request; before the row is gone it can be sent again.
DeleteFails ==
  /\ deletion.pc \in {"object", "row", "sweep"} /\ Fault
  /\ deletion' = [deletion EXCEPT !.pc = IF @ = "sweep" THEN "done" ELSE "failed"]
  /\ UNCHANGED <<doc, results, object, puts, up, request, runs, lost, raced, stops>>

-----------------------------------------------------------------------------
(* Servers.                                                                *)

Stop(s) ==
  /\ s \in up /\ stops < MaxStops /\ stops' = stops + 1
  /\ up' = up \ {s}
  /\ runs' = [r \in RunIds |-> IF runs[r].server = s THEN Ended ELSE runs[r]]
  /\ request' = [q \in Requests |->
       IF request[q].server = s THEN Answered ELSE request[q]]
  /\ deletion' = [deletion EXCEPT !.pc =
       IF up' = {} /\ @ \in {"object", "row"} THEN "failed"
       ELSE IF up' = {} /\ @ = "sweep" THEN "done" ELSE @]
  /\ lost' = (lost \/ (up' # {} /\ \E r \in RunIds : Working(r) /\ runs[r].server = s))
  /\ UNCHANGED <<doc, results, object, puts, raced, faults>>

\* A server recovers before it listens: every analysing document is failed,
\* whichever server its run is on.
Boot(s) ==
  /\ s \notin up /\ up' = up \cup {s}
  /\ doc' = [doc EXCEPT !.analysis = IF @ = "analysing" THEN "failed" ELSE @]
  /\ raced' = (raced \/ \E r \in RunIds : Working(r))
  /\ lost' = FALSE
  /\ UNCHANGED <<results, object, puts, request, runs, deletion, stops, faults>>

RunStep(r) == LoadSentences(r) \/ Record(r) \/ RunFails(r) \/ Complete(r) \/ FailRun(r) \/ FailLost(r)
RequestStep(q) == IngestStore(q) \/ AutoStart(q)
DeleteStep == DeleteObject \/ DeleteRow \/ Sweep \/ DeleteFails

Next ==
  \/ RequestUpload \/ Put \/ DeleteRead \/ DeleteStep
  \/ \E q \in Requests : RequestStep(q) \/ \E s \in Servers : IngestRead(q, s)
  \/ \E r \in RunIds : RunStep(r)
  \/ \E s \in Servers : Reanalyse(s) \/ Stop(s) \/ Boot(s)

Spec == Init /\ [][Next]_vars

\* Goroutines run, and a service without a server gets one.
Fairness ==
  /\ \A r \in RunIds : WF_vars(RunStep(r))
  /\ \A q \in Requests : WF_vars(RequestStep(q))
  /\ WF_vars(DeleteStep) /\ WF_vars(up = {} /\ \E s \in Servers : Boot(s))

FairSpec == Spec /\ Fairness

-----------------------------------------------------------------------------
(* Properties.                                                             *)

\* Every variable keeps its type.
TypeOK ==
  /\ doc \in [status : {"none", "pending", "ready"}, run : 0 .. MaxRuns,
              analysis : {"none", "analysing", "complete", "failed"},
              processed : Nat, ext : Requests \cup {"none"}]
  /\ results \in [1 .. Sentences -> 0 .. MaxRuns]
  /\ object \in BOOLEAN /\ puts \in 0 .. MaxPuts /\ up \subseteq Servers
  /\ request \in [Requests -> [pc : {"new", "store", "start", "done"}, server : Servers \cup {"none"}]]
  /\ runs \in [RunIds -> [pc : {"unused", "load", "run", "fail", "done"},
                          server : Servers \cup {"none"}, at : 0 .. Sentences + 1, total : {0, Sentences}]]
  /\ deletion \in [pc : {"none", "object", "row", "sweep", "failed", "done"}, pending : BOOLEAN]
  /\ lost \in BOOLEAN /\ raced \in BOOLEAN /\ stops \in 0 .. MaxStops /\ faults \in 0 .. MaxFaults

(***************************************************************************)
(* "'analysing' doubles as the job lock" (0012_documents.up.sql): a run at *)
(* work on an existing document is the one that locked it, so two never    *)
(* mix their results.                                                      *)
(***************************************************************************)
AnalysingIsLock ==
  \A r \in RunIds : Working(r) /\ Exists => doc.analysis = "analysing" /\ doc.run = r

(***************************************************************************)
(* That holds as long as no server boots beside a run, and again from the  *)
(* next lock that is taken with no run at work.                            *)
(***************************************************************************)
RunHoldsLock == ~raced => AnalysingIsLock

(***************************************************************************)
(* A document shown as completely analysed has a result of every sentence, *)
(* and where the lock held, of its last analysis, each counted once.       *)
(***************************************************************************)
CompleteIsWhole ==
  doc.analysis = "complete" =>
    /\ \A i \in 1 .. Sentences : results[i] # 0
    /\ ~raced => doc.processed = Sentences /\ \A i \in 1 .. Sentences : results[i] = doc.run

(***************************************************************************)
(* A reanalysis that fails or dies midway keeps the claims of the last one *)
(* for the sentences it did not reach.                                     *)
(***************************************************************************)
ResultsKept ==
  [][Exists' => \A i \in 1 .. Sentences : results[i] # 0 => results'[i] # 0]_vars

\* The stored extraction never changes, whichever requests race.
ExtractedOnce ==
  [][doc.status = "ready" /\ Exists' => doc'.ext = doc.ext /\ doc'.status = "ready"]_vars

\* A document shown as ready has its PDF, unless a deletion has been asked for.
ReadyHasObject == doc.status = "ready" => object \/ deletion.pc # "none"

(***************************************************************************)
(* Every analysis comes to an end, a server's death included, unless the   *)
(* write that records it is lost, or its server dies while another one is  *)
(* up; then it waits for the next boot.                                    *)
(***************************************************************************)
AnalysisEnds == (doc.analysis = "analysing") ~> (doc.analysis # "analysing" \/ lost)

\* "so the document does not linger analysing" (document_analyzer.go).
NeverLingers == (doc.analysis = "analysing") ~> (doc.analysis # "analysing")

(***************************************************************************)
(* A deleted ready document leaves nothing behind: its upload's URL is     *)
(* dead.  (document.go says so; a deletion makes the URL work again.)      *)
(***************************************************************************)
ReadyUrlDead == deletion.pc = "done" /\ ~deletion.pending => ~object

-----------------------------------------------------------------------------
(* The page. *)
VARIABLE viewer   \* pc; the answer under way; the status and whether all claims are shown

Page == [pc |-> "closed", got |-> "none", run |-> 0, shows |-> "none", whole |-> TRUE]
ViewerInit == Init /\ viewer = Page
DocumentKept == UNCHANGED vars

Open ==
  /\ viewer.pc = "closed" /\ Exists
  /\ viewer' = [viewer EXCEPT !.pc = "load"] /\ DocumentKept

\* The claims handler reads the record first.
ReadDocument ==
  /\ viewer.pc \in {"load", "armed"} /\ up # {} /\ Exists
  /\ viewer' = [viewer EXCEPT !.pc = IF @ = "load" THEN "loading" ELSE "ticking",
                              !.got = doc.analysis, !.run = IF raced THEN 0 ELSE doc.run]
  /\ DocumentKept

\* A document that is gone is an error, in the first load and in every poll.
ReadGone ==
  /\ viewer.pc \in {"load", "armed"} /\ up # {} /\ ~Exists
  /\ viewer' = [Page EXCEPT !.pc = "error"] /\ DocumentKept

\* Of an answer that says complete: every sentence has its claims, and where the
\* lock held they are of the run it speaks of, or a later one.
WholeSince(run) ==
  viewer.got = "complete" /\ Exists => \A i \in 1 .. Sentences : results[i] # 0 /\ results[i] >= run

\* The claims are read and the answer shown; the timer is armed while it says analysing.
Show ==
  /\ viewer.pc \in {"loading", "ticking"} /\ up # {}
  /\ viewer' = [viewer EXCEPT !.pc = IF viewer.got = "analysing" THEN "armed" ELSE "rest", !.got = "none", !.run = 0,
                              !.shows = viewer.got, !.whole = WholeSince(viewer.run)]
  /\ DocumentKept

Breaks == (up = {} /\ NoFault) \/ Fault

LoadFails ==
  /\ viewer.pc \in {"load", "loading"} /\ Breaks
  /\ viewer' = [Page EXCEPT !.pc = "error"]
  /\ UNCHANGED <<doc, results, object, puts, up, request, runs, deletion, lost, raced, stops>>

\* Mutant: a poll that fails is the last one.
TickAbandons ==
  /\ viewer.pc = "ticking" /\ Breaks
  /\ viewer' = [viewer EXCEPT !.pc = "rest"]
  /\ UNCHANGED <<doc, results, object, puts, up, request, runs, deletion, lost, raced, stops>>

\* A poll that fails is tried again, less and less often.
TickFails ==
  /\ viewer.pc = "ticking" /\ Breaks
  /\ viewer' = [viewer EXCEPT !.pc = "armed"]
  /\ UNCHANGED <<doc, results, object, puts, up, request, runs, deletion, lost, raced, stops>>

\* The control is disabled while the page shows an analysis; a start that is
\* answered loads the page again.
ReanalyseHere ==
  /\ viewer.pc = "rest"
  /\ \E s \in Servers : Reanalyse(s)
  /\ viewer' = [viewer EXCEPT !.pc = IF lost' /\ runs' = runs THEN "rest" ELSE "load"]

Retry ==
  /\ viewer.pc = "error" /\ Exists
  /\ viewer' = [viewer EXCEPT !.pc = "load"] /\ DocumentKept

ViewerStep == ReadDocument \/ ReadGone \/ Show \/ LoadFails \/ TickFails

ViewerNext ==
  \/ Next /\ UNCHANGED viewer
  \/ Open \/ ViewerStep \/ ReanalyseHere \/ Retry

\* The page's promises and timers run; the rest is Documents' fairness.
ViewerSpec ==
  /\ ViewerInit /\ [][ViewerNext]_<<vars, viewer>>
  /\ Fairness /\ WF_<<vars, viewer>>(ViewerStep)

-----------------------------------------------------------------------------
\* The page is in one of its states.
ViewerOK ==
  /\ viewer \in [pc : {"closed", "load", "loading", "armed", "ticking", "rest", "error"},
                 got : {"none", "analysing", "complete", "failed"}, run : 0 .. MaxRuns,
                 shows : {"none", "analysing", "complete", "failed"}, whole : BOOLEAN]

(***************************************************************************)
(* A page that says an analysis is complete shows all its claims, although *)
(* record and claims are read apart and a reanalysis may begin between.    *)
(***************************************************************************)
ShownCompleteIsWhole == viewer.shows = "complete" => viewer.whole

(***************************************************************************)
(* A page that shows an analysis in progress comes to show how it ended,   *)
(* or an error, through failed polls and a restart of the server.          *)
(***************************************************************************)
PageCatchesUp ==
  (viewer.shows = "analysing") ~> (viewer.shows # "analysing" \/ viewer.pc = "error" \/ lost)

(***************************************************************************)
(* Documents and the page that shows one: a run at work holds the lock     *)
(* unless a server booted beside it, complete means every sentence, ready  *)
(* means an object, and a page never says complete of claims it has not.   *)
(***************************************************************************)
DocumentsSound ==
  /\ TypeOK /\ RunHoldsLock /\ CompleteIsWhole /\ ReadyHasObject
  /\ ViewerOK /\ ShownCompleteIsWhole
=============================================================================
