------------------------------ MODULE DeskProofs ------------------------------
(***************************************************************************)
(* What a user hands in, for any number of servers, requests, sentences,   *)
(* runs and records.  Of a document and its page (Documents), however its  *)
(* servers boot and stop: a run writes nothing but results of its own on a *)
(* ready document (WorkOK), so results are replaced and never erased       *)
(* (Grows) and a page may read the record and the claims apart; and as     *)
(* long as no server boots beside a run (~raced), the analysing status is  *)
(* the lock its run holds (RunHoldsLock, Progress).                        *)
(***************************************************************************)
EXTENDS MCDesk, SequenceTheorems, TLAPS

\* Work under way belongs to a server that is up.
AtHome ==
  /\ \A r \in RunIds : Working(r) => runs[r].server \in up
  /\ \A q \in Requests : request[q].pc \in {"store", "start"} => request[q].server \in up

\* Before the document there is nothing, and no document follows a deletion.
Untouched == ~Exists /\ deletion.pc = "none" => \A r \in RunIds : ~Working(r)
Deleted ==
  /\ deletion.pc \in {"sweep", "done"} => ~Exists
  /\ deletion.pc \in {"object", "row", "failed"} => Exists

\* Only a ready document is analysed, and what it holds is of its analyses so far.
RecordOK ==
  /\ doc.status # "ready" => doc.analysis = "none"
  /\ doc.analysis # "none" => doc.run >= 1
  /\ ~Exists => doc.run = 0 /\ doc.processed = 0
  /\ \A i \in 1 .. Sentences : results[i] <= doc.run

\* A run at work is of a ready document, and the sentences before the one it is
\* at have a result.
WorkOK ==
  \A r \in RunIds : Working(r) =>
    /\ Exists => doc.status = "ready" /\ r <= doc.run
    /\ runs[r].pc \in {"load", "run"} => runs[r].at >= 1
    /\ runs[r].pc \in {"load", "run"} /\ Exists =>
         /\ \A i \in 1 .. Sentences : i < runs[r].at => results[i] # 0
         /\ runs[r].pc = "run" => runs[r].total = Sentences

\* Where the lock holds, those results are the run's own, each counted once.
Progress ==
  ~raced => \A r \in RunIds : runs[r].pc \in {"load", "run"} /\ Exists =>
    /\ doc.processed = runs[r].at - 1
    /\ \A i \in 1 .. Sentences : i < runs[r].at => results[i] = r

\* An extraction is stored only of a PDF that was there.
ObjectSeen ==
  \A q \in Requests : request[q].pc = "store" => object \/ deletion.pc # "none"

\* The types, one variable at a time.
DocRecord == [status : {"none", "pending", "ready"}, run : 0 .. MaxRuns,
              analysis : {"none", "analysing", "complete", "failed"},
              processed : Nat, ext : Requests \cup {"none"}]
Asked == [pc : {"new", "store", "start", "done"}, server : Servers \cup {"none"}]
Analysis == [pc : {"unused", "load", "run", "fail", "done"},
             server : Servers \cup {"none"}, at : 0 .. Sentences + 1, total : {0, Sentences}]
DocOK == doc \in DocRecord
ResultsOK == results \in [1 .. Sentences -> 0 .. MaxRuns]
RequestsOK == request \in [Requests -> Asked]
RunsOK == runs \in [RunIds -> Analysis]
DeletionOK == deletion \in [pc : {"none", "object", "row", "sweep", "failed", "done"}, pending : BOOLEAN]
FlagsOK == object \in BOOLEAN /\ lost \in BOOLEAN /\ raced \in BOOLEAN
CountsOK == puts \in 0 .. MaxPuts /\ stops \in 0 .. MaxStops /\ faults \in 0 .. MaxFaults /\ up \subseteq Servers

DocInv ==
  /\ DocOK /\ ResultsOK /\ RequestsOK /\ RunsOK /\ DeletionOK /\ FlagsOK /\ CountsOK
  /\ AtHome /\ Untouched /\ Deleted /\ RecordOK /\ WorkOK /\ RunHoldsLock /\ Progress
  /\ ObjectSeen /\ CompleteIsWhole /\ ReadyHasObject

\* As long as the document exists, runs are counted up and a result is replaced
\* only by one of a run at work.
Grows ==
  Exists' => /\ doc.run <= doc'.run
             /\ \A i \in 1 .. Sentences :
                  results'[i] = results[i] \/ \E r \in RunIds : Working(r) /\ results'[i] = r
             /\ \A r \in RunIds : Working(r)' => Working(r) \/ doc.run < r

-----------------------------------------------------------------------------
LEMMA TypeParts ==
  DocOK /\ ResultsOK /\ RequestsOK /\ RunsOK /\ DeletionOK /\ FlagsOK /\ CountsOK <=> TypeOK
BY Zenon DEF TypeOK, DocOK, ResultsOK, RequestsOK, RunsOK, DeletionOK, FlagsOK, CountsOK, DocRecord, Asked, Analysis

LEMMA DocInit == Init => DocInv
<1> SUFFICES ASSUME Init PROVE DocInv
  OBVIOUS
<1> USE DocumentsAssumption DEF Init
<1>1. DocOK
  BY DEF DocOK, DocRecord, NoDoc
<1>2. ResultsOK /\ RequestsOK /\ RunsOK
  BY DEF ResultsOK, RequestsOK, RunsOK, Asked, Analysis, NoRun, RunIds, Clear
<1>3. DeletionOK /\ CountsOK
  BY DEF DeletionOK, CountsOK
<1>4. FlagsOK
  BY DEF FlagsOK
<1>5. AtHome /\ Untouched /\ Deleted /\ WorkOK
  BY DEF AtHome, Untouched, Deleted, WorkOK, Working, NoRun, NoDoc, Exists
<1>6. RecordOK /\ RunHoldsLock /\ Progress /\ ObjectSeen /\ CompleteIsWhole /\ ReadyHasObject
  BY DEF RecordOK, RunHoldsLock, AnalysingIsLock, Progress, ObjectSeen, CompleteIsWhole, ReadyHasObject, Working, NoRun, NoDoc, Exists, Clear
<1> QED BY <1>1, <1>2, <1>3, <1>4, <1>5, <1>6 DEF DocInv

\* What a step leaves alone keeps its part of the invariant.
LEMMA Kept ==
  ASSUME DocInv
  PROVE  /\ UNCHANGED doc => DocOK'
         /\ UNCHANGED results => ResultsOK'
         /\ UNCHANGED request => RequestsOK'
         /\ UNCHANGED runs => RunsOK'
         /\ UNCHANGED deletion => DeletionOK'
         /\ UNCHANGED <<object, lost, raced>> => FlagsOK'
         /\ UNCHANGED <<puts, stops, faults, up>> => CountsOK'
         /\ UNCHANGED <<up, runs, request>> => AtHome'
         /\ UNCHANGED <<doc, deletion, runs>> => Untouched'
         /\ UNCHANGED <<doc, deletion>> => Deleted'
         /\ UNCHANGED <<doc, results>> => RecordOK'
         /\ UNCHANGED <<doc, results, raced>> => CompleteIsWhole'
         /\ UNCHANGED <<doc, results, runs>> => WorkOK' /\ Grows
         /\ UNCHANGED <<doc, runs, raced>> => RunHoldsLock'
         /\ UNCHANGED <<doc, results, runs, raced>> => Progress'
         /\ UNCHANGED <<request, object, deletion>> => ObjectSeen'
         /\ UNCHANGED <<doc, object, deletion>> => ReadyHasObject'
<1> USE DEF DocInv
<1>1. UNCHANGED doc => DocOK'
  BY DEF DocOK
<1>2. UNCHANGED results => ResultsOK'
  BY DEF ResultsOK
<1>3. UNCHANGED request => RequestsOK'
  BY DEF RequestsOK
<1>4. UNCHANGED runs => RunsOK'
  BY DEF RunsOK
<1>5. UNCHANGED deletion => DeletionOK'
  BY DEF DeletionOK
<1>6. UNCHANGED <<object, lost, raced>> => FlagsOK'
  BY DEF FlagsOK
<1>7. UNCHANGED <<puts, stops, faults, up>> => CountsOK'
  BY DEF CountsOK
<1>8. UNCHANGED <<up, runs, request>> => AtHome'
  BY DEF AtHome, Working
<1>9. UNCHANGED <<doc, deletion, runs>> => Untouched'
  BY DEF Untouched, Working, Exists
<1>10. UNCHANGED <<doc, deletion>> => Deleted'
  BY DEF Deleted, Exists
<1>11. UNCHANGED <<doc, results>> => RecordOK'
  BY DEF RecordOK, Exists
<1>12. UNCHANGED <<doc, results, raced>> => CompleteIsWhole'
  BY DEF CompleteIsWhole
<1>13. UNCHANGED <<doc, results, runs>> => WorkOK'
  BY DEF WorkOK, Working, Exists
<1>14. UNCHANGED <<doc, results, runs>> => Grows
  BY DEF Grows, Working, DocOK, DocRecord
<1>15. UNCHANGED <<doc, runs, raced>> => RunHoldsLock'
  BY DEF RunHoldsLock, AnalysingIsLock, Working, Exists
<1>16. UNCHANGED <<doc, results, runs, raced>> => Progress'
  BY DEF Progress, Exists
<1>17. UNCHANGED <<request, object, deletion>> => ObjectSeen'
  BY DEF ObjectSeen
<1>18. UNCHANGED <<doc, object, deletion>> => ReadyHasObject'
  BY DEF ReadyHasObject
<1> QED BY <1>1, <1>2, <1>3, <1>4, <1>5, <1>6, <1>7, <1>8, <1>9, <1>10, <1>11, <1>12, <1>13, <1>14, <1>15, <1>16, <1>17, <1>18

LEMMA UploadKeeps == DocInv /\ RequestUpload => DocInv' /\ Grows
<1> SUFFICES ASSUME DocInv, RequestUpload PROVE DocInv' /\ Grows
  OBVIOUS
<1> USE DEF DocInv
<1>1. doc' = [status |-> "pending", analysis |-> "none", processed |-> 0, ext |-> "none", run |-> 0]
  BY DEF RequestUpload, Created, NoDoc
<1>2. DocOK'
  BY <1>1, DocumentsAssumption DEF DocOK, DocRecord
<1>3. UNCHANGED <<results, object, puts, up, request, runs, deletion, lost, raced, stops, faults>> /\ ~Exists /\ deletion.pc = "none"
  BY DEF RequestUpload
<1>4. \A r \in RunIds : ~Working(r) /\ ~Working(r)'
  BY <1>3 DEF Untouched, Working
<1>5. Untouched' /\ Deleted' /\ WorkOK' /\ RunHoldsLock' /\ Progress'
  BY <1>1, <1>3, <1>4 DEF Untouched, Deleted, WorkOK, RunHoldsLock, AnalysingIsLock, Progress, Working, Exists
<1>6. RecordOK' /\ Grows
  BY <1>1, <1>3, <1>4 DEF RecordOK, Exists, Grows, ResultsOK, DocOK, DocRecord
<1>7. CompleteIsWhole' /\ ReadyHasObject'
  BY <1>1 DEF CompleteIsWhole, ReadyHasObject
<1> QED BY <1>2, <1>3, <1>5, <1>6, <1>7, Kept

LEMMA PutKeeps == DocInv /\ Put => DocInv' /\ Grows
<1> SUFFICES ASSUME DocInv, Put PROVE DocInv' /\ Grows
  OBVIOUS
<1> USE DEF DocInv
<1>1. UNCHANGED <<doc, results, up, request, runs, deletion, lost, raced, stops, faults>> /\ object' = TRUE
  BY DEF Put
<1>2. FlagsOK' /\ ObjectSeen' /\ ReadyHasObject'
  BY <1>1 DEF FlagsOK, ObjectSeen, ReadyHasObject
<1>3. CountsOK'
  BY DocumentsAssumption DEF Put, CountsOK
<1> QED BY <1>1, <1>2, <1>3, Kept

LEMMA IngestReadKeeps ==
  ASSUME DocInv, NEW q \in Requests, NEW s \in Servers, IngestRead(q, s)
  PROVE  DocInv' /\ Grows
<1> USE DEF DocInv
<1>1. UNCHANGED <<doc, results, object, puts, up, runs, deletion, lost, raced, stops, faults>> /\ object /\ s \in up
      /\ request' = [request EXCEPT ![q] = [pc |-> "store", server |-> s]]
  BY DEF IngestRead
<1>2. RequestsOK'
  BY <1>1 DEF RequestsOK, Asked
<1>3. AtHome' /\ ObjectSeen'
  BY <1>1 DEF AtHome, ObjectSeen, RequestsOK, Working
<1> QED BY <1>1, <1>2, <1>3, Kept

LEMMA IngestStoreKeeps ==
  ASSUME DocInv, NEW q \in Requests, IngestStore(q)
  PROVE  DocInv' /\ Grows
<1> USE DEF DocInv
<1>1. UNCHANGED <<results, object, puts, up, runs, deletion, lost, raced, stops, faults>> /\ request[q].pc = "store"
  BY DEF IngestStore
<1>2. request[q] \in Asked /\ doc \in DocRecord
  BY DEF RequestsOK, DocOK
<1>3. CASE doc.status = "pending"
  <2>1. doc' = [doc EXCEPT !.status = "ready", !.ext = q] /\ request' = [request EXCEPT ![q].pc = "start"]
    BY <1>3 DEF IngestStore
  <2>2. DocOK'
    BY <1>2, <2>1 DEF DocOK, DocRecord
  <2>3. /\ doc'.status = "ready" /\ doc'.run = doc.run /\ doc'.analysis = doc.analysis
        /\ doc'.processed = doc.processed /\ doc.analysis = "none"
    BY <1>2, <1>3, <2>1 DEF DocRecord, RecordOK
  <2>4. RequestsOK'
    BY <1>2, <2>1 DEF RequestsOK, Asked
  <2>5. AtHome' /\ ObjectSeen'
    BY <1>1, <1>2, <2>1 DEF AtHome, ObjectSeen, RequestsOK, Asked, Working
  <2>6. Exists /\ Exists'
    BY <1>3, <2>3 DEF Exists
  <2>7. Untouched' /\ Deleted' /\ RecordOK' /\ WorkOK' /\ Progress'
    BY <1>1, <2>3, <2>6 DEF Untouched, Deleted, RecordOK, WorkOK, Progress, Working
  <2>8. Grows
    BY <1>1, <1>2, <2>3 DEF Grows, DocRecord, Working
  <2>9. RunHoldsLock' /\ CompleteIsWhole' /\ ReadyHasObject'
    BY <1>1, <2>3, <2>6 DEF RunHoldsLock, AnalysingIsLock, CompleteIsWhole, ReadyHasObject, ObjectSeen, Working
  <2> QED BY <1>1, <2>2, <2>4, <2>5, <2>7, <2>8, <2>9, Kept
<1>4. CASE doc.status # "pending"
  <2>1. UNCHANGED doc /\ request' = [request EXCEPT ![q] = Answered]
    BY <1>4 DEF IngestStore
  <2>2. RequestsOK' /\ AtHome' /\ ObjectSeen'
    BY <1>1, <2>1 DEF RequestsOK, Asked, AtHome, ObjectSeen, Answered, Working
  <2> QED BY <1>1, <2>1, <2>2, Kept
<1> QED BY <1>3, <1>4

LEMMA FaultCounted ==
  ASSUME DocInv, Fault \/ NoFault, UNCHANGED <<puts, stops, up>>
  PROVE  CountsOK'
BY DocumentsAssumption DEF DocInv, CountsOK, Fault, NoFault

LEMMA LostFlag ==
  ASSUME DocInv, UNCHANGED object, UNCHANGED lost \/ lost' = TRUE, UNCHANGED raced \/ raced' \in BOOLEAN
  PROVE  FlagsOK'
BY DEF DocInv, FlagsOK

\* An analysis is started on the record its lock wrote; unless a server booted
\* beside one, none is at work.
LEMMA StartKeeps ==
  ASSUME DocInv, NEW s \in up, Start(s), UNCHANGED <<object, puts, up, deletion, stops>>, RequestsOK',
         \A q \in Requests : request'[q].pc \in {"store", "start"} => request'[q] = request[q]
  PROVE  DocInv' /\ Grows
<1> USE DEF DocInv
<1>1. PICK r \in RunIds : Lock(r, 0, results) /\ Spawn(r, s)
  BY DEF Start
<1>2. doc \in DocRecord /\ s \in Servers /\ doc.status = "ready" /\ doc.analysis # "analysing" /\ Exists
  BY <1>1 DEF DocOK, CountsOK, Lock, Lockable, Exists
<1>3. doc.run < r /\ r \in 1 .. MaxRuns
  BY <1>1, <1>2 DEF Lock, DocRecord, RunIds
<1>4. doc' = [doc EXCEPT !.analysis = "analysing", !.processed = 0, !.run = r] /\ results' = results
  BY <1>1 DEF Lock
<1>5. doc'.analysis = "analysing" /\ doc'.processed = 0 /\ doc'.run = r /\ doc'.status = "ready" /\ Exists'
  BY <1>2, <1>4 DEF DocRecord, Exists
<1>6. DocOK' /\ ResultsOK'
  <2>1. 0 \in 0 .. Sentences /\ r \in 0 .. MaxRuns
    BY <1>3, DocumentsAssumption
  <2>2. DocOK'
    BY <1>2, <1>4, <2>1 DEF DocOK, DocRecord
  <2> QED BY <1>4, <2>2, Kept
<1>7. raced' \in BOOLEAN /\ (~raced' => \A u \in RunIds : ~Working(u))
  <2>1. raced' = (raced /\ \E u \in RunIds : Working(u))
    BY <1>1 DEF Lock
  <2>2. ~raced => \A u \in RunIds : ~Working(u)
    BY <1>2 DEF RunHoldsLock, AnalysingIsLock
  <2> QED BY <2>1, <2>2, Zenon
<1>8. runs' = [runs EXCEPT ![r] = [pc |-> "load", server |-> s, at |-> 1, total |-> 0]] \/ runs' = runs
  BY <1>1 DEF Spawn
<1>9. RunsOK'
  BY <1>2, <1>8, DocumentsAssumption DEF RunsOK, Analysis
<1>10. \A u \in RunIds : Working(u)' =>
         \/ u = r /\ runs'[u] = [pc |-> "load", server |-> s, at |-> 1, total |-> 0]
         \/ u < r /\ u <= doc.run /\ Working(u) /\ runs'[u] = runs[u]
  <2>1. \A u \in RunIds : Working(u) => u <= doc.run /\ u < r
    BY <1>2, <1>3 DEF WorkOK, DocRecord, RunIds
  <2>2. CASE runs' = runs
    BY <2>1, <2>2 DEF Working
  <2>3. CASE runs' = [runs EXCEPT ![r] = [pc |-> "load", server |-> s, at |-> 1, total |-> 0]]
    <3>1. \A u \in RunIds : u # r => runs'[u] = runs[u]
      BY <2>3 DEF RunsOK
    <3>2. runs'[r] = [pc |-> "load", server |-> s, at |-> 1, total |-> 0]
      BY <2>3 DEF RunsOK
    <3> QED BY <2>1, <3>1, <3>2 DEF Working
  <2> QED BY <2>2, <2>3, <1>8
<1>11. AtHome'
  BY <1>10 DEF AtHome
<1>12. RunHoldsLock'
  BY <1>5, <1>7, <1>10 DEF RunHoldsLock, AnalysingIsLock
<1>13. WorkOK'
  <2> SUFFICES ASSUME NEW u \in RunIds, Working(u)'
               PROVE  /\ u <= r
                      /\ runs'[u].pc \in {"load", "run"} =>
                           /\ runs'[u].at >= 1
                           /\ \A i \in 1 .. Sentences : i < runs'[u].at => results'[i] # 0
                           /\ runs'[u].pc = "run" => runs'[u].total = Sentences
    BY <1>5 DEF WorkOK
  <2>1. CASE u = r /\ runs'[u] = [pc |-> "load", server |-> s, at |-> 1, total |-> 0]
    BY <1>3, <2>1
  <2>2. CASE u < r /\ Working(u) /\ runs'[u] = runs[u]
    BY <1>2, <1>3, <1>4, <2>2 DEF WorkOK, RunIds
  <2> QED BY <2>1, <2>2, <1>10
<1>14. Progress'
  <2>1. ~raced' => \A u \in RunIds : runs'[u].pc \in {"load", "run"} => runs'[u].pc = "load" /\ runs'[u].at = 1
    BY <1>7, <1>10 DEF Working
  <2>2. ~raced' => \A u \in RunIds : runs'[u].pc \in {"load", "run"} =>
          doc'.processed = runs'[u].at - 1 /\ \A i \in 1 .. Sentences : ~(i < runs'[u].at)
    BY <2>1, <1>5
  <2> QED BY <2>2 DEF Progress
<1>15. ObjectSeen'
  BY DEF ObjectSeen
<1>16. Untouched' /\ Deleted' /\ CompleteIsWhole' /\ ReadyHasObject'
  BY <1>2, <1>5 DEF Untouched, Deleted, CompleteIsWhole, ReadyHasObject
<1>17. RecordOK'
  BY <1>2, <1>3, <1>4, <1>5 DEF RecordOK, ResultsOK, DocRecord
<1>18. Grows
  <2>1. doc.run <= doc'.run
    BY <1>2, <1>3, <1>5 DEF DocRecord
  <2>2. \A u \in RunIds : Working(u)' => Working(u) \/ doc.run < u
    BY <1>3, <1>10
  <2> QED BY <1>4, <2>1, <2>2 DEF Grows
<1>19. FlagsOK' /\ CountsOK'
  BY <1>1, <1>7, FaultCounted, LostFlag DEF Spawn
<1> QED BY <1>6, <1>9, <1>11, <1>12, <1>13, <1>14, <1>15, <1>16, <1>17, <1>18, <1>19, Kept

LEMMA AutoStartKeeps ==
  ASSUME DocInv, NEW q \in Requests, AutoStart(q)
  PROVE  DocInv' /\ Grows
<1> USE DEF DocInv
<1>1. request' = [request EXCEPT ![q] = Answered] /\ UNCHANGED <<object, puts, up, deletion, stops>>
      /\ request[q].pc = "start"
  BY DEF AutoStart
<1>2. RequestsOK' /\ \A p \in Requests : request'[p].pc \in {"store", "start"} => request'[p] = request[p]
  BY <1>1 DEF RequestsOK, Asked, Answered
<1>3. CASE Start(request[q].server)
  BY <1>1, <1>2, <1>3, StartKeeps DEF AtHome
<1>4. CASE UNCHANGED <<doc, results, runs, lost, raced>> /\ (NoFault \/ Fault)
  <2>1. AtHome' /\ ObjectSeen'
    BY <1>1, <1>2, <1>4 DEF AtHome, ObjectSeen, Working
  <2> QED BY <1>1, <1>2, <1>4, <2>1, FaultCounted, Kept
<1> QED BY <1>3, <1>4 DEF AutoStart

LEMMA ReanalyseKeeps ==
  ASSUME DocInv, NEW s \in Servers, Reanalyse(s)
  PROVE  DocInv' /\ Grows
<1>1. RequestsOK' /\ UNCHANGED <<object, puts, up, deletion, stops, request>> /\ s \in up /\ Start(s)
  BY DEF Reanalyse, DocInv, RequestsOK
<1> QED BY <1>1, StartKeeps

-----------------------------------------------------------------------------
(* The steps of a run.                                                     *)

\* A step of a run that is at work moves that run only.
LEMMA RunMoved ==
  ASSUME DocInv, NEW r \in RunIds, Working(r), NEW rec \in Analysis, Run(r, rec), rec.server = runs[r].server \/ rec = Ended,
         UNCHANGED <<up, request>>
  PROVE  /\ RunsOK' /\ AtHome' /\ runs'[r] = rec
         /\ \A u \in RunIds : u # r => runs'[u] = runs[u] /\ (~raced /\ Exists => ~Working(u))
         /\ \A u \in RunIds : Working(u)' => Working(u)
<1> USE DEF DocInv
<1>1. runs' = [runs EXCEPT ![r] = rec]
  BY DEF Run
<1>2. RunsOK' /\ runs'[r] = rec /\ \A u \in RunIds : u # r => runs'[u] = runs[u]
  BY <1>1 DEF RunsOK
<1>3. ~(Ended.pc \in {"load", "run", "fail"})
  BY DEF Ended, NoRun
<1>4. AtHome'
  BY <1>2, <1>3 DEF AtHome, Working
<1>5. \A u \in RunIds : u # r => (~raced /\ Exists => ~Working(u))
  BY DEF RunHoldsLock, AnalysingIsLock
<1>6. \A u \in RunIds : Working(u)' => Working(u)
  BY <1>2 DEF Working
<1> QED BY <1>2, <1>4, <1>5, <1>6

\* A step of a run that writes nothing.
LEMMA RunQuiet ==
  ASSUME DocInv, NEW r \in RunIds, Working(r), NEW rec \in Analysis, Run(r, rec), rec.server = runs[r].server \/ rec = Ended,
         rec.pc \in {"load", "run"} => runs[r].pc \in {"load", "run"} /\ rec.at >= 1,
         rec.pc \in {"load", "run"} /\ Exists => rec.at = runs[r].at /\ (rec.pc = "run" => rec.total = Sentences),
         UNCHANGED <<doc, results, object, puts, up, request, deletion, raced, stops>>, Fault \/ NoFault,
         UNCHANGED lost \/ lost' = TRUE
  PROVE  DocInv' /\ Grows
<1> USE DEF DocInv
<1>1. /\ RunsOK' /\ AtHome' /\ runs'[r] = rec
      /\ \A u \in RunIds : u # r => runs'[u] = runs[u]
      /\ \A u \in RunIds : Working(u)' => Working(u)
  BY RunMoved
<1>2. RunHoldsLock'
  BY <1>1 DEF RunHoldsLock, AnalysingIsLock, Exists
<1>3. Untouched'
  BY DEF Untouched, Exists
<1>4. Progress'
  <2> SUFFICES ASSUME ~raced, Exists, NEW u \in RunIds, runs'[u].pc \in {"load", "run"}
               PROVE  /\ doc.processed = runs'[u].at - 1
                      /\ \A i \in 1 .. Sentences : i < runs'[u].at => results[i] = u
    BY DEF Progress, Exists
  <2>1. CASE u = r
    BY <2>1, <1>1 DEF Progress
  <2>2. CASE u # r
    BY <2>2, <1>1 DEF Progress
  <2> QED BY <2>1, <2>2
<1>5. WorkOK'
  <2> SUFFICES ASSUME NEW u \in RunIds, Working(u), Working(u)'
               PROVE  /\ Exists => doc.status = "ready" /\ u <= doc.run
                      /\ runs'[u].pc \in {"load", "run"} => runs'[u].at >= 1
                      /\ runs'[u].pc \in {"load", "run"} /\ Exists =>
                           /\ \A i \in 1 .. Sentences : i < runs'[u].at => results[i] # 0
                           /\ runs'[u].pc = "run" => runs'[u].total = Sentences
    BY <1>1 DEF WorkOK, Exists
  <2>1. CASE u = r
    BY <2>1, <1>1 DEF WorkOK
  <2>2. CASE u # r
    BY <2>2, <1>1 DEF WorkOK
  <2> QED BY <2>1, <2>2
<1>6. Grows
  BY <1>1 DEF Grows, DocOK, DocRecord
<1>7. FlagsOK' /\ CountsOK'
  BY FaultCounted, LostFlag
<1> QED BY <1>1, <1>2, <1>3, <1>4, <1>5, <1>6, <1>7, Kept

LEMMA EndedOK == Ended \in Analysis /\ Ended.pc = "done"
BY DocumentsAssumption DEF Analysis, Ended, NoRun

LEMMA LoadKeeps ==
  ASSUME DocInv, NEW r \in RunIds, LoadSentences(r)
  PROVE  DocInv' /\ Grows
<1> USE DEF DocInv
<1>1. PICK total \in {0, Sentences} : total = IF doc.status = "ready" THEN Sentences ELSE 0
  OBVIOUS
<1>2. runs[r] \in Analysis /\ runs[r].pc = "load" /\ Working(r)
  BY DEF RunsOK, LoadSentences, Working
<1>3. PICK rec \in Analysis : rec = [runs[r] EXCEPT !.pc = "run", !.total = total]
  <2>1. [runs[r] EXCEPT !.pc = "run", !.total = total] \in Analysis
    BY <1>2 DEF Analysis
  <2> QED BY <2>1, Zenon
<1>4. rec.pc = "run" /\ rec.at = runs[r].at /\ rec.total = total /\ rec.server = runs[r].server /\ rec.at >= 1
  BY <1>2, <1>3 DEF Analysis, WorkOK
<1>5. Exists => doc.status = "ready"
  BY <1>2 DEF WorkOK
<1>6. Run(r, rec)
  BY <1>1, <1>3 DEF LoadSentences
<1>7. UNCHANGED <<doc, results, object, puts, up, request, deletion, lost, raced, stops>> /\ NoFault
  BY DEF LoadSentences, RunOnly
<1> QED BY <1>1, <1>2, <1>4, <1>5, <1>6, <1>7, RunQuiet

LEMMA FailKeeps ==
  ASSUME DocInv, NEW r \in RunIds, Working(r), Run(r, [runs[r] EXCEPT !.pc = "fail"]),
         UNCHANGED <<doc, results, object, puts, up, request, deletion, lost, raced, stops>>, Fault \/ NoFault
  PROVE  DocInv' /\ Grows
<1> USE DEF DocInv
<1>1. PICK rec \in Analysis : rec = [runs[r] EXCEPT !.pc = "fail"]
  <2>1. [runs[r] EXCEPT !.pc = "fail"] \in Analysis
    BY DEF Analysis, RunsOK
  <2> QED BY <2>1, Zenon
<1>2. runs[r] \in Analysis
  BY DEF RunsOK
<1>3. rec.pc = "fail" /\ rec.server = runs[r].server
  BY <1>1, <1>2 DEF Analysis
<1>4. Run(r, rec)
  BY <1>1
<1> QED BY <1>3, <1>4, RunQuiet

LEMMA RecordKeeps ==
  ASSUME DocInv, NEW r \in RunIds, Record(r)
  PROVE  DocInv' /\ Grows
<1> USE DEF DocInv
<1>1. /\ Working(r) /\ runs[r] \in Analysis /\ runs[r].pc = "run" /\ runs[r].at <= runs[r].total
      /\ UNCHANGED <<object, puts, up, request, deletion, lost, raced, stops>> /\ NoFault
  BY DEF Record, RunOnly, RunsOK, Working
<1>2. PICK i \in 1 .. Sentences : i = runs[r].at /\ i + 1 \in 0 .. Sentences + 1
  BY <1>1, DocumentsAssumption DEF Analysis, WorkOK
<1>3. PICK rec \in Analysis : rec = [runs[r] EXCEPT !.at = i + 1]
  <2>1. [runs[r] EXCEPT !.at = i + 1] \in Analysis
    BY <1>1, <1>2 DEF Analysis
  <2> QED BY <2>1, Zenon
<1>4. rec.pc = "run" /\ rec.at = i + 1 /\ rec.total = runs[r].total /\ rec.server = runs[r].server
  BY <1>1, <1>3 DEF Analysis
<1>5. CASE ~Exists
  <2>1. UNCHANGED <<doc, results>> /\ (Run(r, rec) \/ Run(r, [runs[r] EXCEPT !.pc = "fail"]))
    BY <1>2, <1>3, <1>5 DEF Record
  <2>2. CASE Run(r, rec)
    BY <1>1, <1>2, <1>4, <1>5, <2>1, <2>2, RunQuiet
  <2>3. CASE Run(r, [runs[r] EXCEPT !.pc = "fail"])
    BY <1>1, <2>1, <2>3, FailKeeps
  <2> QED BY <2>1, <2>2, <2>3
<1>6. CASE Exists
  <2>1. /\ results' = [results EXCEPT ![i] = r] /\ doc' = [doc EXCEPT !.processed = @ + 1] /\ Run(r, rec)
    BY <1>2, <1>3, <1>6 DEF Record
  <2>2. /\ doc \in DocRecord /\ doc.status = "ready" /\ r <= doc.run /\ runs[r].total = Sentences
        /\ \A j \in 1 .. Sentences : j < i => results[j] # 0
    BY <1>1, <1>2, <1>6 DEF DocOK, WorkOK
  <2>3. ASSUME ~raced
        PROVE  /\ doc.analysis = "analysing" /\ doc.run = r /\ doc.processed = i - 1
               /\ \A j \in 1 .. Sentences : j < i => results[j] = r
    BY <1>1, <1>2, <1>6, <2>3 DEF RunHoldsLock, AnalysingIsLock, Progress
  <2>4. doc.processed \in Nat /\ doc' = [doc EXCEPT !.processed = doc.processed + 1]
    BY <2>1, <2>2 DEF DocRecord
  <2>5. /\ doc'.status = "ready" /\ doc'.run = doc.run /\ doc'.analysis = doc.analysis
        /\ doc'.processed = doc.processed + 1 /\ Exists'
    BY <2>2, <2>4 DEF DocRecord, Exists
  <2>6. DocOK'
    <3>1. doc.processed + 1 \in Nat
      BY <2>4
    <3> QED BY <2>2, <2>4, <3>1 DEF DocOK, DocRecord
  <2>7. r \in 0 .. MaxRuns /\ r >= 1
    BY DEF RunIds
  <2>8. ResultsOK'
    BY <1>2, <2>1, <2>7 DEF ResultsOK
  <2>9. /\ results'[i] = r /\ \A j \in 1 .. Sentences : j # i => results'[j] = results[j]
    BY <2>1 DEF ResultsOK
  <2>10. /\ RunsOK' /\ AtHome' /\ runs'[r] = rec
         /\ \A u \in RunIds : u # r => runs'[u] = runs[u] /\ (~raced => ~Working(u))
         /\ \A u \in RunIds : Working(u)' => Working(u)
    BY <1>1, <1>4, <1>6, <2>1, RunMoved
  <2>11. RunHoldsLock'
    BY <1>1, <1>6, <2>5, <2>10 DEF RunHoldsLock, AnalysingIsLock
  <2>12. Progress'
    <3> SUFFICES ASSUME ~raced, NEW u \in RunIds, runs'[u].pc \in {"load", "run"}
                 PROVE  /\ doc'.processed = runs'[u].at - 1
                        /\ \A j \in 1 .. Sentences : j < runs'[u].at => results'[j] = u
      BY <1>1 DEF Progress
    <3>1. u = r
      BY <2>10 DEF Working
    <3>2. \A j \in 1 .. Sentences : j < i + 1 => results'[j] = r
      BY <1>2, <2>3, <2>9
    <3> QED BY <1>2, <1>4, <2>3, <2>5, <2>10, <3>1, <3>2
  <2>13. WorkOK'
    <3> SUFFICES ASSUME NEW u \in RunIds, Working(u), Working(u)'
                 PROVE  /\ u <= doc.run
                        /\ runs'[u].pc \in {"load", "run"} =>
                             /\ runs'[u].at >= 1
                             /\ \A j \in 1 .. Sentences : j < runs'[u].at => results'[j] # 0
                             /\ runs'[u].pc = "run" => runs'[u].total = Sentences
      BY <2>5, <2>10 DEF WorkOK
    <3>1. CASE u = r
      <4>1. \A j \in 1 .. Sentences : j < i + 1 => results'[j] # 0
        BY <1>2, <2>2, <2>7, <2>9
      <4> QED BY <1>2, <1>4, <2>2, <2>10, <3>1, <4>1
    <3>2. CASE u # r
      <4>1. \A j \in 1 .. Sentences : results[j] # 0 => results'[j] # 0
        BY <2>7, <2>9
      <4> QED BY <1>6, <2>10, <3>2, <4>1 DEF WorkOK
    <3> QED BY <3>1, <3>2
  <2>14. RecordOK'
    BY <2>2, <2>5, <2>7, <2>9 DEF RecordOK, ResultsOK, DocRecord
  <2>15. Grows
    BY <1>1, <2>2, <2>5, <2>9, <2>10 DEF Grows, DocRecord
  <2>16. CompleteIsWhole'
    <3> SUFFICES ASSUME doc.analysis = "complete"
                 PROVE  raced /\ \A j \in 1 .. Sentences : results'[j] # 0
      BY <1>1, <2>5 DEF CompleteIsWhole
    <3> QED BY <2>3, <2>7, <2>9 DEF CompleteIsWhole
  <2>17. Untouched' /\ Deleted' /\ ReadyHasObject'
    BY <1>1, <1>6, <2>2, <2>5 DEF Untouched, Deleted, ReadyHasObject
  <2> QED BY <1>1, <2>6, <2>8, <2>10, <2>11, <2>12, <2>13, <2>14, <2>15, <2>16, <2>17, FaultCounted, Kept
<1> QED BY <1>5, <1>6

\* The run that settles a document has a result of every sentence if it is complete.
LEMMA SettleKeeps ==
  ASSUME DocInv, NEW r \in RunIds, Working(r), NEW status \in {"complete", "failed"}, Settle(r, status),
         status = "complete" => runs[r].pc = "run" /\ runs[r].at > runs[r].total
  PROVE  DocInv' /\ Grows
<1> USE DEF DocInv
<1>1. Run(r, Ended) /\ NoFault /\ UNCHANGED <<results, object, puts, up, request, deletion, lost, raced, stops>>
  BY DEF Settle, RunOnly
<1>2. CASE ~Exists
  BY <1>1, <1>2, EndedOK, RunQuiet DEF Settle
<1>3. CASE Exists
  <2>1. doc' = [doc EXCEPT !.analysis = status] /\ doc \in DocRecord /\ doc.status = "ready" /\ r <= doc.run
    BY <1>3 DEF Settle, DocOK, WorkOK
  <2>2. DocOK'
    BY <2>1 DEF DocOK, DocRecord
  <2>3. /\ doc'.status = "ready" /\ doc'.run = doc.run /\ doc'.analysis = status /\ doc'.processed = doc.processed /\ Exists'
    BY <2>1 DEF DocRecord, Exists
  <2>4. /\ RunsOK' /\ AtHome' /\ runs'[r] = Ended
        /\ \A u \in RunIds : u # r => runs'[u] = runs[u] /\ (~raced => ~Working(u))
        /\ \A u \in RunIds : Working(u)' => Working(u) /\ u # r
    BY <1>1, <1>3, EndedOK, RunMoved DEF Working
  <2>5. ~raced => \A u \in RunIds : ~Working(u)'
    BY <2>4
  <2>6. RunHoldsLock' /\ Progress'
    BY <1>1, <2>5 DEF RunHoldsLock, AnalysingIsLock, Progress, Working
  <2>7. WorkOK'
    BY <1>1, <1>3, <2>3, <2>4 DEF WorkOK
  <2>8. CompleteIsWhole'
    <3>1. ASSUME status = "complete"
          PROVE  \A j \in 1 .. Sentences : results[j] # 0
      <4>1. runs[r].at > Sentences /\ runs[r].at \in 0 .. Sentences + 1
            /\ \A j \in 1 .. Sentences : j < runs[r].at => results[j] # 0
        BY <1>3, <3>1 DEF WorkOK, RunsOK, Analysis
      <4> QED BY <4>1, DocumentsAssumption
    <3>2. ASSUME status = "complete", ~raced
          PROVE  doc.processed = Sentences /\ \A j \in 1 .. Sentences : results[j] = doc.run
      <4>1. runs[r].at > Sentences /\ runs[r].at \in 0 .. Sentences + 1 /\ doc.processed = runs[r].at - 1
            /\ doc.run = r /\ \A j \in 1 .. Sentences : j < runs[r].at => results[j] = r
        BY <1>3, <3>2 DEF WorkOK, RunHoldsLock, AnalysingIsLock, Progress, RunsOK, Analysis
      <4> QED BY <4>1, DocumentsAssumption
    <3> QED BY <1>1, <2>3, <3>1, <3>2 DEF CompleteIsWhole
  <2>9. RecordOK' /\ Grows
    BY <1>1, <2>1, <2>3, <2>4 DEF RecordOK, Grows, ResultsOK, DocRecord, RunIds
  <2>10. Untouched' /\ Deleted' /\ ReadyHasObject'
    BY <1>1, <1>3, <2>1, <2>3 DEF Untouched, Deleted, ReadyHasObject
  <2> QED BY <1>1, <2>2, <2>4, <2>6, <2>7, <2>8, <2>9, <2>10, FaultCounted, Kept
<1> QED BY <1>2, <1>3

LEMMA RunStepKeeps ==
  ASSUME DocInv, NEW r \in RunIds, RunStep(r)
  PROVE  DocInv' /\ Grows
<1>1. CASE RunFails(r)
  BY <1>1, FailKeeps DEF RunFails, RunOnly, Working
<1>2. CASE Complete(r)
  <2>1. PICK status \in {"complete", "failed"} : status = "complete"
    OBVIOUS
  <2> QED BY <1>2, <2>1, SettleKeeps DEF Complete, Working
<1>3. CASE FailRun(r)
  <2>1. PICK status \in {"complete", "failed"} : status = "failed"
    OBVIOUS
  <2> QED BY <1>3, <2>1, SettleKeeps DEF FailRun, Working
<1>4. CASE FailLost(r)
  BY <1>4, EndedOK, RunQuiet DEF FailLost, Working
<1> QED BY <1>1, <1>2, <1>3, <1>4, LoadKeeps, RecordKeeps DEF RunStep

-----------------------------------------------------------------------------
(* Deletion, and servers that stop and boot.                               *)

LEMMA DeleteKeeps ==
  ASSUME DocInv, DeleteRead \/ DeleteStep
  PROVE  DocInv' /\ Grows
<1> USE DEF DocInv
<1>1. CASE DeleteRead
  <2>1. UNCHANGED <<doc, results, object, puts, up, request, runs, lost, raced, stops, faults>> /\ Exists
        /\ deletion' = [pc |-> "object", pending |-> doc.status = "pending"]
    BY <1>1 DEF DeleteRead
  <2>2. DeletionOK'
    BY <2>1 DEF DeletionOK
  <2>3. deletion'.pc = "object"
    BY <2>1
  <2>4. Untouched' /\ Deleted' /\ ObjectSeen' /\ ReadyHasObject'
    BY <2>1, <2>3 DEF Untouched, Deleted, ObjectSeen, ReadyHasObject, Exists
  <2> QED BY <2>1, <2>2, <2>4, Kept
<1>2. CASE DeleteObject
  <2>1. UNCHANGED <<doc, results, puts, up, request, runs, lost, raced, stops, faults>> /\ deletion.pc = "object"
        /\ deletion' = [deletion EXCEPT !.pc = "row"] /\ object' = FALSE
    BY <1>2 DEF DeleteObject
  <2>2. DeletionOK' /\ deletion'.pc = "row"
    BY <2>1 DEF DeletionOK
  <2>3. FlagsOK'
    BY <2>1 DEF FlagsOK
  <2>4. Untouched' /\ Deleted' /\ ObjectSeen' /\ ReadyHasObject'
    BY <2>1, <2>2 DEF Untouched, Deleted, ObjectSeen, ReadyHasObject, Exists
  <2> QED BY <2>1, <2>2, <2>3, <2>4, Kept
<1>3. CASE DeleteRow
  <2>1. UNCHANGED <<object, puts, up, request, runs, lost, raced, stops, faults>> /\ doc' = NoDoc /\ results' = Clear
        /\ deletion' = [deletion EXCEPT !.pc = IF deletion.pending THEN "sweep" ELSE "done"]
    BY <1>3 DEF DeleteRow
  <2>2. DeletionOK' /\ deletion'.pc \in {"sweep", "done"}
    BY <2>1 DEF DeletionOK
  <2>3. /\ doc'.status = "none" /\ doc'.analysis = "none" /\ doc'.run = 0 /\ doc'.processed = 0 /\ ~Exists'
    BY <2>1 DEF NoDoc, Exists
  <2>4. DocOK'
    BY <2>1, DocumentsAssumption DEF DocOK, DocRecord, NoDoc
  <2>5. ResultsOK' /\ \A i \in 1 .. Sentences : results'[i] = 0
    BY <2>1, DocumentsAssumption DEF ResultsOK, Clear
  <2>6. Untouched' /\ Deleted' /\ ObjectSeen' /\ ReadyHasObject' /\ CompleteIsWhole' /\ RunHoldsLock'
    BY <2>2, <2>3 DEF Untouched, Deleted, ObjectSeen, ReadyHasObject, CompleteIsWhole, RunHoldsLock, AnalysingIsLock
  <2>7. Progress' /\ WorkOK'
    BY <2>1, <2>3 DEF Progress, WorkOK, Working
  <2>8. RecordOK' /\ Grows
    BY <2>3, <2>5 DEF RecordOK, Grows
  <2> QED BY <2>1, <2>2, <2>4, <2>5, <2>6, <2>7, <2>8, Kept
<1>4. CASE Sweep
  <2>1. UNCHANGED <<doc, results, puts, up, request, runs, lost, raced, stops, faults>> /\ deletion.pc = "sweep"
        /\ deletion' = [deletion EXCEPT !.pc = "done"] /\ object' = FALSE
    BY <1>4 DEF Sweep
  <2>2. DeletionOK' /\ deletion'.pc = "done"
    BY <2>1 DEF DeletionOK
  <2>3. FlagsOK'
    BY <2>1 DEF FlagsOK
  <2>4. Untouched' /\ Deleted' /\ ObjectSeen' /\ ReadyHasObject'
    BY <2>1, <2>2 DEF Untouched, Deleted, ObjectSeen, ReadyHasObject, Exists
  <2> QED BY <2>1, <2>2, <2>3, <2>4, Kept
<1>5. CASE DeleteFails
  <2>1. UNCHANGED <<doc, results, object, puts, up, request, runs, lost, raced, stops>> /\ Fault
        /\ deletion.pc \in {"object", "row", "sweep"}
        /\ deletion' = [deletion EXCEPT !.pc = IF @ = "sweep" THEN "done" ELSE "failed"]
    BY <1>5 DEF DeleteFails
  <2>2. DeletionOK' /\ deletion'.pc = IF deletion.pc = "sweep" THEN "done" ELSE "failed"
    BY <2>1 DEF DeletionOK
  <2>3. Untouched' /\ Deleted' /\ ObjectSeen' /\ ReadyHasObject'
    BY <2>1, <2>2 DEF Untouched, Deleted, ObjectSeen, ReadyHasObject, Exists
  <2> QED BY <2>1, <2>2, <2>3, FaultCounted, Kept
<1> QED BY <1>1, <1>2, <1>3, <1>4, <1>5 DEF DeleteStep

LEMMA StopKeeps ==
  ASSUME DocInv, NEW s \in Servers, Stop(s)
  PROVE  DocInv' /\ Grows
<1> USE DEF DocInv
<1>1. /\ UNCHANGED <<doc, results, object, puts, raced, faults>> /\ up' = up \ {s}
      /\ stops < MaxStops /\ stops' = stops + 1
  BY DEF Stop
<1>2. \A r \in RunIds : runs'[r] = IF runs[r].server = s THEN Ended ELSE runs[r]
  BY DEF Stop
<1>3. \A q \in Requests : request'[q] = IF request[q].server = s THEN Answered ELSE request[q]
  BY DEF Stop
<1>4. RunsOK'
  BY EndedOK DEF Stop, RunsOK
<1>5. RequestsOK' /\ Answered.pc = "done"
  BY DEF Stop, RequestsOK, Asked, Answered
<1>6. \A r \in RunIds : Working(r)' => Working(r) /\ runs'[r] = runs[r] /\ runs[r].server # s
  BY <1>2, EndedOK DEF Working
<1>7. \A r \in RunIds : runs'[r].pc \in {"load", "run"} => runs'[r] = runs[r]
  BY <1>2, EndedOK
<1>8. AtHome'
  BY <1>1, <1>3, <1>5, <1>6 DEF AtHome
<1>9. FlagsOK' /\ CountsOK'
  <2>1. lost' \in BOOLEAN
    BY Zenon DEF Stop
  <2> QED BY <1>1, <2>1, DocumentsAssumption DEF FlagsOK, CountsOK
<1>10. DeletionOK' /\ \/ deletion'.pc = deletion.pc
                      \/ deletion.pc \in {"object", "row"} /\ deletion'.pc = "failed"
                      \/ deletion.pc = "sweep" /\ deletion'.pc = "done"
  BY DEF Stop, DeletionOK
<1>11. Untouched' /\ Deleted'
  BY <1>1, <1>6, <1>10 DEF Untouched, Deleted, Exists
<1>12. RunHoldsLock'
  BY <1>1, <1>6 DEF RunHoldsLock, AnalysingIsLock, Exists
<1>13. Progress' /\ WorkOK' /\ Grows
  BY <1>1, <1>6, <1>7 DEF Progress, WorkOK, Grows, Exists, DocOK, DocRecord
<1>14. ObjectSeen' /\ ReadyHasObject'
  BY <1>1, <1>3, <1>5, <1>10 DEF ObjectSeen, ReadyHasObject
<1> QED BY <1>1, <1>4, <1>5, <1>8, <1>9, <1>10, <1>11, <1>12, <1>13, <1>14, Kept

\* A server that boots where no run is at work fails dead analyses only; where
\* one is, the lock is broken.
LEMMA BootKeeps ==
  ASSUME DocInv, NEW s \in Servers, Boot(s)
  PROVE  DocInv' /\ Grows
<1> USE DEF DocInv
<1>1. up' = up \cup {s} /\ lost' = FALSE
      /\ UNCHANGED <<results, object, puts, request, runs, deletion, stops, faults>>
  BY DEF Boot
<1>2. doc \in DocRecord /\ doc' = [doc EXCEPT !.analysis = IF doc.analysis = "analysing" THEN "failed" ELSE doc.analysis]
  BY DEF Boot, DocOK
<1>3. DocOK'
  BY <1>2 DEF DocOK, DocRecord
<1>4. /\ doc'.status = doc.status /\ doc'.run = doc.run /\ doc'.processed = doc.processed
      /\ doc'.analysis = IF doc.analysis = "analysing" THEN "failed" ELSE doc.analysis
  BY <1>2 DEF DocRecord
<1>5. raced' \in BOOLEAN /\ (~raced' => ~raced /\ \A r \in RunIds : ~Working(r))
  <2>1. raced' = (raced \/ \E r \in RunIds : Working(r))
    BY DEF Boot
  <2> QED BY <2>1, Zenon
<1>6. AtHome'
  BY <1>1 DEF AtHome, Working
<1>7. RunHoldsLock' /\ Progress'
  BY <1>1, <1>5 DEF RunHoldsLock, AnalysingIsLock, Progress, Working
<1>8. Untouched' /\ WorkOK' /\ Grows
  BY <1>1, <1>2, <1>4 DEF Untouched, WorkOK, Grows, Working, Exists, DocRecord
<1>9. CountsOK' /\ FlagsOK'
  BY <1>1, <1>5 DEF CountsOK, FlagsOK
<1>10. Deleted' /\ RecordOK' /\ ReadyHasObject'
  BY <1>1, <1>4 DEF Deleted, RecordOK, ReadyHasObject, Exists
<1>11. CompleteIsWhole'
  BY <1>1, <1>4, <1>5 DEF CompleteIsWhole
<1> QED BY <1>1, <1>3, <1>5, <1>6, <1>7, <1>8, <1>9, <1>10, <1>11, Kept

LEMMA DocStep == DocInv /\ [Next]_vars => DocInv' /\ Grows
<1> SUFFICES ASSUME DocInv, [Next]_vars PROVE DocInv' /\ Grows
  OBVIOUS
<1>1. CASE UNCHANGED vars
  <2>1. UNCHANGED <<doc, results, object, puts, up, request, runs, deletion, lost, raced, stops, faults>>
    BY <1>1 DEF vars
  <2> QED BY <2>1, Kept DEF DocInv
<1>2. ASSUME NEW q \in Requests, RequestStep(q) PROVE DocInv' /\ Grows
  BY <1>2, IngestStoreKeeps, AutoStartKeeps DEF RequestStep
<1> QED BY <1>1, <1>2, UploadKeeps, PutKeeps, IngestReadKeeps, ReanalyseKeeps, RunStepKeeps, DeleteKeeps, StopKeeps,
           BootKeeps, Zenon DEF Next

-----------------------------------------------------------------------------
(* The page.                                                               *)

\* What becomes of the record in a step.
Fate ==
  /\ ~Exists /\ Exists' => deletion.pc = "none"
  /\ ~Exists' /\ deletion'.pc = "none" => ~Exists /\ deletion.pc = "none"
  /\ doc.status = "ready" /\ Exists' => doc'.ext = doc.ext /\ doc'.status = "ready"

LEMMA DocFate == DocInv /\ [Next]_vars => Fate
<1> SUFFICES ASSUME DocInv, [Next]_vars PROVE Fate
  OBVIOUS
<1> USE DEF DocInv, Fate
<1>1. CASE RequestUpload
  <2>1. ~Exists /\ deletion.pc = "none" /\ doc'.status = "pending"
    BY <1>1 DEF RequestUpload, Created, NoDoc
  <2> QED BY <2>1 DEF Exists
<1>2. CASE UNCHANGED <<doc, deletion>>
  BY <1>2 DEF Exists
<1>3. ASSUME NEW q \in Requests, IngestStore(q) PROVE Fate
  BY <1>3 DEF IngestStore, DocOK, DocRecord, Exists
<1>4. ASSUME NEW s, Start(s), UNCHANGED deletion PROVE Fate
  <2>1. PICK r \in RunIds : Lock(r, 0, results)
    BY <1>4 DEF Start
  <2> QED BY <1>4, <2>1 DEF Lock, DocOK, DocRecord, Exists
<1>5. ASSUME NEW r \in RunIds, Record(r) PROVE Fate
  BY <1>5 DEF Record, DocOK, DocRecord, Exists, RunOnly
<1>6. ASSUME NEW r \in RunIds, NEW status, Settle(r, status) PROVE Fate
  BY <1>6 DEF Settle, DocOK, DocRecord, Exists, RunOnly
<1>7. CASE DeleteRead \/ DeleteStep
  <2>1. CASE DeleteRow
    BY <2>1 DEF DeleteRow, DeletionOK, NoDoc, Exists
  <2>2. CASE DeleteRead \/ DeleteObject \/ Sweep \/ DeleteFails
    <3>1. UNCHANGED doc /\ deletion'.pc # "none"
      BY <2>2 DEF DeleteRead, DeleteObject, Sweep, DeleteFails, DeletionOK
    <3> QED BY <3>1 DEF Exists
  <2> QED BY <1>7, <2>1, <2>2 DEF DeleteStep
<1>8. ASSUME NEW s \in Servers, Boot(s) PROVE Fate
  BY <1>8 DEF Boot, DocOK, DocRecord, Exists
<1>9. ASSUME NEW s \in Servers, Stop(s) PROVE Fate
  <2>1. UNCHANGED doc /\ (deletion'.pc = "none" => deletion.pc = "none")
    BY <1>9 DEF Stop, DeletionOK
  <2> QED BY <2>1 DEF Exists
<1>10. ASSUME NEW q \in Requests, RequestStep(q) PROVE Fate
  <2>1. CASE AutoStart(q)
    BY <1>2, <1>4, <2>1 DEF AutoStart
  <2> QED BY <1>3, <1>10, <2>1 DEF RequestStep
<1>11. ASSUME NEW r \in RunIds, RunStep(r) PROVE Fate
  <2>1. CASE LoadSentences(r) \/ RunFails(r) \/ FailLost(r)
    BY <2>1, <1>2 DEF LoadSentences, RunFails, FailLost, RunOnly
  <2> QED BY <1>5, <1>6, <1>11, <2>1 DEF RunStep, Complete, FailRun
<1>12. ASSUME NEW s \in Servers, Reanalyse(s) PROVE Fate
  BY <1>4, <1>12 DEF Reanalyse
<1>13. CASE Put
  BY <1>13, <1>2 DEF Put
<1>14. ASSUME NEW q \in Requests, NEW s \in Servers, IngestRead(q, s) PROVE Fate
  BY <1>14, <1>2 DEF IngestRead
<1>15. CASE UNCHANGED vars
  BY <1>15, <1>2 DEF vars
<1> QED BY <1>1, <1>7, <1>8, <1>9, <1>10, <1>11, <1>12, <1>13, <1>14, <1>15, Zenon DEF Next

\* An answer that says complete is about claims that can only be replaced, by
\* those of the runs at work and of the runs to come.
Held ==
  viewer.pc \in {"loading", "ticking"} /\ viewer.got = "complete" /\ Exists =>
    /\ viewer.run <= doc.run
    /\ \A i \in 1 .. Sentences : results[i] # 0 /\ viewer.run <= results[i]
    /\ \A r \in RunIds : Working(r) => viewer.run <= r
NotOpened == ~Exists /\ deletion.pc = "none" => viewer.pc = "closed"
PageInv == ViewerOK /\ ShownCompleteIsWhole /\ Held /\ NotOpened

LEMMA PageInit == ViewerInit => DocInv /\ PageInv
<1> SUFFICES ASSUME ViewerInit PROVE DocInv /\ PageInv
  OBVIOUS
<1>1. DocInv
  BY DocInit DEF ViewerInit
<1>2. viewer = [pc |-> "closed", got |-> "none", run |-> 0, shows |-> "none", whole |-> TRUE]
  BY DEF ViewerInit, Page
<1>3. ViewerOK
  BY <1>2, DocumentsAssumption DEF ViewerOK
<1>4. ShownCompleteIsWhole /\ Held /\ NotOpened
  BY <1>2 DEF ShownCompleteIsWhole, Held, NotOpened
<1> QED BY <1>1, <1>3, <1>4 DEF PageInv

\* A page at rest while the document moves.
LEMMA PageRests ==
  ASSUME DocInv, DocInv', PageInv, Grows, Fate, UNCHANGED viewer
  PROVE  PageInv'
<1>1. ViewerOK' /\ ShownCompleteIsWhole'
  BY DEF PageInv, ViewerOK, ShownCompleteIsWhole
<1>2. NotOpened'
  BY DEF PageInv, NotOpened, Fate
<1>3. Held'
  <2> SUFFICES ASSUME viewer.pc \in {"loading", "ticking"}, viewer.got = "complete", Exists'
               PROVE  /\ viewer.run <= doc'.run
                      /\ \A i \in 1 .. Sentences : results'[i] # 0 /\ viewer.run <= results'[i]
                      /\ \A r \in RunIds : Working(r)' => viewer.run <= r
    BY DEF Held
  <2>1. Exists
    BY DEF Fate, PageInv, NotOpened
  <2>2. viewer.run \in Int /\ doc.run \in Int /\ doc'.run \in Int /\ doc.run <= doc'.run
    BY DEF PageInv, ViewerOK, DocInv, DocOK, DocRecord, Grows
  <2>3. /\ viewer.run <= doc.run
        /\ \A i \in 1 .. Sentences : results[i] # 0 /\ viewer.run <= results[i]
        /\ \A r \in RunIds : Working(r) => viewer.run <= r
    BY <2>1 DEF PageInv, Held
  <2>4. ASSUME NEW i \in 1 .. Sentences PROVE results'[i] # 0 /\ viewer.run <= results'[i]
    <3>1. CASE results'[i] = results[i]
      BY <2>3, <3>1
    <3>2. CASE \E r \in RunIds : Working(r) /\ results'[i] = r
      BY <2>3, <3>2 DEF RunIds
    <3> QED BY <3>1, <3>2 DEF Grows
  <2>5. ASSUME NEW r \in RunIds, Working(r)' PROVE viewer.run <= r
    <3>1. Working(r) \/ doc.run < r
      BY <2>5 DEF Grows
    <3> QED BY <2>2, <2>3, <3>1 DEF RunIds
  <2> QED BY <2>2, <2>3, <2>4, <2>5
<1> QED BY <1>1, <1>2, <1>3 DEF PageInv

\* A page that holds no answer.
LEMMA PageIdle ==
  ASSUME NEW pc \in {"closed", "load", "armed", "rest", "error"}, ViewerOK', viewer'.pc = pc, ShownCompleteIsWhole', NotOpened'
  PROVE  PageInv'
BY DEF PageInv, Held

\* Steps of the page keep the document, but for the count of faults.
LEMMA BreaksKeep ==
  ASSUME DocInv, Breaks, UNCHANGED <<doc, results, object, puts, up, request, runs, deletion, lost, raced, stops>>
  PROVE  DocInv' /\ Grows /\ Fate
<1>1. Fault \/ NoFault
  BY DEF Breaks
<1>2. Fate
  BY DEF Fate, Exists
<1> QED BY <1>1, <1>2, FaultCounted, Kept DEF DocInv

LEMMA StutterKeeps ==
  ASSUME DocInv, UNCHANGED vars
  PROVE  /\ DocInv' /\ Grows /\ Fate
         /\ UNCHANGED <<doc, results, object, puts, up, request, runs, deletion, lost, raced, stops, faults>>
<1>1. UNCHANGED <<doc, results, object, puts, up, request, runs, deletion, lost, raced, stops, faults>>
  BY DEF vars
<1>2. Fate
  BY <1>1 DEF Fate, Exists
<1> QED BY <1>1, <1>2, Kept DEF DocInv

LEMMA ShowKeeps == DocInv /\ PageInv /\ Show => DocInv' /\ Grows /\ Fate /\ PageInv'
<1> SUFFICES ASSUME DocInv, PageInv, Show PROVE DocInv' /\ Grows /\ Fate /\ PageInv'
  OBVIOUS
<1> USE DEF PageInv
<1>1. UNCHANGED vars /\ viewer.pc \in {"loading", "ticking"}
  BY DEF Show, DocumentKept
<1>2. DocInv' /\ Grows /\ Fate /\ UNCHANGED <<doc, results, deletion>>
  BY <1>1, StutterKeeps
<1>3. WholeSince(viewer.run) \in BOOLEAN
  BY Zenon DEF WholeSince
<1>4. PICK w \in BOOLEAN : w = WholeSince(viewer.run)
  BY <1>3, Zenon
<1>5. PICK pc \in {"armed", "rest"} : pc = IF viewer.got = "analysing" THEN "armed" ELSE "rest"
  OBVIOUS
<1>6. viewer' = [viewer EXCEPT !.pc = pc, !.got = "none", !.run = 0, !.shows = viewer.got, !.whole = w]
  BY <1>4, <1>5, Zenon DEF Show
<1>7. ViewerOK'
  <2>1. 0 \in 0 .. MaxRuns
    BY DocumentsAssumption
  <2>2. viewer.got \in {"none", "analysing", "complete", "failed"}
    BY DEF ViewerOK
  <2> QED BY <1>6, <2>1, <2>2 DEF ViewerOK
<1>8. viewer'.pc = pc /\ viewer'.shows = viewer.got /\ viewer'.whole = w
  BY <1>6 DEF ViewerOK
<1>9. viewer.got = "complete" => WholeSince(viewer.run)
  <2> SUFFICES ASSUME viewer.got = "complete", Exists
               PROVE  \A i \in 1 .. Sentences : results[i] # 0 /\ results[i] >= viewer.run
    BY DEF WholeSince
  <2>1. \A i \in 1 .. Sentences : results[i] # 0 /\ viewer.run <= results[i]
    BY <1>1 DEF Held
  <2>2. viewer.run \in Int /\ \A i \in 1 .. Sentences : results[i] \in Int
    BY DEF ViewerOK, DocInv, ResultsOK
  <2> QED BY <2>1, <2>2
<1>10. ShownCompleteIsWhole'
  BY <1>4, <1>8, <1>9 DEF ShownCompleteIsWhole
<1>11. NotOpened'
  BY <1>1, <1>2 DEF NotOpened, Exists
<1> QED BY <1>2, <1>5, <1>7, <1>8, <1>10, <1>11, PageIdle

LEMMA ReadKeeps == DocInv /\ PageInv /\ ReadDocument => DocInv' /\ Grows /\ Fate /\ PageInv'
<1> SUFFICES ASSUME DocInv, PageInv, ReadDocument PROVE DocInv' /\ Grows /\ Fate /\ PageInv'
  OBVIOUS
<1> USE DEF PageInv
<1>1. UNCHANGED vars /\ Exists /\ viewer.pc \in {"load", "armed"}
  BY DEF ReadDocument, DocumentKept
<1>2. DocInv' /\ Grows /\ Fate /\ UNCHANGED <<doc, results, deletion>>
  BY <1>1, StutterKeeps
<1>3. PICK pc \in {"loading", "ticking"} : pc = IF viewer.pc = "load" THEN "loading" ELSE "ticking"
  OBVIOUS
<1>4. doc.analysis \in {"none", "analysing", "complete", "failed"} /\ doc.run \in 0 .. MaxRuns /\ 0 \in 0 .. MaxRuns
  BY DocumentsAssumption DEF DocInv, DocOK, DocRecord
<1>5. PICK run \in 0 .. MaxRuns : run = IF raced THEN 0 ELSE doc.run
  BY <1>4
<1>6. viewer' = [viewer EXCEPT !.pc = pc, !.got = doc.analysis, !.run = run]
  BY <1>3, <1>5, Zenon DEF ReadDocument
<1>7. ViewerOK'
  BY <1>4, <1>6 DEF ViewerOK
<1>8. viewer'.got = doc.analysis /\ viewer'.run = run /\ viewer'.shows = viewer.shows /\ viewer'.whole = viewer.whole
  BY <1>6 DEF ViewerOK
<1>9. run <= doc.run
  BY <1>4, <1>5
<1>10. ASSUME doc.analysis = "complete"
       PROVE  /\ \A i \in 1 .. Sentences : results[i] # 0 /\ run <= results[i]
              /\ \A r \in RunIds : Working(r) => run <= r
  <2>1. \A i \in 1 .. Sentences : results[i] # 0 /\ results[i] \in Nat
    BY <1>10 DEF DocInv, CompleteIsWhole, ResultsOK
  <2>2. CASE raced
    <3>1. run = 0
      BY <1>5, <2>2
    <3> QED BY <2>1, <3>1 DEF RunIds
  <2>3. CASE ~raced
    <3>1. run = doc.run
      BY <1>5, <2>3
    <3>2. \A i \in 1 .. Sentences : results[i] = doc.run
      BY <1>10, <2>3 DEF DocInv, CompleteIsWhole
    <3>3. \A r \in RunIds : ~Working(r)
      BY <1>1, <1>10, <2>3 DEF DocInv, RunHoldsLock, AnalysingIsLock
    <3> QED BY <1>4, <2>1, <3>1, <3>2, <3>3
  <2> QED BY <2>2, <2>3
<1>11. Held'
  <2>1. \A r \in RunIds : Working(r)' <=> Working(r)
    BY <1>1, StutterKeeps DEF Working
  <2> QED BY <1>2, <1>8, <1>9, <1>10, <2>1 DEF Held
<1>12. ShownCompleteIsWhole' /\ NotOpened'
  BY <1>1, <1>2, <1>8 DEF ShownCompleteIsWhole, NotOpened, Exists
<1> QED BY <1>2, <1>7, <1>11, <1>12

LEMMA PageKeeps == DocInv /\ PageInv /\ (Open \/ Retry \/ ReadGone \/ LoadFails \/ TickFails) =>
                     DocInv' /\ Grows /\ Fate /\ PageInv'
<1> SUFFICES ASSUME DocInv, PageInv, Open \/ Retry \/ ReadGone \/ LoadFails \/ TickFails
             PROVE  DocInv' /\ Grows /\ Fate /\ PageInv'
  OBVIOUS
<1> USE DEF PageInv
<1>1. CASE Open \/ Retry
  <2>1. UNCHANGED vars /\ Exists /\ viewer' = [viewer EXCEPT !.pc = "load"]
    BY <1>1 DEF Open, Retry, DocumentKept
  <2>2. DocInv' /\ Grows /\ Fate /\ UNCHANGED <<doc, deletion>>
    BY <2>1, StutterKeeps
  <2>3. ViewerOK' /\ viewer'.pc = "load" /\ ShownCompleteIsWhole' /\ NotOpened'
    BY <2>1, <2>2 DEF ViewerOK, ShownCompleteIsWhole, NotOpened, Exists
  <2>4. Held'
    BY <2>3 DEF Held
  <2> QED BY <2>2, <2>3, <2>4
<1>2. ASSUME viewer' = [Page EXCEPT !.pc = "error"], Fate, deletion'.pc = "none" => Exists'
      PROVE  PageInv'
  <2>1. viewer' = [pc |-> "error", got |-> "none", run |-> 0, shows |-> "none", whole |-> TRUE]
    BY <1>2 DEF Page
  <2>2. ViewerOK'
    BY <2>1, DocumentsAssumption DEF ViewerOK
  <2>3. ShownCompleteIsWhole' /\ Held' /\ NotOpened'
    BY <1>2, <2>1 DEF ShownCompleteIsWhole, Held, NotOpened
  <2> QED BY <2>2, <2>3
<1>3. CASE ReadGone
  <2>1. UNCHANGED vars /\ ~Exists /\ viewer.pc \in {"load", "armed"} /\ viewer' = [Page EXCEPT !.pc = "error"]
    BY <1>3 DEF ReadGone, DocumentKept
  <2>2. DocInv' /\ Grows /\ Fate /\ UNCHANGED <<doc, deletion>>
    BY <2>1, StutterKeeps
  <2>3. deletion.pc # "none"
    BY <2>1 DEF NotOpened
  <2> QED BY <1>2, <2>1, <2>2, <2>3
<1>4. CASE LoadFails
  <2>1. Breaks /\ UNCHANGED <<doc, results, object, puts, up, request, runs, deletion, lost, raced, stops>>
        /\ viewer.pc \in {"load", "loading"} /\ viewer' = [Page EXCEPT !.pc = "error"]
    BY <1>4 DEF LoadFails
  <2>2. DocInv' /\ Grows /\ Fate
    BY <2>1, BreaksKeep
  <2>3. deletion'.pc = "none" => Exists'
    BY <2>1 DEF NotOpened, Exists
  <2> QED BY <1>2, <2>1, <2>2, <2>3
<1>5. CASE TickFails
  <2>1. Breaks /\ UNCHANGED <<doc, results, object, puts, up, request, runs, deletion, lost, raced, stops>>
        /\ viewer.pc = "ticking" /\ viewer' = [viewer EXCEPT !.pc = "armed"]
    BY <1>5 DEF TickFails
  <2>2. DocInv' /\ Grows /\ Fate
    BY <2>1, BreaksKeep
  <2>3. ViewerOK' /\ viewer'.pc = "armed" /\ ShownCompleteIsWhole' /\ NotOpened'
    BY <2>1 DEF ViewerOK, ShownCompleteIsWhole, NotOpened, Exists
  <2>4. Held'
    BY <2>3 DEF Held
  <2> QED BY <2>2, <2>3, <2>4
<1> QED BY <1>1, <1>3, <1>4, <1>5

LEMMA ReanalyseHereKeeps == DocInv /\ PageInv /\ ReanalyseHere => DocInv' /\ Grows /\ Fate /\ PageInv'
<1> SUFFICES ASSUME DocInv, PageInv, ReanalyseHere PROVE DocInv' /\ Grows /\ Fate /\ PageInv'
  OBVIOUS
<1> USE DEF PageInv
<1>1. PICK s \in Servers : Reanalyse(s)
  BY DEF ReanalyseHere
<1>2. DocInv' /\ Grows
  BY <1>1, ReanalyseKeeps
<1>3. Fate
  BY <1>1, DocFate DEF Next
<1>4. PICK pc \in {"load", "rest"} : viewer' = [viewer EXCEPT !.pc = pc]
  BY DEF ReanalyseHere
<1>5. ViewerOK' /\ viewer'.pc = pc /\ ShownCompleteIsWhole'
  BY <1>4 DEF ViewerOK, ShownCompleteIsWhole
<1>6. viewer.pc = "rest"
  BY DEF ReanalyseHere
<1>7. NotOpened'
  BY <1>3, <1>6 DEF NotOpened, Fate
<1>8. Held'
  BY <1>5 DEF Held
<1> QED BY <1>2, <1>3, <1>5, <1>7, <1>8

LEMMA ViewerStepKeeps ==
  DocInv /\ PageInv /\ [ViewerNext]_<<vars, viewer>> => DocInv' /\ Grows /\ Fate /\ PageInv'
<1> SUFFICES ASSUME DocInv, PageInv, [ViewerNext]_<<vars, viewer>>
             PROVE  DocInv' /\ Grows /\ Fate /\ PageInv'
  OBVIOUS
<1>1. CASE [Next]_vars /\ UNCHANGED viewer
  BY <1>1, DocStep, DocFate, PageRests
<1> QED BY <1>1, ShowKeeps, ReadKeeps, PageKeeps, ReanalyseHereKeeps, Zenon DEF ViewerNext, ViewerStep

LEMMA PageInvSound == DocInv /\ PageInv => DocumentsSound
BY TypeParts DEF DocInv, PageInv, DocumentsSound

\* A document and its page, however servers boot and stop: complete means every
\* sentence, ready means a PDF, and a page that says complete shows all claims;
\* as long as none booted beside a run, one run holds the lock and what is
\* complete is of the last analysis.
THEOREM DocumentsAreSound == ViewerSpec => []DocumentsSound
<1>1. ViewerInit => DocInv /\ PageInv
  BY PageInit
<1>2. (DocInv /\ PageInv) /\ [ViewerNext]_<<vars, viewer>> => (DocInv /\ PageInv)'
  BY ViewerStepKeeps
<1> QED BY <1>1, <1>2, PageInvSound, PTL DEF ViewerSpec

-----------------------------------------------------------------------------
(* The library.                                                            *)

Row == [kind : {"none", "youtube", "upload"}, status : {"none", "pending", "ready", "failed", "gone"}]
Downloading == [id : Ids, pc : {"download", "upload", "ready", "fail", "done"}]
Deleting == [id : Ids, key : Keys, pc : {"object", "row", "done"}]

RowsOK == rows \in [Ids -> Row] /\ \A i \in Ids : rows[i].kind = "none" <=> rows[i].status = "none"
NamesOK == objects \subseteq Keys /\ late \subseteq Keys /\ orphans \subseteq Ids
LibCountsOK == libraryStops \in 0 .. MaxLibraryStops /\ libraryFaults \in 0 .. MaxLibraryFaults
IngestsOK == ingests \in Seq(Downloading)

\* A retry is of the record the submission found.
SubmitsOK ==
  /\ submits \in [Submitters -> [pc : {"new", "resolve", "retry"}, id : 0 .. MaxRows]]
  /\ \A q \in Submitters : submits[q].pc = "retry" => submits[q].id \in Ids /\ rows[submits[q].id].kind = "youtube"

\* The browser sends and confirms the record it was given.
JobOK ==
  /\ job \in [pc : {"new", "put", "confirm", "ready", "error", "gone"}, id : 0 .. MaxRows] /\ sending \in BOOLEAN
  /\ sending \/ job.pc \in {"put", "confirm"} => job.id \in Ids /\ rows[job.id].kind = "upload"
  /\ job.pc = "new" => ~sending

\* A deletion names its record's key.
DeletesOK ==
  /\ deletes \in Seq(Deleting)
  /\ \A d \in DOMAIN deletes : rows[deletes[d].id].kind # "none" /\ deletes[d].key = Key(deletes[d].id)

OneLink == \A i, j \in Ids : Live(i) /\ Live(j) /\ rows[i].kind = "youtube" /\ rows[j].kind = "youtube" => i = j

\* Nothing but its download moves a record that is downloaded, except a deletion.
AtWork ==
  \A k \in DOMAIN ingests : Ingesting(k) =>
    rows[ingests[k].id].kind = "youtube" /\ rows[ingests[k].id].status \in {"pending", "gone"}

Sent(x) == \E d \in DOMAIN deletes : deletes[d].key = x
SweptFrom(x) == \E d \in DOMAIN deletes : deletes[d].key = x /\ deletes[d].pc # "object"

\* What a download is about to call ready is stored.
ReadyStored == \A k \in DOMAIN ingests : ingests[k].pc = "ready" => 0 \in objects \/ Sent(0)

\* A record goes after its object; a deletion about to remove a record has swept its key.
GoneSwept == \A i \in Ids : rows[i].status = "gone" => SweptFrom(Key(i))
Swept == \A d \in DOMAIN deletes : deletes[d].pc = "row" => deletes[d].key \notin objects \/ deletes[d].key \in late

LibraryInv ==
  /\ RowsOK /\ NamesOK /\ LibCountsOK /\ IngestsOK /\ SubmitsOK /\ JobOK /\ DeletesOK
  /\ OneLink /\ AtWork /\ OnePerRecord /\ ReadyStored /\ GoneSwept /\ Swept
  /\ ReadyVideoHasObject /\ StrandsOnlyLate

Final == \A i \in Ids : rows[i].status = "ready" => rows'[i].status \in {"ready", "gone"}

LEMMA LibraryInit == InitLibrary => LibraryInv
<1> SUFFICES ASSUME InitLibrary PROVE LibraryInv
  OBVIOUS
<1> USE LibraryAssumption DEF InitLibrary
<1>1. RowsOK
  BY DEF RowsOK, Row, Absent
<1>2. NamesOK /\ LibCountsOK
  BY DEF NamesOK, LibCountsOK
<1>3. IngestsOK
  BY DEF IngestsOK
<1>4. SubmitsOK
  BY DEF SubmitsOK
<1>5. JobOK
  <2>1. job = [pc |-> "new", id |-> 0] /\ sending = FALSE /\ 0 \in 0 .. MaxRows
    OBVIOUS
  <2>2. job \in [pc : {"new", "put", "confirm", "ready", "error", "gone"}, id : 0 .. MaxRows] /\ job.pc = "new"
    BY <2>1
  <2>3. sending \in BOOLEAN
    BY <2>1
  <2> QED BY <2>1, <2>2, <2>3, Zenon DEF JobOK
<1>6. DeletesOK
  BY DEF DeletesOK
<1>7. OneLink /\ GoneSwept /\ ReadyVideoHasObject
  BY DEF OneLink, GoneSwept, ReadyVideoHasObject, Live, Absent
<1>8. AtWork /\ OnePerRecord /\ ReadyStored /\ Swept /\ StrandsOnlyLate
  BY DEF AtWork, OnePerRecord, ReadyStored, Swept, StrandsOnlyLate
<1> QED BY <1>1, <1>2, <1>3, <1>4, <1>5, <1>6, <1>7, <1>8 DEF LibraryInv

\* What a step leaves alone keeps its part of the invariant.
LEMMA LibraryKept ==
  ASSUME LibraryInv
  PROVE  /\ UNCHANGED rows => RowsOK' /\ OneLink' /\ Final
         /\ UNCHANGED <<objects, late, orphans>> => NamesOK'
         /\ UNCHANGED <<libraryStops, libraryFaults>> => LibCountsOK'
         /\ UNCHANGED ingests => IngestsOK' /\ OnePerRecord'
         /\ UNCHANGED <<rows, ingests>> => AtWork'
         /\ UNCHANGED <<rows, submits>> => SubmitsOK'
         /\ UNCHANGED <<rows, job, sending>> => JobOK'
         /\ UNCHANGED <<rows, deletes>> => DeletesOK' /\ GoneSwept'
         /\ UNCHANGED <<ingests, objects, deletes>> => ReadyStored'
         /\ UNCHANGED <<deletes, objects, late>> => Swept'
         /\ UNCHANGED <<rows, objects, deletes>> => ReadyVideoHasObject'
         /\ UNCHANGED <<rows, objects, late>> => StrandsOnlyLate'
<1> USE DEF LibraryInv
<1>1. UNCHANGED rows => RowsOK' /\ OneLink' /\ Final
  BY DEF RowsOK, OneLink, Final, Live
<1>2. UNCHANGED <<objects, late, orphans>> => NamesOK'
  BY DEF NamesOK
<1>3. UNCHANGED <<libraryStops, libraryFaults>> => LibCountsOK'
  BY DEF LibCountsOK
<1>4. UNCHANGED ingests => IngestsOK' /\ OnePerRecord'
  BY DEF IngestsOK, OnePerRecord, Ingesting
<1>5. UNCHANGED <<rows, ingests>> => AtWork'
  BY DEF AtWork, Ingesting
<1>6. UNCHANGED <<rows, submits>> => SubmitsOK'
  BY DEF SubmitsOK
<1>7. UNCHANGED <<rows, job, sending>> => JobOK'
  BY DEF JobOK
<1>8. UNCHANGED <<rows, deletes>> => DeletesOK' /\ GoneSwept'
  BY DEF DeletesOK, GoneSwept, SweptFrom, Key
<1>9. UNCHANGED <<ingests, objects, deletes>> => ReadyStored'
  BY DEF ReadyStored, Sent
<1>10. UNCHANGED <<deletes, objects, late>> => Swept'
  BY DEF Swept
<1>11. UNCHANGED <<rows, objects, deletes>> => ReadyVideoHasObject'
  BY DEF ReadyVideoHasObject, Key
<1>12. UNCHANGED <<rows, objects, late>> => StrandsOnlyLate'
  BY DEF StrandsOnlyLate, Referred, Live, Key
<1> QED BY <1>1, <1>2, <1>3, <1>4, <1>5, <1>6, <1>7, <1>8, <1>9, <1>10, <1>11, <1>12

LEMMA FaultsBounded == LibraryInv /\ (LibraryFault \/ NoLibraryFault) /\ UNCHANGED libraryStops => LibCountsOK'
BY LibraryAssumption DEF LibraryInv, LibCountsOK, LibraryFault, NoLibraryFault

\* A status is written.
LEMMA RowSet ==
  ASSUME LibraryInv, NEW i \in Ids, NEW status \in {"pending", "ready", "failed", "gone"}, rows[i].kind # "none",
         Set(i, status)
  PROVE  /\ RowsOK'
         /\ \A j \in Ids : rows'[j].kind = rows[j].kind /\ rows'[j].status = IF j = i THEN status ELSE rows[j].status
<1>1. rows \in [Ids -> Row]
  BY DEF LibraryInv, RowsOK
<1>2. rows' = [rows EXCEPT ![i] = [kind |-> rows[i].kind, status |-> status]]
  <2>1. rows' = [rows EXCEPT ![i] = [rows[i] EXCEPT !.status = status]]
    BY Zenon DEF Set
  <2>2. rows[i] \in Row
    BY <1>1
  <2>3. [rows[i] EXCEPT !.status = status] = [kind |-> rows[i].kind, status |-> status]
    BY <2>2 DEF Row
  <2> QED BY <2>1, <2>3
<1>3. [kind |-> rows[i].kind, status |-> status] \in Row
  BY <1>1 DEF Row
<1>4. rows' \in [Ids -> Row]
  BY <1>1, <1>2, <1>3
<1>5. \A j \in Ids : rows'[j].kind = rows[j].kind /\ rows'[j].status = IF j = i THEN status ELSE rows[j].status
  BY <1>1, <1>2
<1> QED BY <1>4, <1>5 DEF LibraryInv, RowsOK

\* A record is inserted.
LEMMA RowNew ==
  ASSUME LibraryInv, NEW i \in Ids, NextId(i), NEW kind \in {"youtube", "upload"},
         rows' = [rows EXCEPT ![i] = [kind |-> kind, status |-> "pending"]]
  PROVE  /\ RowsOK' /\ rows[i].kind = "none" /\ rows[i].status = "none"
         /\ rows'[i].kind = kind /\ rows'[i].status = "pending"
         /\ \A j \in Ids \ {i} : rows'[j] = rows[j]
<1>1. rows \in [Ids -> Row]
  BY DEF LibraryInv, RowsOK
<1>2. rows[i] = Absent
  BY DEF NextId, Ids
<1>3. [kind |-> kind, status |-> "pending"] \in Row
  BY DEF Row
<1>4. rows' \in [Ids -> Row] /\ rows'[i].kind = kind /\ rows'[i].status = "pending" /\ \A j \in Ids \ {i} : rows'[j] = rows[j]
  BY <1>1, <1>3
<1> QED BY <1>2, <1>4 DEF LibraryInv, RowsOK, Absent

\* A record keeps its kind once it exists, and so its key.
LEMMA KindsKeep ==
  ASSUME LibraryInv, \A i \in Ids : rows[i].kind # "none" => rows'[i].kind = rows[i].kind
  PROVE  /\ \A i \in Ids : rows[i].kind # "none" => Key(i)' = Key(i)
         /\ UNCHANGED submits => SubmitsOK'
         /\ UNCHANGED <<job, sending>> => JobOK'
         /\ UNCHANGED deletes => DeletesOK'
<1> USE DEF LibraryInv
<1>1. \A i \in Ids : rows[i].kind # "none" => Key(i)' = Key(i)
  BY DEF Key
<1>2. UNCHANGED submits => SubmitsOK'
  BY DEF SubmitsOK
<1>3. UNCHANGED <<job, sending>> => JobOK'
  BY DEF JobOK
<1>4. ASSUME UNCHANGED deletes PROVE DeletesOK'
  <2>1. deletes \in Seq(Deleting) /\ DOMAIN deletes = 1 .. Len(deletes)
    BY DEF DeletesOK
  <2>2. \A d \in DOMAIN deletes : deletes[d] \in Deleting
    BY <2>1
  <2>3. \A d \in DOMAIN deletes : deletes[d].id \in Ids
    BY <2>2 DEF Deleting
  <2> QED BY <1>1, <1>4, <2>3 DEF DeletesOK
<1> QED BY <1>1, <1>2, <1>3, <1>4

LEMMA IngestSet ==
  ASSUME LibraryInv, NEW k \in DOMAIN ingests, NEW pc \in {"download", "upload", "ready", "fail", "done"}, Ingest(k, pc)
  PROVE  /\ IngestsOK' /\ DOMAIN ingests' = DOMAIN ingests
         /\ \A m \in DOMAIN ingests : ingests'[m].id = ingests[m].id /\ ingests'[m].pc = IF m = k THEN pc ELSE ingests[m].pc
<1>1. ingests \in Seq(Downloading) /\ k \in 1 .. Len(ingests)
  BY DEF LibraryInv, IngestsOK
<1>2. ingests[k] \in Downloading
  BY <1>1
<1>3. ingests' = [ingests EXCEPT ![k] = [id |-> ingests[k].id, pc |-> pc]] /\ [id |-> ingests[k].id, pc |-> pc] \in Downloading
  <2>1. ingests' = [ingests EXCEPT ![k] = [ingests[k] EXCEPT !.pc = pc]]
    BY Zenon DEF Ingest
  <2>2. [ingests[k] EXCEPT !.pc = pc] = [id |-> ingests[k].id, pc |-> pc] /\ [id |-> ingests[k].id, pc |-> pc] \in Downloading
    BY <1>2 DEF Downloading
  <2> QED BY <2>1, <2>2
<1>4. ingests' \in Seq(Downloading)
  BY <1>1, <1>3, ExceptSeq
<1>5. \A m \in DOMAIN ingests : ingests'[m].id = ingests[m].id /\ ingests'[m].pc = IF m = k THEN pc ELSE ingests[m].pc
  BY <1>1, <1>3
<1>6. DOMAIN ingests' = DOMAIN ingests
  BY <1>3
<1> QED BY <1>4, <1>5, <1>6 DEF IngestsOK

LEMMA DeleteSet ==
  ASSUME LibraryInv, NEW d \in DOMAIN deletes, NEW pc \in {"object", "row", "done"}, Delete(d, pc)
  PROVE  /\ deletes' \in Seq(Deleting) /\ DOMAIN deletes' = DOMAIN deletes
         /\ \A m \in DOMAIN deletes : /\ deletes'[m].id = deletes[m].id /\ deletes'[m].key = deletes[m].key
                                      /\ deletes'[m].pc = IF m = d THEN pc ELSE deletes[m].pc
<1>1. deletes \in Seq(Deleting) /\ d \in 1 .. Len(deletes)
  BY DEF LibraryInv, DeletesOK
<1>2. deletes[d] \in Deleting
  BY <1>1
<1> DEFINE new == [id |-> deletes[d].id, key |-> deletes[d].key, pc |-> pc]
<1>3. deletes' = [deletes EXCEPT ![d] = new] /\ new \in Deleting
  <2>1. deletes' = [deletes EXCEPT ![d] = [deletes[d] EXCEPT !.pc = pc]]
    BY Zenon DEF Delete
  <2>2. [deletes[d] EXCEPT !.pc = pc] = new /\ new \in Deleting
    BY <1>2 DEF Deleting
  <2> QED BY <2>1, <2>2
<1>4. deletes' \in Seq(Deleting)
  BY <1>1, <1>3, ExceptSeq
<1>5. \A m \in DOMAIN deletes : /\ deletes'[m].id = deletes[m].id /\ deletes'[m].key = deletes[m].key
                                /\ deletes'[m].pc = IF m = d THEN pc ELSE deletes[m].pc
  BY <1>1, <1>3
<1>6. DOMAIN deletes' = DOMAIN deletes
  BY <1>3
<1> QED BY <1>4, <1>5, <1>6

\* A record that is not deleted moves: nothing that looks at what is live sees it.
LEMMA LiveSet ==
  ASSUME LibraryInv, NEW i \in Ids, Live(i), NEW status \in {"pending", "ready", "failed"}, Set(i, status),
         UNCHANGED <<objects, late, deletes>>,
         status = "ready" => Key(i) \in objects \/ Sent(Key(i)),
         rows[i].status = "ready" => status = "ready"
  PROVE  /\ RowsOK' /\ OneLink' /\ GoneSwept' /\ ReadyVideoHasObject' /\ StrandsOnlyLate' /\ DeletesOK' /\ Swept' /\ Final
         /\ \A j \in Ids : rows'[j].kind = rows[j].kind /\ rows'[j].status = IF j = i THEN status ELSE rows[j].status
<1> USE DEF LibraryInv
<1>1. rows[i].kind # "none"
  BY DEF RowsOK, Live
<1>2. /\ RowsOK'
      /\ \A j \in Ids : rows'[j].kind = rows[j].kind /\ rows'[j].status = IF j = i THEN status ELSE rows[j].status
  BY <1>1, RowSet
<1>3. \A j \in Ids : (Live(j)' <=> Live(j)) /\ Key(j)' = Key(j)
  BY <1>2 DEF Live, Key
<1>4. OneLink'
  BY <1>2, <1>3 DEF OneLink
<1>5. GoneSwept'
  BY <1>2, <1>3 DEF GoneSwept, SweptFrom
<1>6. ReadyVideoHasObject'
  <2> SUFFICES ASSUME NEW j \in Ids, rows'[j].status = "ready"
               PROVE  Key(j) \in objects \/ \E d \in DOMAIN deletes : deletes[d].key = Key(j)
    BY <1>3 DEF ReadyVideoHasObject
  <2>1. CASE j = i
    BY <1>2, <2>1 DEF Sent
  <2>2. CASE j # i
    BY <1>2, <2>2 DEF ReadyVideoHasObject
  <2> QED BY <2>1, <2>2
<1>7. StrandsOnlyLate'
  BY <1>3 DEF StrandsOnlyLate, Referred
<1>8. Swept' /\ DeletesOK'
  BY <1>2, KindsKeep, LibraryKept
<1>9. Final
  BY <1>2 DEF Final
<1> QED BY <1>2, <1>4, <1>5, <1>6, <1>7, <1>8, <1>9

\* An insert is of a record nothing knows yet.
LEMMA InsertKeeps ==
  ASSUME LibraryInv, NEW i \in Ids, NextId(i), NEW kind \in {"youtube", "upload"},
         rows' = [rows EXCEPT ![i] = [kind |-> kind, status |-> "pending"]],
         kind = "youtube" => Source = {},
         UNCHANGED <<objects, late, deletes>>
  PROVE  /\ RowsOK' /\ OneLink' /\ GoneSwept' /\ ReadyVideoHasObject' /\ StrandsOnlyLate' /\ DeletesOK' /\ Swept' /\ Final
         /\ rows[i].kind = "none" /\ rows'[i].kind = kind /\ rows'[i].status = "pending"
         /\ \A j \in Ids \ {i} : rows'[j] = rows[j]
<1> USE DEF LibraryInv
<1>1. /\ RowsOK' /\ rows[i].kind = "none" /\ rows[i].status = "none"
      /\ rows'[i].kind = kind /\ rows'[i].status = "pending"
      /\ \A j \in Ids \ {i} : rows'[j] = rows[j]
  BY RowNew
<1>2. ~Live(i) /\ \A j \in Ids \ {i} : (Live(j)' <=> Live(j)) /\ Key(j)' = Key(j)
  BY <1>1 DEF Live, Key
<1>3. OneLink'
  <2>1. kind = "youtube" => \A j \in Ids : ~(Live(j) /\ rows[j].kind = "youtube")
    BY DEF Source
  <2> QED BY <1>1, <1>2, <2>1 DEF OneLink
<1>4. GoneSwept'
  BY <1>1, <1>2 DEF GoneSwept, SweptFrom
<1>5. ReadyVideoHasObject'
  BY <1>1, <1>2 DEF ReadyVideoHasObject
<1>6. StrandsOnlyLate'
  BY <1>2 DEF StrandsOnlyLate, Referred
<1>7. Swept' /\ DeletesOK'
  BY <1>1, KindsKeep, LibraryKept
<1>8. Final
  BY <1>1 DEF Final
<1> QED BY <1>1, <1>3, <1>4, <1>5, <1>6, <1>7, <1>8

\* A download starts on a pending record no other works on.
LEMMA SpawnKeeps ==
  ASSUME LibraryInv, NEW i \in Ids, SpawnIngest(i), UNCHANGED <<objects, deletes>>,
         rows'[i].kind = "youtube", rows'[i].status = "pending",
         \A k \in DOMAIN ingests : Ingesting(k) => ingests[k].id # i,
         \A j \in Ids \ {i} : rows'[j].kind = rows[j].kind /\ rows'[j].status = rows[j].status
  PROVE  IngestsOK' /\ OnePerRecord' /\ AtWork' /\ ReadyStored'
<1> USE DEF LibraryInv
<1> DEFINE n == Len(ingests)
<1>1. ingests \in Seq(Downloading) /\ n \in Nat /\ DOMAIN ingests = 1 .. n
  BY DEF IngestsOK
<1>2. [id |-> i, pc |-> "download"] \in Downloading
  BY DEF Downloading
<1>3. ingests' = Append(ingests, [id |-> i, pc |-> "download"])
  BY DEF SpawnIngest
<1>4. IngestsOK'
  BY <1>1, <1>2, <1>3 DEF IngestsOK
<1>5. /\ DOMAIN ingests' = 1 .. n + 1 /\ ingests'[n + 1].id = i /\ ingests'[n + 1].pc = "download"
      /\ \A k \in DOMAIN ingests : ingests'[k] = ingests[k]
  BY <1>1, <1>2, <1>3
<1>6. \A k \in DOMAIN ingests' : k \in DOMAIN ingests \/ k = n + 1
  BY <1>1, <1>5
<1>7. \A k \in DOMAIN ingests : ingests[k].id \in Ids
  <2>1. \A k \in DOMAIN ingests : ingests[k] \in Downloading
    BY <1>1
  <2> QED BY <2>1 DEF Downloading
<1>8. OnePerRecord'
  BY <1>5, <1>6 DEF OnePerRecord, Ingesting
<1>9. AtWork'
  BY <1>5, <1>6, <1>7 DEF AtWork, Ingesting
<1>10. ReadyStored'
  BY <1>5, <1>6 DEF ReadyStored, Sent
<1> QED BY <1>4, <1>8, <1>9, <1>10

LEMMA SubmitKeeps ==
  ASSUME LibraryInv, NEW q \in Submitters, SubmitStep(q)
  PROVE  LibraryInv' /\ Final
<1> USE DEF LibraryInv
<1>1. submits \in [Submitters -> [pc : {"new", "resolve", "retry"}, id : 0 .. MaxRows]] /\ 0 \in 0 .. MaxRows
  BY LibraryAssumption DEF SubmitsOK
<1>2. \A k \in DOMAIN ingests : Ingesting(k) =>
        rows[ingests[k].id].kind = "youtube" /\ rows[ingests[k].id].status \in {"pending", "gone"}
  BY DEF AtWork
<1>3. CASE SubmitCreate(q) /\ Source = {}
  <2>1. PICK i \in Ids : /\ NextId(i) /\ SpawnIngest(i)
                         /\ rows' = [rows EXCEPT ![i] = [kind |-> "youtube", status |-> "pending"]]
    BY <1>3 DEF SubmitCreate
  <2>2. UNCHANGED <<submits, objects, job, sending, deletes, orphans, late, libraryStops, libraryFaults>>
    BY <1>3 DEF SubmitCreate
  <2>3. /\ RowsOK' /\ OneLink' /\ GoneSwept' /\ ReadyVideoHasObject' /\ StrandsOnlyLate' /\ DeletesOK' /\ Swept' /\ Final
        /\ rows[i].kind = "none" /\ rows'[i].kind = "youtube" /\ rows'[i].status = "pending"
        /\ \A j \in Ids \ {i} : rows'[j] = rows[j]
    BY <1>3, <2>1, <2>2, InsertKeeps
  <2>4. IngestsOK' /\ OnePerRecord' /\ AtWork' /\ ReadyStored'
    BY <1>2, <2>1, <2>2, <2>3, SpawnKeeps
  <2>5. SubmitsOK' /\ JobOK' /\ NamesOK' /\ LibCountsOK'
    BY <2>2, <2>3, KindsKeep, LibraryKept
  <2> QED BY <2>3, <2>4, <2>5
<1>4. CASE SubmitCreate(q) /\ Source # {}
  <2>1. submits' = [submits EXCEPT ![q] = [pc |-> "resolve", id |-> 0]]
        /\ UNCHANGED <<rows, ingests, objects, job, sending, deletes, orphans, late, libraryStops, libraryFaults>>
    BY <1>4 DEF SubmitCreate, Submitted
  <2>2. SubmitsOK'
    BY <1>1, <2>1 DEF SubmitsOK
  <2> QED BY <2>1, <2>2, LibraryKept
<1>5. CASE SubmitResolve(q)
  <2>1. UNCHANGED <<rows, objects, ingests, job, sending, deletes, orphans, late, libraryStops, libraryFaults>>
    BY <1>5 DEF SubmitResolve
  <2>2. CASE \E i \in Source : Submitted(q, "retry", i)
    <3>1. PICK i \in Ids : rows[i].kind = "youtube" /\ submits' = [submits EXCEPT ![q] = [pc |-> "retry", id |-> i]]
      BY <2>2 DEF Source, Submitted
    <3>2. i \in 0 .. MaxRows
      BY DEF Ids
    <3>3. SubmitsOK'
      BY <1>1, <2>1, <3>1, <3>2 DEF SubmitsOK
    <3> QED BY <2>1, <3>3, LibraryKept
  <2>3. CASE Submitted(q, "new", 0)
    <3>1. SubmitsOK'
      BY <1>1, <2>1, <2>3 DEF SubmitsOK, Submitted
    <3> QED BY <2>1, <3>1, LibraryKept
  <2> QED BY <1>5, <2>2, <2>3 DEF SubmitResolve
<1>6. CASE SubmitRetry(q)
  <2>1. submits' = [submits EXCEPT ![q] = [pc |-> "new", id |-> 0]]
        /\ UNCHANGED <<objects, job, sending, deletes, orphans, late, libraryStops, libraryFaults>>
    BY <1>6 DEF SubmitRetry, Submitted
  <2>2. PICK i \in Ids : i = submits[q].id /\ rows[i].kind = "youtube"
    BY <1>6 DEF SubmitRetry, SubmitsOK
  <2>3. (\A j \in Ids : rows[j].kind # "none" => rows'[j].kind = rows[j].kind) => SubmitsOK'
    BY <1>1, <2>1 DEF SubmitsOK
  <2>4. CASE Claimable(i)
    <3>1. Set(i, "pending") /\ SpawnIngest(i) /\ Live(i) /\ rows[i].status = "failed"
      BY <1>6, <2>2, <2>4 DEF SubmitRetry, Claimable, Live
    <3>2. /\ RowsOK' /\ OneLink' /\ GoneSwept' /\ ReadyVideoHasObject' /\ StrandsOnlyLate' /\ DeletesOK' /\ Swept' /\ Final
          /\ \A j \in Ids : rows'[j].kind = rows[j].kind /\ rows'[j].status = IF j = i THEN "pending" ELSE rows[j].status
      BY <2>1, <3>1, LiveSet
    <3>3. \A k \in DOMAIN ingests : Ingesting(k) => ingests[k].id # i
      BY <1>2, <3>1
    <3>4. IngestsOK' /\ OnePerRecord' /\ AtWork' /\ ReadyStored'
      BY <2>1, <2>2, <3>1, <3>2, <3>3, SpawnKeeps
    <3>5. SubmitsOK' /\ JobOK' /\ NamesOK' /\ LibCountsOK'
      BY <2>1, <2>3, <3>2, KindsKeep, LibraryKept
    <3> QED BY <3>2, <3>4, <3>5
  <2>5. CASE ~Claimable(i)
    <3>1. UNCHANGED <<rows, ingests>>
      BY <1>6, <2>2, <2>5 DEF SubmitRetry
    <3> QED BY <2>1, <2>3, <3>1, LibraryKept
  <2> QED BY <2>4, <2>5
<1> QED BY <1>3, <1>4, <1>5, <1>6 DEF SubmitStep

\* Bytes arrive under the key of a record, or of one a deletion has been through.
LEMMA StoredKeeps ==
  ASSUME LibraryInv, NEW x \in Keys, Stored(x), UNCHANGED <<rows, deletes, orphans>>, Referred(x) \/ SweptFrom(x)
  PROVE  /\ NamesOK' /\ Swept' /\ ReadyVideoHasObject' /\ StrandsOnlyLate'
         /\ UNCHANGED ingests => ReadyStored'
<1> USE DEF LibraryInv
<1>1. objects' = objects \cup {x} /\ late \subseteq late' /\ late' \subseteq late \cup {x} /\ (SweptFrom(x) => x \in late')
  BY DEF Stored, SweptFrom
<1>2. NamesOK'
  BY <1>1 DEF NamesOK
<1>3. Swept'
  BY <1>1 DEF Swept, SweptFrom
<1>4. ReadyVideoHasObject'
  BY <1>1 DEF ReadyVideoHasObject, Key
<1>5. StrandsOnlyLate'
  BY <1>1 DEF StrandsOnlyLate, Referred, Live, Key
<1>6. UNCHANGED ingests => ReadyStored'
  BY <1>1 DEF ReadyStored, Sent
<1> QED BY <1>2, <1>3, <1>4, <1>5, <1>6

\* A record that exists is live, or a deletion has swept its key.
LEMMA KeyKnown ==
  ASSUME LibraryInv, NEW i \in Ids, rows[i].kind # "none"
  PROVE  Referred(Key(i)) \/ SweptFrom(Key(i))
<1>1. rows[i] \in Row /\ rows[i].status # "none"
  BY DEF LibraryInv, RowsOK
<1>2. Live(i) \/ rows[i].status = "gone"
  BY <1>1 DEF Row, Live
<1> QED BY <1>2 DEF LibraryInv, GoneSwept, Referred

\* A download that goes on, its record where it was.
LEMMA IngestKeeps ==
  ASSUME LibraryInv, NEW k \in DOMAIN ingests, NEW pc \in {"download", "upload", "ready", "fail", "done"}, Ingest(k, pc),
         Ingesting(k)
  PROVE  /\ IngestsOK' /\ OnePerRecord'
         /\ UNCHANGED rows => AtWork'
         /\ UNCHANGED <<objects, deletes>> /\ pc # "ready" => ReadyStored'
<1> USE DEF LibraryInv
<1>1. /\ IngestsOK' /\ DOMAIN ingests' = DOMAIN ingests
      /\ \A m \in DOMAIN ingests : ingests'[m].id = ingests[m].id /\ ingests'[m].pc = IF m = k THEN pc ELSE ingests[m].pc
  BY IngestSet
<1>2. \A m \in DOMAIN ingests : Ingesting(m)' => Ingesting(m)
  BY <1>1 DEF Ingesting
<1>3. OnePerRecord'
  BY <1>1, <1>2 DEF OnePerRecord
<1>4. UNCHANGED rows => AtWork'
  BY <1>1, <1>2 DEF AtWork
<1>5. UNCHANGED <<objects, deletes>> /\ pc # "ready" => ReadyStored'
  BY <1>1 DEF ReadyStored, Sent
<1> QED BY <1>1, <1>3, <1>4, <1>5

LEMMA IngestStepKeeps ==
  ASSUME LibraryInv, NEW k \in DOMAIN ingests, IngestStep(k)
  PROVE  LibraryInv' /\ Final
<1> USE DEF LibraryInv
<1>1. UNCHANGED <<submits, job, sending, deletes, libraryStops>>
  BY DEF IngestStep, Download, Store, Outcome, IngestOnly
<1>2. LibCountsOK'
  BY <1>1, FaultsBounded DEF IngestStep, Download, Store, Outcome
<1>3. ingests[k] \in Downloading
  <2>1. ingests \in Seq(Downloading) /\ k \in 1 .. Len(ingests)
    BY DEF IngestsOK
  <2> QED BY <2>1
<1>4. PICK i \in Ids : i = ingests[k].id
  BY <1>3 DEF Downloading
<1>5. Ingesting(k)
  BY DEF IngestStep, Download, Store, Outcome, Ingesting
<1>6. rows[i].kind = "youtube" /\ rows[i].status \in {"pending", "gone"}
  BY <1>4, <1>5 DEF AtWork
<1>7. CASE Download(k) \/ (Store(k) /\ NotStored /\ Ingest(k, "fail"))
  <2>1. Ingest(k, "upload") \/ Ingest(k, "fail")
    BY <1>7 DEF Download
  <2>2. UNCHANGED <<rows, orphans, objects, late>>
    BY <1>7 DEF Download, Store, NotStored
  <2>3. IngestsOK' /\ OnePerRecord' /\ AtWork' /\ ReadyStored'
    BY <1>1, <1>5, <2>1, <2>2, IngestKeeps
  <2> QED BY <1>1, <1>2, <2>2, <2>3, LibraryKept
<1>8. CASE Stored(0) /\ Ingest(k, "ready") /\ UNCHANGED <<rows, orphans>>
  <2>1. 0 \in Keys /\ (Referred(0) \/ SweptFrom(0))
    BY <1>6, KeyKnown, LibraryAssumption DEF Key, Keys
  <2>2. NamesOK' /\ Swept' /\ ReadyVideoHasObject' /\ StrandsOnlyLate'
    BY <1>1, <1>8, <2>1, StoredKeeps
  <2>3. IngestsOK' /\ OnePerRecord' /\ AtWork'
    BY <1>1, <1>5, <1>8, IngestKeeps
  <2>4. ReadyStored'
    BY <1>8 DEF ReadyStored, Stored
  <2> QED BY <1>1, <1>2, <1>8, <2>2, <2>3, <2>4, LibraryKept
<1>9. CASE Outcome(k)
  <2>1. Ingest(k, "done") /\ UNCHANGED <<objects, late>> /\ ingests[k].pc \in {"ready", "fail"}
    BY <1>9 DEF Outcome, NotStored
  <2>2. IngestsOK' /\ OnePerRecord' /\ ReadyStored' /\ (UNCHANGED rows => AtWork')
    BY <1>1, <1>5, <2>1, IngestKeeps
  <2>3. NamesOK'
    BY <1>4, <1>9, <2>1 DEF Outcome, NamesOK
  <2>4. CASE UNCHANGED rows
    BY <1>1, <1>2, <2>1, <2>2, <2>3, <2>4, LibraryKept
  <2>5. ASSUME Live(i), Set(i, IF ingests[k].pc = "ready" THEN "ready" ELSE "failed") PROVE LibraryInv' /\ Final
    <3>1. PICK status \in {"ready", "failed"} : status = IF ingests[k].pc = "ready" THEN "ready" ELSE "failed"
      OBVIOUS
    <3>2. Key(i) = 0 /\ rows[i].status = "pending" /\ (status = "ready" => 0 \in objects \/ Sent(0))
      BY <1>6, <2>5, <3>1 DEF Live, Key, ReadyStored
    <3>3. /\ RowsOK' /\ OneLink' /\ GoneSwept' /\ ReadyVideoHasObject' /\ StrandsOnlyLate' /\ DeletesOK' /\ Swept' /\ Final
          /\ \A j \in Ids : rows'[j].kind = rows[j].kind /\ rows'[j].status = IF j = i THEN status ELSE rows[j].status
      <4>1. Set(i, status) /\ UNCHANGED <<objects, late, deletes>>
        BY <1>1, <2>1, <2>5, <3>1
      <4> QED BY <2>5, <3>2, <4>1, LiveSet
    <3>4. AtWork'
      <4> SUFFICES ASSUME NEW m \in DOMAIN ingests', Ingesting(m)'
                   PROVE  rows'[ingests'[m].id].kind = "youtube" /\ rows'[ingests'[m].id].status \in {"pending", "gone"}
        BY DEF AtWork
      <4>1. /\ m \in DOMAIN ingests /\ ingests'[m].id = ingests[m].id
            /\ ingests'[m].pc = IF m = k THEN "done" ELSE ingests[m].pc
        BY <2>1, IngestSet
      <4>2. m # k /\ Ingesting(m)
        BY <4>1 DEF Ingesting
      <4>3. ingests[m].id # i
        BY <1>4, <1>5, <4>1, <4>2 DEF OnePerRecord
      <4>4. ingests[m].id \in Ids
        <5>1. ingests \in Seq(Downloading) /\ m \in 1 .. Len(ingests)
          BY <4>1 DEF IngestsOK
        <5>2. ingests[m] \in Downloading
          BY <5>1
        <5> QED BY <5>2 DEF Downloading
      <4> QED BY <3>3, <4>1, <4>2, <4>3, <4>4 DEF AtWork
    <3>5. SubmitsOK' /\ JobOK'
      BY <1>1, <3>3, KindsKeep
    <3> QED BY <1>2, <2>2, <2>3, <3>3, <3>4, <3>5
  <2> QED BY <1>4, <1>9, <2>4, <2>5 DEF Outcome
<1> QED BY <1>7, <1>8, <1>9 DEF IngestStep, Store

\* A record no download works on may change.
LEMMA WorkElsewhere ==
  ASSUME LibraryInv, UNCHANGED ingests, NEW i \in Ids, rows[i].kind # "youtube",
         \A j \in Ids \ {i} : rows'[j].kind = rows[j].kind /\ rows'[j].status = rows[j].status
  PROVE  AtWork'
<1> SUFFICES ASSUME NEW k \in DOMAIN ingests, Ingesting(k)
             PROVE  rows'[ingests[k].id].kind = "youtube" /\ rows'[ingests[k].id].status \in {"pending", "gone"}
  BY DEF AtWork, Ingesting
<1>1. rows[ingests[k].id].kind = "youtube" /\ rows[ingests[k].id].status \in {"pending", "gone"}
  BY DEF LibraryInv, AtWork
<1>2. ingests \in Seq(Downloading) /\ k \in 1 .. Len(ingests)
  BY DEF LibraryInv, IngestsOK
<1>3. ingests[k] \in Downloading
  BY <1>2
<1>4. ingests[k].id \in Ids
  BY <1>3 DEF Downloading
<1> QED BY <1>1, <1>4

LEMMA JobMoves ==
  ASSUME LibraryInv, NEW pc \in {"put", "confirm", "ready", "error", "gone"}, Job(pc),
         sending' = sending \/ sending' = FALSE,
         job.pc = "new" => ~sending',
         pc \in {"put", "confirm"} => sending \/ job.pc \in {"put", "confirm"}
  PROVE  /\ job'.id = job.id /\ job'.pc = pc
         /\ UNCHANGED rows => JobOK'
         /\ (\A i \in Ids : rows[i].kind # "none" => rows'[i].kind = rows[i].kind) => JobOK'
<1>1. job \in [pc : {"new", "put", "confirm", "ready", "error", "gone"}, id : 0 .. MaxRows]
  BY DEF LibraryInv, JobOK
<1>2. sending' \in BOOLEAN
  BY DEF LibraryInv, JobOK
<1>3. job' = [job EXCEPT !.pc = pc]
  BY DEF Job
<1>4. job' \in [pc : {"new", "put", "confirm", "ready", "error", "gone"}, id : 0 .. MaxRows] /\ job'.id = job.id /\ job'.pc = pc
  BY <1>1, <1>3
<1>5. sending' \/ job'.pc \in {"put", "confirm"} => job.id \in Ids /\ rows[job.id].kind = "upload"
  BY <1>4 DEF LibraryInv, JobOK
<1>6. ASSUME \A i \in Ids : rows[i].kind # "none" => rows'[i].kind = rows[i].kind PROVE JobOK'
  BY <1>2, <1>4, <1>5, <1>6 DEF JobOK
<1> QED BY <1>4, <1>6

LEMMA JobKeeps ==
  ASSUME LibraryInv, JobRequest \/ Arrive \/ Break \/ JobConfirm \/ Dismiss
  PROVE  LibraryInv' /\ Final
<1> USE DEF LibraryInv
<1>1. UNCHANGED <<submits, ingests, deletes, orphans, libraryStops>>
  BY DEF JobRequest, Arrive, Break, JobConfirm, Dismiss, JobOnly
<1>2. LibCountsOK'
  <2>1. LibraryFault \/ NoLibraryFault
    BY DEF JobRequest, Arrive, Break, JobConfirm, Dismiss, NoLibraryFault
  <2> QED BY <1>1, <2>1, FaultsBounded
<1>3. CASE JobRequest
  <2>1. UNCHANGED <<objects, late>> /\ job.pc = "new" /\ ~sending
    BY <1>3 DEF JobRequest, NotStored, JobOK
  <2>2. PICK i \in Ids :
          /\ NextId(i) /\ rows' = [rows EXCEPT ![i] = [kind |-> "upload", status |-> "pending"]]
          /\ (job' = [pc |-> "put", id |-> i] /\ sending' = TRUE) \/ (Job("error") /\ UNCHANGED sending)
    BY <1>3 DEF JobRequest
  <2>3. /\ RowsOK' /\ OneLink' /\ GoneSwept' /\ ReadyVideoHasObject' /\ StrandsOnlyLate' /\ DeletesOK' /\ Swept' /\ Final
        /\ rows[i].kind = "none" /\ rows'[i].kind = "upload" /\ rows'[i].status = "pending"
        /\ \A j \in Ids \ {i} : rows'[j] = rows[j]
    BY <1>1, <2>1, <2>2, InsertKeeps
  <2>4. AtWork' /\ SubmitsOK'
    BY <1>1, <2>3, WorkElsewhere, KindsKeep
  <2>5. JobOK'
    <3>1. CASE job' = [pc |-> "put", id |-> i] /\ sending' = TRUE
      <4>1. i \in 0 .. MaxRows
        BY DEF Ids
      <4>2. job' \in [pc : {"new", "put", "confirm", "ready", "error", "gone"}, id : 0 .. MaxRows]
            /\ job'.pc = "put" /\ job'.id = i
        BY <3>1, <4>1
      <4>3. sending' \in BOOLEAN
        BY <3>1
      <4> QED BY <2>3, <4>2, <4>3 DEF JobOK
    <3>2. CASE Job("error") /\ UNCHANGED sending
      BY <2>1, <2>3, <3>2, JobMoves
    <3> QED BY <2>2, <3>1, <3>2
  <2> QED BY <1>1, <1>2, <2>1, <2>3, <2>4, <2>5, LibraryKept
<1>4. CASE Arrive \/ Break \/ Dismiss
  <2>1. UNCHANGED rows /\ (sending' = FALSE \/ UNCHANGED sending)
    BY <1>4 DEF Arrive, Break, Dismiss
  <2>2. JobOK'
    <3>1. CASE UNCHANGED job /\ sending' = FALSE
      BY <2>1, <3>1 DEF JobOK
    <3>2. CASE Job("confirm") /\ job.pc = "put"
      BY <2>1, <3>2, JobMoves DEF JobOK
    <3>3. CASE (Job("error") \/ Job("gone")) /\ job.pc \in {"put", "confirm"}
      BY <2>1, <3>3, JobMoves DEF JobOK
    <3> QED BY <1>4, <2>1, <3>1, <3>2, <3>3 DEF Arrive, Break, Dismiss
  <2>3. NamesOK' /\ Swept' /\ ReadyVideoHasObject' /\ StrandsOnlyLate' /\ ReadyStored'
    <3>1. CASE UNCHANGED <<objects, late>>
      BY <1>1, <2>1, <3>1, LibraryKept
    <3>2. CASE Arrive
      <4>1. job.id \in Ids /\ rows[job.id].kind = "upload" /\ Stored(job.id)
        BY <3>2 DEF Arrive, JobOK
      <4>2. job.id \in Keys /\ Key(job.id) = job.id
        BY <4>1 DEF Key, Keys, Ids
      <4> QED BY <1>1, <2>1, <4>1, <4>2, KeyKnown, StoredKeeps
    <3> QED BY <1>4, <3>1, <3>2 DEF Break, Dismiss, NotStored
  <2> QED BY <1>1, <1>2, <2>1, <2>2, <2>3, LibraryKept
<1>5. CASE JobConfirm
  <2>1. UNCHANGED <<objects, late, sending>> /\ job.pc = "confirm" /\ (Job("ready") \/ Job("error"))
    BY <1>5 DEF JobConfirm, NotStored
  <2>2. PICK i \in Ids : i = job.id /\ rows[i].kind = "upload"
    BY <2>1 DEF JobOK
  <2>3. (\A j \in Ids : rows[j].kind # "none" => rows'[j].kind = rows[j].kind) => JobOK'
    BY <2>1, JobMoves
  <2>4. CASE UNCHANGED rows
    BY <1>1, <1>2, <2>1, <2>3, <2>4, LibraryKept
  <2>5. CASE Confirmable(i) /\ Set(i, "ready")
    <3>1. Live(i) /\ (Key(i) \in objects \/ Sent(Key(i)))
      BY <2>5 DEF Confirmable, ReadyVideoHasObject, Sent
    <3>2. /\ RowsOK' /\ OneLink' /\ GoneSwept' /\ ReadyVideoHasObject' /\ StrandsOnlyLate' /\ DeletesOK' /\ Swept' /\ Final
          /\ \A j \in Ids : rows'[j].kind = rows[j].kind /\ rows'[j].status = IF j = i THEN "ready" ELSE rows[j].status
      BY <1>1, <2>1, <2>5, <3>1, LiveSet
    <3>3. AtWork' /\ SubmitsOK' /\ JobOK'
      BY <1>1, <2>2, <2>3, <3>2, WorkElsewhere, KindsKeep
    <3> QED BY <1>1, <1>2, <2>1, <3>2, <3>3, LibraryKept
  <2> QED BY <1>5, <2>2, <2>4, <2>5 DEF JobConfirm
<1> QED BY <1>3, <1>4, <1>5

LEMMA ConfirmKeeps ==
  ASSUME LibraryInv, NEW i \in Ids, Confirm(i)
  PROVE  LibraryInv' /\ Final
<1> USE DEF LibraryInv
<1>1. UNCHANGED <<job, sending, objects, late, libraryFaults, submits, ingests, deletes, orphans, libraryStops>>
  BY DEF Confirm, NotStored, NoLibraryFault, JobOnly
<1>2. rows[i].kind = "upload" /\ Live(i) /\ (Key(i) \in objects \/ Sent(Key(i))) /\ Set(i, "ready")
  BY DEF Confirm, Confirmable, ReadyVideoHasObject, Sent
<1>3. /\ RowsOK' /\ OneLink' /\ GoneSwept' /\ ReadyVideoHasObject' /\ StrandsOnlyLate' /\ DeletesOK' /\ Swept' /\ Final
      /\ \A j \in Ids : rows'[j].kind = rows[j].kind /\ rows'[j].status = IF j = i THEN "ready" ELSE rows[j].status
  BY <1>1, <1>2, LiveSet
<1>4. AtWork' /\ SubmitsOK' /\ JobOK'
  BY <1>1, <1>2, <1>3, WorkElsewhere, KindsKeep
<1> QED BY <1>1, <1>3, <1>4, LibraryKept

LEMMA DeleteReadsKeeps ==
  ASSUME LibraryInv, NEW i \in Ids, DeleteReadsVideo(i)
  PROVE  LibraryInv' /\ Final
<1> USE DEF LibraryInv
<1>1. UNCHANGED <<rows, objects, libraryFaults, submits, ingests, job, sending, orphans, late, libraryStops>>
  BY DEF DeleteReadsVideo, NoLibraryFault, DeleteOnly
<1> DEFINE n == Len(deletes)
           new == [pc |-> "object", id |-> i, key |-> Key(i)]
<1>2. deletes \in Seq(Deleting) /\ n \in Nat /\ DOMAIN deletes = 1 .. n
  BY DEF DeletesOK
<1>3. rows[i].kind # "none"
  BY DEF DeleteReadsVideo, Live, RowsOK
<1>4. Key(i) \in Keys
  BY LibraryAssumption DEF Key, Keys, Ids
<1>5. new \in Deleting
  BY <1>4 DEF Deleting
<1>6. deletes' = Append(deletes, new)
  BY DEF DeleteReadsVideo
<1>7. deletes' \in Seq(Deleting)
  BY <1>2, <1>5, <1>6
<1>8. /\ DOMAIN deletes' = 1 .. n + 1 /\ deletes'[n + 1] = new /\ \A d \in DOMAIN deletes : d \in DOMAIN deletes' /\ deletes'[d] = deletes[d]
      /\ \A d \in DOMAIN deletes' : d \in DOMAIN deletes \/ d = n + 1
  BY <1>2, <1>6
<1>9. DeletesOK'
  <2>1. \A d \in DOMAIN deletes' : rows[deletes'[d].id].kind # "none" /\ deletes'[d].key = Key(deletes'[d].id)
    BY <1>3, <1>8 DEF DeletesOK
  <2> QED BY <1>1, <1>7, <2>1 DEF DeletesOK, Key
<1>10. \A x : (Sent(x) => Sent(x)') /\ (SweptFrom(x) => SweptFrom(x)')
  BY <1>8 DEF Sent, SweptFrom
<1>11. GoneSwept'
  BY <1>1, <1>10 DEF GoneSwept, Key
<1>12. ReadyStored'
  BY <1>1, <1>10 DEF ReadyStored
<1>13. ReadyVideoHasObject'
  BY <1>1, <1>10 DEF ReadyVideoHasObject, Key, Sent
<1>14. Swept'
  BY <1>1, <1>8 DEF Swept
<1> QED BY <1>1, <1>9, <1>11, <1>12, <1>13, <1>14, LibraryKept

LEMMA DeleteStepKeeps ==
  ASSUME LibraryInv, NEW d \in DOMAIN deletes, DeleteVideoObject(d) \/ DeleteVideoRow(d)
  PROVE  LibraryInv' /\ Final
<1> USE DEF LibraryInv
<1>1. UNCHANGED <<submits, ingests, job, sending, orphans, late, libraryStops>>
  BY DEF DeleteVideoObject, DeleteVideoRow, DeleteOnly
<1>2. LibCountsOK'
  BY <1>1, FaultsBounded DEF DeleteVideoObject, DeleteVideoRow
<1>3. deletes[d] \in Deleting
  <2>1. deletes \in Seq(Deleting) /\ d \in 1 .. Len(deletes)
    BY DEF DeletesOK
  <2> QED BY <2>1
<1>4. PICK i \in Ids : i = deletes[d].id /\ rows[i].kind # "none" /\ deletes[d].key = Key(i)
  BY <1>3 DEF DeletesOK, Deleting
<1>5. PICK pc \in {"row", "done"} : Delete(d, pc) /\ (pc = "row" => DeleteVideoObject(d) /\ objects' = objects \ {deletes[d].key})
  BY DEF DeleteVideoObject, DeleteVideoRow
<1>6. /\ deletes' \in Seq(Deleting) /\ DOMAIN deletes' = DOMAIN deletes
      /\ \A m \in DOMAIN deletes : /\ deletes'[m].id = deletes[m].id /\ deletes'[m].key = deletes[m].key
                                   /\ deletes'[m].pc = IF m = d THEN pc ELSE deletes[m].pc
  BY <1>5, DeleteSet
<1>7. \A m \in DOMAIN deletes : deletes[m].id \in Ids
  <2>1. deletes \in Seq(Deleting) /\ DOMAIN deletes = 1 .. Len(deletes)
    BY DEF DeletesOK
  <2>2. \A m \in DOMAIN deletes : deletes[m] \in Deleting
    BY <2>1
  <2> QED BY <2>2 DEF Deleting
<1>8. \A x : (Sent(x) => Sent(x)') /\ (SweptFrom(x) => SweptFrom(x)')
  BY <1>6 DEF Sent, SweptFrom
<1>9. \E m \in DOMAIN deletes' : deletes'[m].key = Key(i) /\ deletes'[m].pc # "object"
  BY <1>4, <1>5, <1>6
<1>10. objects' \subseteq objects /\ objects \subseteq objects' \cup {deletes[d].key}
  BY DEF DeleteVideoObject, DeleteVideoRow
<1>11. NamesOK'
  BY <1>1, <1>10 DEF NamesOK
<1>12. Swept'
  BY <1>1, <1>5, <1>6, <1>10 DEF Swept
<1>13. ReadyStored'
  <2>1. \A k \in DOMAIN ingests : ingests[k].pc = "ready" => 0 \in objects \/ Sent(0)
    BY DEF ReadyStored
  <2>2. 0 \in objects \/ Sent(0) => 0 \in objects' \/ Sent(0)'
    BY <1>4, <1>8, <1>9, <1>10 DEF Sent
  <2> QED BY <1>1, <2>1, <2>2 DEF ReadyStored
<1>14. CASE UNCHANGED rows
  <2>1. DeletesOK'
    BY <1>6, <1>14 DEF DeletesOK, Key
  <2>2. GoneSwept'
    BY <1>8, <1>14 DEF GoneSwept, Key
  <2>3. ReadyVideoHasObject'
    BY <1>4, <1>8, <1>9, <1>10, <1>14 DEF ReadyVideoHasObject, Key, Sent
  <2>4. StrandsOnlyLate'
    BY <1>1, <1>10, <1>14 DEF StrandsOnlyLate, Referred, Live, Key
  <2> QED BY <1>1, <1>2, <1>11, <1>12, <1>13, <1>14, <2>1, <2>2, <2>3, <2>4, LibraryKept
<1>15. CASE DeleteVideoRow(d) /\ Set(i, "gone")
  <2>1. /\ RowsOK'
        /\ \A j \in Ids : rows'[j].kind = rows[j].kind /\ rows'[j].status = IF j = i THEN "gone" ELSE rows[j].status
    BY <1>4, <1>15, RowSet
  <2>2. \A j \in Ids : Key(j)' = Key(j) /\ (Live(j)' <=> Live(j) /\ j # i)
    BY <2>1 DEF Key, Live
  <2>3. UNCHANGED objects /\ deletes[d].pc = "row"
    BY <1>15 DEF DeleteVideoRow
  <2>4. DeletesOK'
    BY <1>6, <1>7, <2>1, <2>2 DEF DeletesOK
  <2>5. GoneSwept'
    BY <1>8, <1>9, <2>1, <2>2 DEF GoneSwept, SweptFrom
  <2>6. ReadyVideoHasObject'
    <3> SUFFICES ASSUME NEW j \in Ids, rows'[j].status = "ready" PROVE Key(j) \in objects \/ Sent(Key(j))'
      BY <2>2, <2>3 DEF ReadyVideoHasObject, Sent
    <3>1. Key(j) \in objects \/ Sent(Key(j))
      BY <2>1 DEF ReadyVideoHasObject, Sent
    <3> QED BY <1>8, <2>2, <3>1 DEF Sent
  <2>7. StrandsOnlyLate'
    <3> SUFFICES ASSUME NEW x \in objects, x \notin late PROVE \E j \in Ids : Live(j) /\ j # i /\ Key(j) = x
      BY <1>1, <2>2, <2>3 DEF StrandsOnlyLate, Referred
    <3>1. x # Key(i)
      BY <1>4, <2>3 DEF Swept
    <3> QED BY <3>1 DEF StrandsOnlyLate, Referred
  <2>8. OneLink'
    BY <2>1, <2>2 DEF OneLink
  <2>9. AtWork'
    <3>1. \A k \in DOMAIN ingests : ingests[k].id \in Ids
      <4>1. ingests \in Seq(Downloading) /\ DOMAIN ingests = 1 .. Len(ingests)
        BY DEF IngestsOK
      <4>2. \A k \in DOMAIN ingests : ingests[k] \in Downloading
        BY <4>1
      <4> QED BY <4>2 DEF Downloading
    <3> QED BY <1>1, <2>1, <3>1 DEF AtWork, Ingesting
  <2>10. Final /\ SubmitsOK' /\ JobOK'
    BY <1>1, <2>1, KindsKeep DEF Final
  <2> QED BY <1>1, <1>2, <1>11, <1>12, <1>13, <2>1, <2>4, <2>5, <2>6, <2>7, <2>8, <2>9, <2>10, LibraryKept
<1> QED BY <1>4, <1>14, <1>15 DEF DeleteVideoObject, DeleteVideoRow

LEMMA RestartKeeps == LibraryInv /\ Restart => LibraryInv' /\ Final
<1> SUFFICES ASSUME LibraryInv, Restart PROVE LibraryInv' /\ Final
  OBVIOUS
<1> USE DEF LibraryInv
<1>1. UNCHANGED <<rows, objects, sending, late, libraryFaults>>
  BY DEF Restart
<1>2. LibCountsOK'
  BY LibraryAssumption DEF Restart, LibCountsOK
<1>3. SubmitsOK'
  <2>1. submits' = [q \in Submitters |-> [pc |-> "new", id |-> 0]] /\ 0 \in 0 .. MaxRows
    BY LibraryAssumption DEF Restart
  <2> QED BY <2>1 DEF SubmitsOK
<1>4. ingests \in Seq(Downloading) /\ DOMAIN ingests = 1 .. Len(ingests) /\ \A k \in DOMAIN ingests : ingests[k] \in Downloading
  <2>1. ingests \in Seq(Downloading)
    BY DEF IngestsOK
  <2> QED BY <2>1
<1>5. /\ ingests' = [k \in 1 .. Len(ingests) |-> [ingests[k] EXCEPT !.pc = "done"]]
      /\ \A k \in 1 .. Len(ingests) : [ingests[k] EXCEPT !.pc = "done"] \in Downloading /\ [ingests[k] EXCEPT !.pc = "done"].pc = "done"
  BY <1>4 DEF Restart, Downloading
<1>6. /\ ingests' \in [1 .. Len(ingests) -> Downloading]
      /\ \A k \in DOMAIN ingests' : ingests'[k].pc = "done"
  BY <1>5
<1>7. IngestsOK'
  <2>1. Len(ingests) \in Nat
    BY <1>4
  <2>2. \A n \in Nat : \A f \in [1 .. n -> Downloading] : f \in Seq(Downloading)
    BY SeqDef, Zenon
  <2>3. ingests' \in Seq(Downloading)
    BY <1>6, <2>1, <2>2, Zenon
  <2> QED BY <2>3, Zenon DEF IngestsOK
<1>8. AtWork' /\ OnePerRecord' /\ ReadyStored'
  BY <1>6 DEF AtWork, OnePerRecord, ReadyStored, Ingesting
<1>9. NamesOK'
  <2>1. \A k \in DOMAIN ingests : ingests[k].id \in Ids
    BY <1>4 DEF Downloading
  <2>2. orphans' = orphans \cup {ingests[k].id : k \in {n \in DOMAIN ingests : Ingesting(n)}}
    BY DEF Restart
  <2> QED BY <1>1, <2>1, <2>2 DEF NamesOK
<1>10. deletes \in Seq(Deleting) /\ DOMAIN deletes = 1 .. Len(deletes) /\ \A d \in DOMAIN deletes : deletes[d] \in Deleting
  <2>1. deletes \in Seq(Deleting)
    BY DEF DeletesOK
  <2> QED BY <2>1
<1>11. /\ deletes' = [d \in 1 .. Len(deletes) |-> [deletes[d] EXCEPT !.pc = "done"]]
       /\ \A d \in 1 .. Len(deletes) :
            /\ [deletes[d] EXCEPT !.pc = "done"] \in Deleting /\ [deletes[d] EXCEPT !.pc = "done"].pc = "done"
            /\ [deletes[d] EXCEPT !.pc = "done"].id = deletes[d].id /\ [deletes[d] EXCEPT !.pc = "done"].key = deletes[d].key
  BY <1>10 DEF Restart, Deleting
<1>12. /\ deletes' \in [1 .. Len(deletes) -> Deleting] /\ DOMAIN deletes' = DOMAIN deletes
       /\ \A d \in DOMAIN deletes : deletes'[d].pc = "done" /\ deletes'[d].id = deletes[d].id /\ deletes'[d].key = deletes[d].key
  BY <1>10, <1>11
<1>13. deletes' \in Seq(Deleting)
  <2>1. Len(deletes) \in Nat
    BY <1>10
  <2> QED BY <1>12, <2>1, SeqDef, Zenon
<1>14. DeletesOK'
  BY <1>1, <1>12, <1>13 DEF DeletesOK, Key
<1>15. \A x : (Sent(x) => Sent(x)') /\ (SweptFrom(x) => SweptFrom(x)')
  BY <1>12 DEF Sent, SweptFrom
<1>16. GoneSwept'
  BY <1>1, <1>15 DEF GoneSwept, Key
<1>17. ReadyVideoHasObject'
  BY <1>1, <1>15 DEF ReadyVideoHasObject, Key, Sent
<1>18. Swept'
  BY <1>12 DEF Swept
<1>19. JobOK'
  <2>1. CASE job.pc = "confirm"
    <3>1. Job("error")
      BY <2>1 DEF Restart, Job
    <3> QED BY <1>1, <2>1, <3>1, JobMoves
  <2>2. CASE job.pc # "confirm"
    <3>1. job' = job
      BY <2>2 DEF Restart, JobOK
    <3> QED BY <1>1, <3>1, LibraryKept
  <2> QED BY <2>1, <2>2
<1> QED BY <1>1, <1>2, <1>3, <1>7, <1>8, <1>9, <1>14, <1>16, <1>17, <1>18, <1>19, LibraryKept

LEMMA LibraryStep == LibraryInv /\ [NextLibrary]_libraryVars => LibraryInv' /\ Final
<1> SUFFICES ASSUME LibraryInv, [NextLibrary]_libraryVars PROVE LibraryInv' /\ Final
  OBVIOUS
<1>1. CASE UNCHANGED libraryVars
  <2>1. UNCHANGED <<rows, objects, submits, ingests, job, sending, deletes, orphans, late, libraryStops, libraryFaults>>
    BY <1>1 DEF libraryVars
  <2> QED BY <2>1, LibraryKept DEF LibraryInv
<1> QED BY <1>1, SubmitKeeps, IngestStepKeeps, JobKeeps, ConfirmKeeps, DeleteReadsKeeps, DeleteStepKeeps, RestartKeeps,
           Zenon DEF NextLibrary

LEMMA LibraryInvSound == LibraryInv => LibrarySound
<1> SUFFICES ASSUME LibraryInv PROVE LibrarySound
  OBVIOUS
<1> USE DEF LibraryInv
<1>1. /\ rows \in [Ids -> [kind : {"none", "youtube", "upload"}, status : {"none", "pending", "ready", "failed", "gone"}]]
      /\ objects \subseteq Keys /\ late \subseteq Keys /\ orphans \subseteq Ids
      /\ submits \in [Submitters -> [pc : {"new", "resolve", "retry"}, id : 0 .. MaxRows]]
  BY Zenon DEF RowsOK, Row, NamesOK, SubmitsOK
<1>2. \A k \in DOMAIN ingests : ingests[k] \in [id : Ids, pc : {"download", "upload", "ready", "fail", "done"}]
  <2>1. ingests \in Seq(Downloading)
    BY DEF IngestsOK
  <2>2. \A k \in DOMAIN ingests : ingests[k] \in Downloading
    BY <2>1
  <2> QED BY <2>2, Zenon DEF Downloading
<1>3. \A d \in DOMAIN deletes : deletes[d] \in [id : Ids, key : Keys, pc : {"object", "row", "done"}]
  <2>1. deletes \in Seq(Deleting)
    BY DEF DeletesOK
  <2>2. \A d \in DOMAIN deletes : deletes[d] \in Deleting
    BY <2>1
  <2> QED BY <2>2, Zenon DEF Deleting
<1>4. job \in [pc : {"new", "put", "confirm", "ready", "error", "gone"}, id : 0 .. MaxRows] /\ sending \in BOOLEAN
      /\ libraryStops \in 0 .. MaxLibraryStops /\ libraryFaults \in 0 .. MaxLibraryFaults
  BY Zenon DEF JobOK, LibCountsOK
<1>5. \A i, j \in Ids : Live(i) /\ Live(j) /\ {rows[i].kind, rows[j].kind} = {"youtube"} => i = j
  BY DEF OneLink
<1>6. LibraryTypeOK
  BY <1>1, <1>2, <1>3, <1>4, <1>5, Zenon DEF LibraryTypeOK
<1> QED BY <1>6 DEF LibrarySound

\* Videos: one download works on a record, ready means an object is there or a
\* deletion was sent for its key, and only what arrives late is stranded.
THEOREM LibraryIsSound == LibrarySpec => []LibrarySound
<1>1. LibraryInv /\ [NextLibrary]_libraryVars => LibraryInv'
  BY LibraryStep
<1> QED BY <1>1, LibraryInit, LibraryInvSound, PTL DEF LibrarySpec

-----------------------------------------------------------------------------
(* Both together.                                                          *)

LEMMA GrowsKeeps == DocInv /\ Grows => (Exists' => \A i \in 1 .. Sentences : results[i] # 0 => results'[i] # 0)
<1> SUFFICES ASSUME DocInv, Grows, Exists', NEW i \in 1 .. Sentences, results[i] # 0, results'[i] = 0 PROVE FALSE
  OBVIOUS
<1>1. \E r \in RunIds : results'[i] = r
  BY DEF Grows
<1> QED BY <1>1 DEF RunIds

LEMMA DeskStep ==
  DocInv /\ PageInv /\ LibraryInv /\ [NextDesk]_<<part, vars, viewer, libraryVars>> =>
    DocInv' /\ PageInv' /\ LibraryInv' /\ Grows /\ Fate /\ Final
<1> SUFFICES ASSUME DocInv, PageInv, LibraryInv, [NextDesk]_<<part, vars, viewer, libraryVars>>
             PROVE  DocInv' /\ PageInv' /\ LibraryInv' /\ Grows /\ Fate /\ Final
  OBVIOUS
<1>1. [ViewerNext]_<<vars, viewer>> /\ [NextLibrary]_libraryVars
  BY Zenon DEF NextDesk, Alone, UnderPage, ViewerNext
<1> QED BY <1>1, ViewerStepKeeps, LibraryStep

LEMMA DeskInit == InitDesk => DocInv /\ PageInv /\ LibraryInv
BY PageInit, LibraryInit DEF InitDesk

\* The two parts beside each other keep what each of them keeps alone.
THEOREM DeskIsSound == DeskSpec => []DeskSound
<1>1. InitDesk => DocInv /\ PageInv /\ LibraryInv
  BY DeskInit
<1>2. (DocInv /\ PageInv /\ LibraryInv) /\ [NextDesk]_<<part, vars, viewer, libraryVars>>
        => (DocInv /\ PageInv /\ LibraryInv)'
  BY DeskStep
<1>3. DocInv /\ PageInv /\ LibraryInv => DeskSound
  BY PageInvSound, LibraryInvSound DEF DeskSound
<1> QED BY <1>1, <1>2, <1>3, PTL DEF DeskSpec

\* What was written stays: claims are replaced and never erased, an extraction
\* is stored once, a video that is ready stays so until it is deleted.
THEOREM DeskKeepsRecords == DeskSpec => RecordsKept
<1>1. InitDesk => DocInv /\ PageInv /\ LibraryInv
  BY DeskInit
<1>2. (DocInv /\ PageInv /\ LibraryInv) /\ [NextDesk]_<<part, vars, viewer, libraryVars>>
        => (DocInv /\ PageInv /\ LibraryInv)'
  BY DeskStep
<1>3. (DocInv /\ PageInv /\ LibraryInv) /\ [NextDesk]_<<part, vars, viewer, libraryVars>> =>
        /\ [Exists' => \A i \in 1 .. Sentences : results[i] # 0 => results'[i] # 0]_vars
        /\ [doc.status = "ready" /\ Exists' => doc'.ext = doc.ext /\ doc'.status = "ready"]_vars
        /\ [\A i \in Ids : rows[i].status = "ready" => rows'[i].status \in {"ready", "gone"}]_libraryVars
  BY DeskStep, GrowsKeeps DEF Fate, Final
<1> QED BY <1>1, <1>2, <1>3, PTL DEF DeskSpec, RecordsKept, ResultsKept, ExtractedOnce, ReadyIsFinal
=============================================================================
