------------------------------- MODULE Library -------------------------------
(***************************************************************************)
(* The video library: files a browser uploads to storage and confirms, and *)
(* one YouTube video that links are submitted for, which a goroutine of    *)
(* the server downloads and stores.  The object of the YouTube video has   *)
(* one key, whichever record it belongs to; each upload has its own.       *)
(***************************************************************************)
EXTENDS Integers, FiniteSets, Sequences

CONSTANTS MaxRows, MaxIngests, MaxDeletes,  \* bounds: records, downloads and delete requests
          MaxLibraryStops, MaxLibraryFaults,              \* bounds: restarts of the server, calls that fail
          Submitters                        \* requests that submit the link, over and over

ASSUME LibraryAssumption ==
  /\ MaxRows \in Nat \ {0} /\ MaxIngests \in Nat /\ MaxDeletes \in Nat
  /\ MaxLibraryStops \in Nat /\ MaxLibraryFaults \in Nat

VARIABLES rows,      \* the records: kind and status
          objects,   \* the keys in storage
          submits,   \* the submissions: what they do next, the record they found
          ingests,   \* the downloads, in the order they were started
          job,       \* the browser's upload of one file
          sending,   \* its bytes are on the way
          deletes,   \* the delete requests
          orphans,   \* records whose download died, or whose outcome was not written
          late,      \* keys stored after a deletion had swept them
          libraryStops, libraryFaults

libraryVars == <<rows, objects, submits, ingests, job, sending, deletes, orphans, late, libraryStops, libraryFaults>>
Ids == 1 .. MaxRows
Absent == [kind |-> "none", status |-> "none"]
Live(i) == rows[i].status \in {"pending", "ready", "failed"}
NextId(i) == \A j \in Ids : j < i <=> rows[j] # Absent
Key(i) == IF rows[i].kind = "youtube" THEN 0 ELSE i
Keys == 0 .. MaxRows

Set(i, status) == rows' = [rows EXCEPT ![i].status = status]
\* Bytes that arrive under a key a deletion has been through.
Stored(x) ==
  /\ objects' = objects \cup {x}
  /\ late' = IF \E d \in DOMAIN deletes : deletes[d].key = x /\ deletes[d].pc # "object" THEN late \cup {x} ELSE late
NotStored == UNCHANGED <<objects, late>>

LibraryFault   == libraryFaults < MaxLibraryFaults /\ libraryFaults' = libraryFaults + 1
NoLibraryFault == UNCHANGED libraryFaults

InitLibrary ==
  /\ rows = [i \in Ids |-> Absent] /\ objects = {}
  /\ submits = [q \in Submitters |-> [pc |-> "new", id |-> 0]]
  /\ ingests = <<>>
  /\ job = [pc |-> "new", id |-> 0] /\ sending = FALSE
  /\ deletes = <<>> /\ orphans = {} /\ late = {} /\ libraryStops = 0 /\ libraryFaults = 0

-----------------------------------------------------------------------------
(* A YouTube link.                                                         *)

Source == {i \in Ids : rows[i].kind = "youtube" /\ Live(i)}
SpawnIngest(i) ==
  /\ Len(ingests) < MaxIngests
  /\ ingests' = Append(ingests, [id |-> i, pc |-> "download"])
Submitted(q, pc, i) == submits' = [submits EXCEPT ![q] = [pc |-> pc, id |-> i]]

\* The insert is the first thing that is unique; a duplicate is resolved after it.
SubmitCreate(q) ==
  /\ submits[q].pc = "new"
  /\ IF Source = {}
     THEN \E i \in Ids : /\ NextId(i) /\ SpawnIngest(i)
                         /\ rows' = [rows EXCEPT ![i] = [kind |-> "youtube", status |-> "pending"]]
                         /\ UNCHANGED submits
     ELSE Submitted(q, "resolve", 0) /\ UNCHANGED <<rows, ingests>>
  /\ UNCHANGED <<objects, job, sending, deletes, orphans, late, libraryStops, libraryFaults>>

\* Only a failed record goes on; a pending or ready one is the answer, and a
\* record deleted meanwhile an error.
SubmitResolve(q) ==
  /\ submits[q].pc = "resolve"
  /\ \/ \E i \in Source : rows[i].status = "failed" /\ Submitted(q, "retry", i)
     \/ (\A i \in Source : rows[i].status # "failed") /\ Submitted(q, "new", 0)
  /\ UNCHANGED <<rows, objects, ingests, job, sending, deletes, orphans, late, libraryStops, libraryFaults>>

\* The retry is claimed by the update's own guard.
Claimable(i) == rows[i].status = "failed"

SubmitRetry(q) ==
  /\ submits[q].pc = "retry" /\ Submitted(q, "new", 0)
  /\ LET i == submits[q].id IN
     IF Claimable(i) THEN Set(i, "pending") /\ SpawnIngest(i) ELSE UNCHANGED <<rows, ingests>>
  /\ UNCHANGED <<objects, job, sending, deletes, orphans, late, libraryStops, libraryFaults>>

Ingest(k, pc) == ingests' = [ingests EXCEPT ![k].pc = pc]
IngestOnly == UNCHANGED <<submits, job, sending, deletes, libraryStops>>

\* yt-dlp fails, its time is up, or the file is too large.
Download(k) ==
  /\ ingests[k].pc = "download"
  /\ (Ingest(k, "upload") /\ NoLibraryFault) \/ (Ingest(k, "fail") /\ LibraryFault)
  /\ UNCHANGED <<rows, orphans>> /\ NotStored /\ IngestOnly

\* The whole object is stored or nothing is.
Store(k) ==
  /\ ingests[k].pc = "upload"
  /\ \/ Stored(0) /\ Ingest(k, "ready") /\ NoLibraryFault
     \/ NotStored /\ Ingest(k, "fail") /\ LibraryFault
  /\ UNCHANGED <<rows, orphans>> /\ IngestOnly

\* The outcome is written by id, for whatever the record has become; a write
\* that fails is logged.
Outcome(k) ==
  LET i == ingests[k].id
      status == IF ingests[k].pc = "ready" THEN "ready" ELSE "failed"
  IN
  /\ ingests[k].pc \in {"ready", "fail"} /\ Ingest(k, "done")
  /\ \/ /\ IF Live(i) THEN Set(i, status) ELSE UNCHANGED rows
        /\ UNCHANGED orphans /\ NoLibraryFault
     \/ UNCHANGED rows /\ orphans' = orphans \cup {i} /\ LibraryFault
  /\ NotStored /\ IngestOnly

-----------------------------------------------------------------------------
(* A file: requested, sent to storage, confirmed.                          *)

Job(pc) == job' = [job EXCEPT !.pc = pc]
JobOnly == UNCHANGED <<submits, ingests, deletes, orphans, libraryStops>>

\* The record is inserted before the URL is signed; if that fails it stays.
JobRequest ==
  /\ job.pc = "new"
  /\ \E i \in Ids :
       /\ NextId(i) /\ rows' = [rows EXCEPT ![i] = [kind |-> "upload", status |-> "pending"]]
       /\ \/ job' = [pc |-> "put", id |-> i] /\ sending' = TRUE /\ NoLibraryFault
          \/ Job("error") /\ UNCHANGED sending /\ LibraryFault
  /\ NotStored /\ JobOnly

\* The bytes arrive, although the browser may have given up on the answer.
Arrive ==
  /\ sending /\ sending' = FALSE
  /\ Stored(job.id)
  /\ IF job.pc = "put" THEN (Job("confirm") /\ NoLibraryFault) \/ (Job("error") /\ LibraryFault) ELSE UNCHANGED <<job, libraryFaults>>
  /\ UNCHANGED rows /\ JobOnly

\* The connection breaks: nothing is stored.
Break ==
  /\ sending /\ sending' = FALSE /\ LibraryFault
  /\ IF job.pc = "put" THEN Job("error") ELSE UNCHANGED job
  /\ UNCHANGED rows /\ NotStored /\ JobOnly

\* The object has to be in storage; a repeat of a confirmation succeeds.
Confirmable(i) == Live(i) /\ (rows[i].status = "ready" \/ Key(i) \in objects)

JobConfirm ==
  /\ job.pc = "confirm"
  /\ IF Confirmable(job.id) THEN Set(job.id, "ready") ELSE UNCHANGED rows
  /\ \/ Job(IF Confirmable(job.id) THEN "ready" ELSE "error") /\ NoLibraryFault
     \/ Job("error") /\ LibraryFault
  /\ UNCHANGED sending /\ NotStored /\ JobOnly

\* A client that does not wait for its bytes, or repeats a confirmation.
Confirm(i) ==
  /\ rows[i].kind = "upload" /\ Confirmable(i) /\ Set(i, "ready")
  /\ UNCHANGED <<job, sending>> /\ NotStored /\ NoLibraryFault /\ JobOnly

\* The tile is dismissed or the page left: the chain stops where it is.
Dismiss ==
  /\ job.pc \in {"put", "confirm"} /\ Job("gone")
  /\ UNCHANGED <<rows, sending>> /\ NotStored /\ NoLibraryFault /\ JobOnly

-----------------------------------------------------------------------------
(* Deletion: read, then the object, then the record.                       *)

Delete(d, pc) == deletes' = [deletes EXCEPT ![d].pc = pc]
DeleteOnly == UNCHANGED <<submits, ingests, job, sending, orphans, late, libraryStops>>

DeleteReadsVideo(i) ==
  /\ Len(deletes) < MaxDeletes /\ Live(i)
  /\ deletes' = Append(deletes, [pc |-> "object", id |-> i, key |-> Key(i)])
  /\ UNCHANGED <<rows, objects>> /\ NoLibraryFault /\ DeleteOnly

DeleteVideoObject(d) ==
  /\ deletes[d].pc = "object"
  /\ \/ objects' = objects \ {deletes[d].key} /\ Delete(d, "row") /\ NoLibraryFault
     \/ UNCHANGED objects /\ Delete(d, "done") /\ LibraryFault
  /\ UNCHANGED rows /\ DeleteOnly

DeleteVideoRow(d) ==
  /\ deletes[d].pc = "row" /\ Delete(d, "done")
  /\ (Set(deletes[d].id, "gone") /\ NoLibraryFault) \/ (UNCHANGED rows /\ LibraryFault)
  /\ UNCHANGED objects /\ DeleteOnly

-----------------------------------------------------------------------------

Ingesting(k) == ingests[k].pc \in {"download", "upload", "ready", "fail"}

\* The server restarts: requests and downloads die with it, and nothing looks
\* for the records they leave.
Restart ==
  /\ libraryStops < MaxLibraryStops /\ libraryStops' = libraryStops + 1
  /\ submits' = [q \in Submitters |-> [pc |-> "new", id |-> 0]]
  /\ orphans' = orphans \cup {ingests[k].id : k \in {n \in DOMAIN ingests : Ingesting(n)}}
  /\ ingests' = [k \in DOMAIN ingests |-> [ingests[k] EXCEPT !.pc = "done"]]
  /\ deletes' = [d \in DOMAIN deletes |-> [deletes[d] EXCEPT !.pc = "done"]]
  /\ job' = [job EXCEPT !.pc = IF @ = "confirm" THEN "error" ELSE @]
  /\ UNCHANGED <<rows, objects, sending, late, libraryFaults>>

SubmitStep(q) == SubmitCreate(q) \/ SubmitResolve(q) \/ SubmitRetry(q)
IngestStep(k) == Download(k) \/ Store(k) \/ Outcome(k)

NextLibrary ==
  \/ \E q \in Submitters : SubmitStep(q)
  \/ \E k \in DOMAIN ingests : IngestStep(k)
  \/ JobRequest \/ Arrive \/ Break \/ JobConfirm \/ Dismiss
  \/ \E i \in Ids : Confirm(i) \/ DeleteReadsVideo(i)
  \/ \E d \in DOMAIN deletes : DeleteVideoObject(d) \/ DeleteVideoRow(d)
  \/ Restart

LibrarySpec == InitLibrary /\ [][NextLibrary]_libraryVars

\* A download has a deadline and a goroutine runs; so does a browser's chain of calls.
LibraryFairSpec ==
  /\ LibrarySpec
  /\ \A k \in 1 .. MaxIngests : WF_libraryVars(k \in DOMAIN ingests /\ IngestStep(k))
  /\ WF_libraryVars(JobRequest \/ Arrive \/ Break \/ JobConfirm)
  /\ \A d \in 1 .. MaxDeletes : WF_libraryVars(d \in DOMAIN deletes /\ (DeleteVideoObject(d) \/ DeleteVideoRow(d)))

-----------------------------------------------------------------------------
(* Properties.                                                             *)

\* Every variable keeps its type; one record for the link.
LibraryTypeOK ==
  /\ rows \in [Ids -> [kind : {"none", "youtube", "upload"}, status : {"none", "pending", "ready", "failed", "gone"}]]
  /\ objects \subseteq Keys /\ late \subseteq Keys /\ orphans \subseteq Ids
  /\ submits \in [Submitters -> [pc : {"new", "resolve", "retry"}, id : 0 .. MaxRows]]
  /\ \A k \in DOMAIN ingests :
       ingests[k] \in [id : Ids, pc : {"download", "upload", "ready", "fail", "done"}]
  /\ job \in [pc : {"new", "put", "confirm", "ready", "error", "gone"}, id : 0 .. MaxRows] /\ sending \in BOOLEAN
  /\ \A d \in DOMAIN deletes : deletes[d] \in [id : Ids, key : Keys, pc : {"object", "row", "done"}]
  /\ libraryStops \in 0 .. MaxLibraryStops /\ libraryFaults \in 0 .. MaxLibraryFaults
  /\ \A i, j \in Ids : Live(i) /\ Live(j) /\ {rows[i].kind, rows[j].kind} = {"youtube"} => i = j

\* However many submissions find it failed, one download works on a record.
OnePerRecord ==
  \A k, m \in DOMAIN ingests : k # m /\ Ingesting(k) /\ Ingesting(m) => ingests[k].id # ingests[m].id

\* A record shown as ready has its object, unless a deletion was sent for what
\* is under its key.
ReadyVideoHasObject ==
  \A i \in Ids : rows[i].status = "ready" => Key(i) \in objects \/ \E d \in DOMAIN deletes : deletes[d].key = Key(i)

(***************************************************************************)
(* A deletion that fails halfway leaves the record visible: an object that *)
(* no record names was stored after the deletion swept its key.            *)
(***************************************************************************)
Referred(x) == \E i \in Ids : Live(i) /\ Key(i) = x
StrandsOnlyLate == \A x \in objects : Referred(x) \/ x \in late

\* A video that is ready stays so until it is deleted.
ReadyIsFinal ==
  [][\A i \in Ids : rows[i].status = "ready" => rows'[i].status \in {"ready", "gone"}]_libraryVars

\* A download's record leaves pending, unless the download died or its outcome was not written.
PendingEnds ==
  \A i \in Ids : (i \in Source /\ rows[i].status = "pending") ~> (rows[i].status # "pending" \/ i \in orphans)

\* "the same link never re-downloads while one is in flight" (youtube.go).
OneDownload == \A k, m \in DOMAIN ingests : Ingesting(k) /\ Ingesting(m) => k = m

\* "then records the terminal outcome" (youtube.go, of every download).
PendingAlwaysEnds == \A i \in Ids : (i \in Source /\ rows[i].status = "pending") ~> (rows[i].status # "pending")

\* "Delete removes a video: its stored media object first, then its record"
\* (video.go): what it removes is that video's.
DeletesItsOwn ==
  \A i \in Ids : rows[i].status = "ready" => Key(i) \in objects \/ \E d \in DOMAIN deletes : deletes[d].id = i

\* "rather than stranding an object no record references" (video.go).
NothingStranded == \A x \in objects : Referred(x)

\* Videos, their objects and their downloads: one download works on a record,
\* ready means an object, and only what is stored too late is stranded.
LibrarySound == LibraryTypeOK /\ OnePerRecord /\ ReadyVideoHasObject /\ StrandsOnlyLate
=============================================================================
