------------------------------ MODULE Capture -------------------------------
(***************************************************************************)
(* The archive of the channels and the capture worker that fills it.       *)
(*                                                                         *)
(* TVRecordingService keeps a row per recording in the videos table and an *)
(* object per recording in storage.  The two are changed by separate       *)
(* calls, so every operator of the first part is one call of the service   *)
(* to one of the two stores; the worker drives them over HTTP.             *)
(*                                                                         *)
(* The worker's manager reconciles one supervisor per enabled channel; a   *)
(* supervisor salvages the segments left on disk, runs the capture         *)
(* process, archives each segment the process has closed, and when the     *)
(* process exits archives the last one and starts again with backoff.      *)
(*                                                                         *)
(* A segment is <<channel, n>>, n its position among the files of the      *)
(* channel's directory.  A recording's object key is computed from its     *)
(* channel and start time, so the same segment always has the same key:    *)
(* the key is the segment.                                                 *)
(***************************************************************************)
EXTENDS Integers, FiniteSets

CONSTANTS Keys,      \* the object keys recordings can have
          MaxId      \* bound: rows ever created

VARIABLES rows,      \* the kind `tv` rows of the videos table
          objects,   \* the keys that have an object in storage
          nextId,    \* the id the next row gets
          expired,   \* keys whose recording is older than the retention
          late,      \* history: those that expired before they were archived
          prune      \* the prune in progress: rows listed, row being deleted

recordingVars == <<rows, objects, nextId, expired, late, prune>>

Idle == [listed |-> {}, row |-> 0]
Row  == [id : 1 .. MaxId, key : Keys, status : {"pending", "ready"}]

RowOf(k)  == {r \in rows : r.key = k}
Ready(k)  == \E r \in RowOf(k) : r.status = "ready"
Missing(id) == \A r \in rows : r.id # id

RecordingsInit ==
  /\ rows = {} /\ objects = {} /\ nextId = 1
  /\ expired = {} /\ late = {} /\ prune = Idle

(***************************************************************************)
(* RequestUpload looks the key up and reuses its row, else creates one.    *)
(* object_key is UNIQUE, so a creation that lost a race fails.             *)
(***************************************************************************)
CreateVideo(k) ==
  /\ RowOf(k) = {} /\ nextId <= MaxId
  /\ rows' = rows \cup {[id |-> nextId, key |-> k, status |-> "pending"]}
  /\ nextId' = nextId + 1
  /\ UNCHANGED <<objects, expired, late, prune>>

(***************************************************************************)
(* A presigned write-once PUT: a second upload of a key gets 412, which    *)
(* the worker takes as success.                                            *)
(***************************************************************************)
UploadOnce(k) ==
  objects' = objects \cup {k} /\ UNCHANGED <<rows, nextId, expired, late, prune>>

(***************************************************************************)
(* Register's last call.  A row deleted since it was read is not found.    *)
(***************************************************************************)
SetVideoStatus(id) ==
  /\ ~Missing(id)
  /\ rows' = {IF r.id = id THEN [r EXCEPT !.status = "ready"] ELSE r : r \in rows}
  /\ UNCHANGED <<objects, nextId, expired, late, prune>>

(***************************************************************************)
(* Prune lists the expired rows, then deletes each object and then its     *)
(* row.  A failed delete skips to the next recording.                      *)
(***************************************************************************)
PruneList ==
  /\ prune = Idle
  /\ prune' = [Idle EXCEPT !.listed = {r \in rows : r.key \in expired}]
  /\ prune'.listed # {}
  /\ UNCHANGED <<rows, objects, nextId, expired, late>>

PruneObject(r, ok) ==
  /\ prune.row = 0 /\ r \in prune.listed
  /\ prune' = [listed |-> prune.listed \ {r}, row |-> IF ok THEN r.id ELSE 0]
  /\ objects' = IF ok THEN objects \ {r.key} ELSE objects
  /\ UNCHANGED <<rows, nextId, expired, late>>

PruneRow(ok) ==
  /\ prune.row # 0
  /\ prune' = [prune EXCEPT !.row = 0]
  /\ rows' = IF ok THEN {r \in rows : r.id # prune.row} ELSE rows
  /\ UNCHANGED <<objects, nextId, expired, late>>

\* Time passes: the recording of k is now past the retention.
Expire(k, archived) ==
  /\ k \in Keys \ expired
  /\ expired' = expired \cup {k}
  /\ late' = IF archived THEN late ELSE late \cup {k}
  /\ UNCHANGED <<rows, objects, nextId, prune>>

RecordingsTypeOK ==
  /\ rows \subseteq Row /\ objects \subseteq Keys
  /\ expired \subseteq Keys /\ late \subseteq expired
  /\ nextId \in 1 .. MaxId + 1
  /\ prune.listed \subseteq Row /\ prune.row \in 0 .. MaxId

-----------------------------------------------------------------------------
(* The worker. *)
CONSTANTS Channels, Configs,    \* a channel's capture settings
          Archiving,            \* the settings that archive
          Off,                  \* a channel that is not enabled
          Sups, NoSup,          \* supervisors: one per start
          MaxSegments, MaxAttempts,
          MaxFaults,            \* bound: calls that fail
          MaxCrashes,           \* bound: the worker killed or shut down
          MaxChanges            \* bound: edits of a channel

ASSUME CaptureAssumption ==
  /\ Archiving \subseteq Configs /\ Off \notin Configs
  /\ NoSup \notin Sups
  /\ MaxId \in Nat /\ MaxSegments \in Nat /\ MaxAttempts \in Nat \ {0}
  /\ Keys = Channels \X (1 .. MaxSegments)

VARIABLES settings, \* per channel, its settings in the backend
          hasty,    \* history: channels enabled beside a supervisor nobody awaits
          running,  \* the manager's supervisor of each channel
          manager,  \* the manager's reconcile in progress, or "down"
          sup,      \* the supervisors
          disk,     \* per channel, the .ts files in its directory
          written,  \* per channel, the segments opened so far
          faults, crashes, changes

workerVars == <<running, manager, sup>>
boundVars  == <<faults, crashes, changes>>
vars == <<recordingVars, settings, hasty, workerVars, disk, written, boundVars>>

NoJob  == [seg |-> 0, step |-> "none", id |-> 0]
Steps  == {"none", "lookup", "create", "upload", "register", "ready", "remove"}
Unused == [chan |-> Off, cfg |-> Off, pc |-> "unused", cancelled |-> FALSE,
           todo |-> {}, job |-> NoJob, open |-> 0, silent |-> FALSE,
           feed |-> "down", attempt |-> 0, alerted |-> FALSE]
Idling == [pc |-> "idle", restart |-> {}, awaits |-> NoSup, stop |-> {}, start |-> {}]

Archives(s) == sup[s].cfg \in Archiving
Alive(s)    == sup[s].pc \notin {"unused", "done"}
Key(s, n)   == <<sup[s].chan, n>>
\* The segment a capture process still writes.
Open(k) == \E s \in Sups : Alive(s) /\ sup[s].open # 0 /\ Key(s, sup[s].open) = k
Closed(k) == k[2] <= written[k[1]] /\ ~Open(k)
Newest(c) == CHOOSE n \in disk[c] : \A m \in disk[c] : m <= n
Oldest(T) == CHOOSE n \in T : \A m \in T : n <= m

Init ==
  /\ RecordingsInit
  /\ settings \in [Channels -> Configs \cup {Off}] /\ hasty = {}
  /\ running = [c \in Channels |-> NoSup]
  /\ manager = Idling
  /\ sup = [s \in Sups |-> Unused]
  /\ disk = [c \in Channels |-> {}]
  /\ written = [c \in Channels |-> 0]
  /\ faults = 0 /\ crashes = 0 /\ changes = 0

-----------------------------------------------------------------------------
(* The environment: an operator edits channels, recordings age.            *)

\* A supervisor of c was disabled and drains, or is about to be; no one awaits it.
Abandoned(c) ==
  \/ c \in manager.stop
  \/ \E s \in Sups : Alive(s) /\ sup[s].chan = c /\ sup[s].cancelled /\ s # manager.awaits

EditChannel(c, v) ==
  /\ v # settings[c] /\ changes < MaxChanges
  /\ settings' = [settings EXCEPT ![c] = v] /\ changes' = changes + 1
  /\ hasty' = IF v # Off /\ Abandoned(c) THEN hasty \cup {c} ELSE hasty
  /\ UNCHANGED <<recordingVars, workerVars, disk, written, faults, crashes>>

\* The recording of k is there, and no one works on its segment any more.
Archived(k) ==
  /\ Ready(k) /\ k[2] \notin disk[k[1]]
  /\ \A s \in Sups : sup[s].job # NoJob => <<sup[s].chan, sup[s].job.seg>> # k

Age(k) ==
  /\ Closed(k) /\ Expire(k, Archived(k))
  /\ UNCHANGED <<settings, hasty, workerVars, disk, written, boundVars>>

-----------------------------------------------------------------------------
(* The manager.                                                            *)

Started(c)   == running[c] # NoSup
Snapshot(c)  == sup[running[c]].cfg
ToStop == {c \in Channels : Started(c) /\ settings[c] # Snapshot(c)}
ToStart == {c \in Channels : settings[c] # Off /\ (Started(c) => settings[c] # Snapshot(c))}

\* A restart cancels and awaits the old supervisor; see AwaitStop.
Reconcile ==
  /\ manager = Idling
  /\ ToStop \cup ToStart # {}
  /\ manager' = [pc |-> "stopping", restart |-> ToStop \cap ToStart,
                 awaits |-> NoSup, stop |-> ToStop \ ToStart,
                 start |-> {<<c, settings[c]>> : c \in ToStart}]
  /\ UNCHANGED <<recordingVars, settings, hasty, running, sup, disk, written, boundVars>>

Cancelled(T) == [s \in Sups |-> IF s \in T THEN [sup[s] EXCEPT !.cancelled = TRUE] ELSE sup[s]]

\* stop() returns when the supervisor it cancelled has ended.
StopReturned == manager.awaits \notin {s \in Sups : Alive(s)}

CancelForRestart(c) ==
  /\ manager.pc = "stopping" /\ c \in manager.restart /\ Started(c) /\ StopReturned
  /\ sup' = Cancelled({running[c]})
  /\ running' = [running EXCEPT ![c] = NoSup]
  /\ manager' = [manager EXCEPT !.awaits = running[c]]
  /\ UNCHANGED <<recordingVars, settings, hasty, disk, written, boundVars>>

\* Mutant: the restarted supervisor is not awaited.
StopAsyncUnawaited ==
  /\ manager.pc = "stopping"
  /\ \A c \in manager.restart : ~Started(c)
  /\ sup' = Cancelled({running[c] : c \in manager.stop})
  /\ running' = [c \in Channels |-> IF c \in manager.stop THEN NoSup ELSE running[c]]
  /\ manager' = [Idling EXCEPT !.pc = "starting", !.start = manager.start]
  /\ UNCHANGED <<recordingVars, settings, hasty, disk, written, boundVars>>

\* The disabled channels are stopped without waiting for them.
StopAsync ==
  /\ manager.pc = "stopping"
  /\ StopReturned /\ \A c \in manager.restart : ~Started(c)
  /\ sup' = Cancelled({running[c] : c \in manager.stop})
  /\ running' = [c \in Channels |-> IF c \in manager.stop THEN NoSup ELSE running[c]]
  /\ manager' = [Idling EXCEPT !.pc = "starting", !.start = manager.start]
  /\ UNCHANGED <<recordingVars, settings, hasty, disk, written, boundVars>>

RunLoop(c, v) == [Unused EXCEPT !.chan = c, !.cfg = v,
                    !.pc = IF v \in Archiving THEN "salvage" ELSE "start",
                    !.todo = IF v \in Archiving THEN disk[c] ELSE {}]

StartSupervisor(c, v, s) ==
  /\ manager.pc = "starting" /\ <<c, v>> \in manager.start
  /\ ~Alive(s) /\ \A d \in Channels : running[d] # s
  /\ sup' = [sup EXCEPT ![s] = RunLoop(c, v)]
  /\ running' = [running EXCEPT ![c] = s]
  /\ manager' = [manager EXCEPT !.start = @ \ {<<c, v>>}]
  /\ UNCHANGED <<recordingVars, settings, hasty, disk, written, boundVars>>

ReconcileEnds ==
  /\ manager.pc = "starting" /\ manager.start = {}
  /\ manager' = Idling
  /\ UNCHANGED <<recordingVars, settings, hasty, running, sup, disk, written, boundVars>>

\* SIGTERM cancels every supervisor; Run returns when all have ended.
Shutdown ==
  /\ manager.pc # "down" /\ crashes < MaxCrashes
  /\ manager' = [Idling EXCEPT !.pc = "down"]
  /\ crashes' = crashes + 1
  /\ sup' = Cancelled({s \in Sups : Alive(s)})
  /\ running' = [c \in Channels |-> NoSup]
  /\ UNCHANGED <<recordingVars, settings, hasty, disk, written, faults, changes>>

Boot ==
  /\ manager.pc = "down" /\ \A s \in Sups : ~Alive(s)
  /\ manager' = Idling /\ hasty' = {}
  /\ UNCHANGED <<recordingVars, settings, running, sup, disk, written, boundVars>>

\* The worker is killed: its processes go with it, its directory stays.
Crash ==
  /\ crashes < MaxCrashes /\ crashes' = crashes + 1
  /\ manager' = Idling /\ hasty' = {}
  /\ sup' = [s \in Sups |-> Unused]
  /\ running' = [c \in Channels |-> NoSup]
  /\ UNCHANGED <<recordingVars, settings, disk, written, faults, changes>>

-----------------------------------------------------------------------------
(* A supervisor's run loop.                                                *)

SetSup(s, r) == sup' = [sup EXCEPT ![s] = r]
Local(s, r) == SetSup(s, r) /\ UNCHANGED <<recordingVars, settings, hasty, running, manager, disk, written>>
NoFault == UNCHANGED boundVars
Fault   == faults < MaxFaults /\ faults' = faults + 1 /\ UNCHANGED <<crashes, changes>>
Resting(s) == sup[s].todo = {} /\ sup[s].job = NoJob

SalvageDone(s) ==
  /\ sup[s].pc = "salvage" /\ Resting(s)
  /\ Local(s, [sup[s] EXCEPT !.pc = "start"]) /\ NoFault

\* Between two segments a cancelled or timed out salvage stops; the final one ignores cancellation.
SalvageStops(s) ==
  /\ sup[s].pc \in {"salvage", "final"} /\ sup[s].job = NoJob /\ sup[s].todo # {}
  /\ Local(s, [sup[s] EXCEPT !.todo = {}])
  /\ IF sup[s].pc = "salvage" /\ sup[s].cancelled THEN NoFault ELSE Fault

StartProcess(s) ==
  /\ sup[s].pc = "start"
  /\ Local(s, [sup[s] EXCEPT !.pc = "capture"]) /\ NoFault

\* The process has exited: run counts the attempt, alerts once and backs off.
Retried(s, healthy) ==
  LET attempt == IF healthy THEN 1
                 ELSE IF sup[s].attempt < MaxAttempts THEN sup[s].attempt + 1 ELSE MaxAttempts
  IN  IF sup[s].cancelled THEN [Unused EXCEPT !.pc = "done"]
      ELSE [sup[s] EXCEPT !.pc = "backoff", !.attempt = attempt,
              !.alerted = (@ /\ ~healthy) \/ attempt = MaxAttempts]

StartFails(s) ==
  /\ sup[s].pc = "start"
  /\ \E healthy \in BOOLEAN : Local(s, Retried(s, healthy))
  /\ Fault

Restart(s) ==
  /\ sup[s].pc = "backoff"
  /\ LET r == RunLoop(sup[s].chan, sup[s].cfg)
     IN  Local(s, IF sup[s].cancelled THEN [Unused EXCEPT !.pc = "done"]
                  ELSE [sup[s] EXCEPT !.pc = r.pc, !.todo = r.todo])
  /\ NoFault

\* The process closes its segment and opens the next.
Rotate(s) ==
  LET c == sup[s].chan IN
  /\ sup[s].pc = "capture" /\ Archives(s) /\ ~sup[s].silent
  /\ written[c] < MaxSegments
  /\ written' = [written EXCEPT ![c] = @ + 1]
  /\ disk' = [disk EXCEPT ![c] = @ \cup {written[c] + 1}]
  /\ SetSup(s, [sup[s] EXCEPT !.open = written[c] + 1])
  /\ UNCHANGED <<recordingVars, settings, hasty, running, manager, boundVars>>

GoSilent(s) ==
  /\ sup[s].pc = "capture" /\ ~sup[s].silent
  /\ Local(s, [sup[s] EXCEPT !.silent = TRUE]) /\ Fault

\* The feed's socket: connected lazily, retried, blocked while the hub does not read.
FeedChanges(s, v) ==
  /\ sup[s].pc \in {"capture", "draining"} /\ v # sup[s].feed
  /\ v = "up" => (sup[s].pc = "capture" /\ sup[s].feed # "stuck")
  /\ v = "stuck" => (sup[s].feed = "up" /\ ~sup[s].cancelled)
  /\ Local(s, [sup[s] EXCEPT !.feed = v])
  /\ IF v = "stuck" THEN Fault ELSE NoFault

\* The process ends: by itself, or stopped by the watchdog or by the cancelled context.
Exited(s) ==
  /\ sup[s].pc = "capture"
  /\ Local(s, [sup[s] EXCEPT !.pc = "draining", !.open = 0, !.silent = FALSE])
ProcessDies(s) == Exited(s) /\ ~sup[s].silent /\ ~sup[s].cancelled /\ Fault
ProcessStopped(s) == Exited(s) /\ (sup[s].silent \/ sup[s].cancelled) /\ NoFault

\* The final salvage waits for the reader, the sender and the segment watcher.
Drained(s) ==
  /\ sup[s].pc = "draining" /\ Resting(s) /\ sup[s].feed # "stuck"
  /\ Local(s, [sup[s] EXCEPT !.pc = "final", !.feed = "down",
                 !.todo = IF Archives(s) THEN disk[sup[s].chan] ELSE {}])
  /\ NoFault

RunOnceReturns(s, healthy) ==
  /\ sup[s].pc = "final" /\ Resting(s)
  /\ Local(s, Retried(s, healthy)) /\ NoFault

-----------------------------------------------------------------------------
(* Archiving.                                                              *)

\* Mutant: an off-by-one in the number of files.
ArchiveThird(s) ==
  LET c == sup[s].chan IN
  /\ sup[s].pc = "capture" /\ Archives(s) /\ Resting(s)
  /\ Cardinality(disk[c]) > 2
  /\ Local(s, [sup[s] EXCEPT !.todo = disk[c] \ {Newest(c)}]) /\ NoFault

\* A poll of the directory: every file but the newest is complete.
ArchiveClosed(s) ==
  LET c == sup[s].chan IN
  /\ sup[s].pc = "capture" /\ Archives(s) /\ Resting(s)
  /\ Cardinality(disk[c]) > 1
  /\ Local(s, [sup[s] EXCEPT !.todo = disk[c] \ {Newest(c)}]) /\ NoFault

\* The next file is remuxed; one that is gone fails and is skipped.
Archive(s) ==
  LET n == Oldest(sup[s].todo) IN
  /\ sup[s].pc \in {"salvage", "capture", "draining", "final"}
  /\ sup[s].todo # {} /\ sup[s].job = NoJob
  /\ Local(s, [sup[s] EXCEPT !.todo = @ \ {n},
                 !.job = IF n \in disk[sup[s].chan] THEN [seg |-> n, step |-> "lookup", id |-> 0]
                         ELSE NoJob])
  /\ NoFault

AtStep(s, step) == Alive(s) /\ sup[s].job.step = step
Segment(s) == Key(s, sup[s].job.seg)
Job(s, step, id) == SetSup(s, [sup[s] EXCEPT !.job.step = step, !.job.id = id])
EndJob(s) == SetSup(s, [sup[s] EXCEPT !.job = NoJob])
WorkerIdle == UNCHANGED <<settings, hasty, running, manager, disk, written, boundVars>>

Lookup(s) ==
  /\ AtStep(s, "lookup")
  /\ IF RowOf(Segment(s)) = {} THEN Job(s, "create", 0)
     ELSE \E r \in RowOf(Segment(s)) : Job(s, "upload", r.id)
  /\ UNCHANGED recordingVars /\ WorkerIdle

CreateRow(s) ==
  /\ AtStep(s, "create")
  /\ \/ CreateVideo(Segment(s)) /\ Job(s, "upload", nextId)
     \/ RowOf(Segment(s)) # {} /\ EndJob(s) /\ UNCHANGED recordingVars
  /\ WorkerIdle

Upload(s) ==
  /\ AtStep(s, "upload")
  /\ UploadOnce(Segment(s)) /\ Job(s, "register", sup[s].job.id)
  /\ WorkerIdle

\* GetVideo and Exists: a ready row is done, a missing row or object an error.
Register(s) ==
  LET id == sup[s].job.id IN
  /\ AtStep(s, "register")
  /\ IF Missing(id) THEN EndJob(s)
     ELSE IF \E r \in rows : r.id = id /\ r.status = "ready" THEN Job(s, "remove", id)
     ELSE IF Segment(s) \in objects THEN Job(s, "ready", id) ELSE EndJob(s)
  /\ UNCHANGED recordingVars /\ WorkerIdle

MarkReady(s) ==
  /\ AtStep(s, "ready")
  /\ \/ SetVideoStatus(sup[s].job.id) /\ Job(s, "remove", sup[s].job.id)
     \/ Missing(sup[s].job.id) /\ EndJob(s) /\ UNCHANGED recordingVars
  /\ WorkerIdle

RemoveSegment(s) ==
  /\ AtStep(s, "remove")
  /\ disk' = [disk EXCEPT ![sup[s].chan] = @ \ {sup[s].job.seg}]
  /\ EndJob(s)
  /\ UNCHANGED <<recordingVars, settings, hasty, running, manager, written, boundVars>>

\* A call fails or times out, its answer is lost, or the file cannot be removed.
JobFails(s) ==
  /\ Alive(s) /\ sup[s].job # NoJob
  /\ EndJob(s)
  /\ UNCHANGED <<recordingVars, settings, hasty, running, manager, disk, written>>
  /\ IF sup[s].pc = "salvage" /\ sup[s].cancelled THEN NoFault ELSE Fault

-----------------------------------------------------------------------------
PruneStep ==
  /\ \/ PruneList /\ UNCHANGED boundVars
     \/ \E r \in prune.listed : PruneObject(r, TRUE) /\ UNCHANGED boundVars
     \/ \E r \in prune.listed : PruneObject(r, FALSE) /\ Fault
     \/ PruneRow(TRUE) /\ UNCHANGED boundVars
     \/ PruneRow(FALSE) /\ Fault
  /\ UNCHANGED <<settings, hasty, workerVars, disk, written>>

ManagerStep ==
  \/ Reconcile \/ StopAsync \/ ReconcileEnds \/ Boot
  \/ \E c \in Channels : CancelForRestart(c) \/ \E v \in Configs, s \in Sups : StartSupervisor(c, v, s)

\* What a supervisor does on its own.
SupStep(s) ==
  \/ SalvageDone(s) \/ StartProcess(s) \/ Restart(s) \/ ProcessStopped(s) \/ Drained(s)
  \/ \E h \in BOOLEAN : RunOnceReturns(s, h)
  \/ ArchiveClosed(s) \/ Archive(s) \/ Lookup(s) \/ CreateRow(s) \/ Upload(s)
  \/ Register(s) \/ MarkReady(s) \/ RemoveSegment(s)

\* What happens to it.
SupDisturbed(s) ==
  \/ SalvageStops(s) \/ StartFails(s) \/ Rotate(s) \/ GoSilent(s) \/ ProcessDies(s) \/ JobFails(s)
  \/ \E v \in {"up", "down", "stuck"} : FeedChanges(s, v)

Next ==
  \/ ManagerStep \/ PruneStep \/ Shutdown \/ Crash
  \/ \E c \in Channels, v \in Configs \cup {Off} : EditChannel(c, v)
  \/ \E k \in Keys : Age(k)
  \/ \E s \in Sups : SupStep(s) \/ SupDisturbed(s)

Spec == Init /\ [][Next]_vars

(***************************************************************************)
(* The manager's loop polls; a supervisor's goroutines run; a blocked Send *)
(* ends when the hub reads again or the connection breaks.                 *)
(***************************************************************************)
Fairness ==
  /\ WF_vars(ManagerStep)
  /\ \A s \in Sups : WF_vars(SupStep(s)) /\ WF_vars(sup[s].feed = "stuck" /\ FeedChanges(s, "down"))

FairSpec == Spec /\ Fairness
-----------------------------------------------------------------------------
(***************************************************************************)
(* Properties.                                                             *)
(***************************************************************************)
JobRecord == [seg : 0 .. MaxSegments, step : Steps, id : 0 .. MaxId]
SupRecord ==
  [chan : Channels \cup {Off}, cfg : Configs \cup {Off},
   pc : {"unused", "salvage", "start", "capture", "draining", "final", "backoff", "done"},
   cancelled : BOOLEAN, todo : SUBSET (1 .. MaxSegments), job : JobRecord,
   open : 0 .. MaxSegments, silent : BOOLEAN, feed : {"down", "up", "stuck"},
   attempt : 0 .. MaxAttempts, alerted : BOOLEAN]

\* Every variable keeps its type.
TypeOK ==
  /\ RecordingsTypeOK
  /\ settings \in [Channels -> Configs \cup {Off}] /\ hasty \subseteq Channels
  /\ running \in [Channels -> Sups \cup {NoSup}]
  /\ sup \in [Sups -> SupRecord]
  /\ disk \in [Channels -> SUBSET (1 .. MaxSegments)]
  /\ written \in [Channels -> 0 .. MaxSegments]
  /\ manager.restart \cup manager.stop \subseteq Channels
  /\ manager.start \subseteq Channels \X Configs /\ manager.awaits \in Sups \cup {NoSup}

(***************************************************************************)
(* No capture is lost: whatever calls fail, and wherever the worker is     *)
(* killed, a segment is on disk for a later salvage, or its object is      *)
(* stored and its row ready, or the retention has taken it.                *)
(***************************************************************************)
SegmentKept ==
  \A c \in Channels : \A n \in 1 .. written[c] :
    \/ n \in disk[c]
    \/ <<c, n>> \in objects /\ Ready(<<c, n>>)
    \/ <<c, n>> \in expired

(***************************************************************************)
(* A write-once upload freezes what it sends, so nothing archives a        *)
(* segment that a process still writes.  A hasty channel is out: the final *)
(* salvage of its first supervisor takes what the second one opens.        *)
(***************************************************************************)
OnlyClosedArchived ==
  \A s \in Sups : sup[s].job # NoJob /\ sup[s].chan \notin hasty => ~Open(Segment(s))

(***************************************************************************)
(* A channel's segment directory and publisher slot have one user: two     *)
(* supervisors of a channel never run, however edits, polls, restarts and  *)
(* kills interleave.  The one exception is a channel that was enabled      *)
(* again while its disabled supervisor drained: the manager awaits a       *)
(* supervisor it restarts and not one it stops, so until the worker starts *)
(* anew there may be two.                                                  *)
(***************************************************************************)
SupervisedOnce(c) ==
  \A s, t \in Sups : Alive(s) /\ Alive(t) /\ sup[s].chan = c /\ sup[t].chan = c => s = t

OneSupervisor == \A c \in Channels \ hasty : SupervisedOnce(c)

\* A recording that replays has its object, except one the retention is removing.
ReadyHasObject ==
  \A r \in rows : r.status = "ready" => r.key \in objects \/ r.key \in expired

(***************************************************************************)
(* An object has a row, or a segment on disk that will find it again,      *)
(* unless the retention had reached the recording before it was archived:  *)
(* then the prune may pass between its upload and its row.                 *)
(***************************************************************************)
Findable(k) == RowOf(k) # {} \/ k[2] \in disk[k[1]]

NoStrandedObject == \A k \in objects \ late : Findable(k)

(***************************************************************************)
(* A channel that stays disabled ends up without a supervisor, and one     *)
(* that stays enabled is captured with its settings again and again: no    *)
(* silence, failed start, restart or blocked feed is the last word.        *)
(***************************************************************************)
Settles ==
  \A c \in Channels :
    /\ <>[](settings[c] = Off) => <>[](\A s \in Sups : Alive(s) => sup[s].chan # c)
    /\ \A v \in Configs : <>[](settings[c] = v) =>
         []<>(\E s \in Sups : sup[s].chan = c /\ sup[s].cfg = v
                 /\ sup[s].pc = "capture" /\ ~sup[s].silent)

\* While a channel archives, a segment with a newer one leaves the disk, or the newer ones do.
ArchivedInTheEnd ==
  \A c \in Channels : <>[](settings[c] \in Archiving) =>
    \A n \in 1 .. MaxSegments :
      [](n \in disk[c] /\ n # Newest(c) => <>(n \in disk[c] => n = Newest(c)))

(***************************************************************************)
(* Segments, objects and rows through failed calls, kills, hasty edits and *)
(* late salvages: nothing captured is lost, nothing open is archived, one  *)
(* supervisor works on a channel, and rows and objects go together.        *)
(***************************************************************************)
CaptureSound ==
  /\ TypeOK /\ SegmentKept /\ OnlyClosedArchived
  /\ OneSupervisor /\ ReadyHasObject /\ NoStrandedObject

\* The supervision of a channel settles as it is configured, and its segments
\* are archived in the end.
ChannelSettles == Settles /\ ArchivedInTheEnd
=============================================================================
