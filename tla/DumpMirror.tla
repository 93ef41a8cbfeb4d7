----------------------------- MODULE DumpMirror -----------------------------
(***************************************************************************)
(* internal/wiki/download.go: a run takes the newest generation whose dump *)
(* and index are both on the mirror, and keeps each file in one place on   *)
(* disk with a sidecar that names the generation its bytes came from.  The *)
(* mirror publishes the files of a generation one by one and drops old     *)
(* generations; a run may stop between any two steps.  A number stands for *)
(* the date of a generation and for the bytes of its files: a dated file   *)
(* never changes.                                                          *)
(***************************************************************************)
EXTENDS Naturals, FiniteSetsExt

CONSTANTS
  Generations,   \* how many the mirror comes to list
  MaxMishaps     \* runs that stop, files that are lost, generations missed

ASSUME MirrorAssumption ==
  Generations \in Nat \ {0} /\ MaxMishaps \in Nat

VARIABLES
  newest,     \* the newest generation listed
  mirror,     \* the files each generation has there
  disk,       \* the generation of a file's bytes, 0: no file, or an empty one
  sidecar,    \* the generation recorded beside it, 0: none
  fetch,      \* the run
  mishaps

mirrorVars == <<newest, mirror, disk, sidecar, fetch, mishaps>>

Files == {"dump", "index"}
NoFetch == [pc |-> "off", candidates |-> {}, gen |-> 0, file |-> "dump"]
Complete(g) == mirror[g] = Files

InitMirror ==
  /\ newest = 1 /\ mirror = [g \in 1 .. Generations |-> IF g = 1 THEN Files ELSE {}]
  /\ disk = [f \in Files |-> 0] /\ sidecar = [f \in Files |-> 0]
  /\ fetch = NoFetch /\ mishaps = 0

-----------------------------------------------------------------------------
(* The mirror: a generation is listed before its files are there, completed   *)
(* before a newer one is, and dropped, oldest first, once a newer one is.     *)
List == newest < Generations /\ newest' = newest + 1 /\ UNCHANGED <<mirror, disk, sidecar, fetch, mishaps>>

PublishFile(g, f) ==
  /\ g <= newest /\ f \notin mirror[g] /\ \A h \in g .. newest : ~Complete(h)
  /\ mirror' = [mirror EXCEPT ![g] = @ \cup {f}]
  /\ UNCHANGED <<newest, disk, sidecar, fetch, mishaps>>

Drop(g) ==
  /\ mirror[g] # {} /\ \A h \in 1 .. g - 1 : mirror[h] = {}
  /\ \E h \in g + 1 .. newest : Complete(h)
  /\ mirror' = [mirror EXCEPT ![g] = {}]
  /\ UNCHANGED <<newest, disk, sidecar, fetch, mishaps>>

-----------------------------------------------------------------------------
(* The choice of a generation: the listing, newest first, then one HEAD for   *)
(* each file of a candidate.                                                  *)
StartFetch ==
  /\ fetch.pc = "off"
  /\ fetch' = [NoFetch EXCEPT !.pc = "head", !.candidates = 1 .. newest, !.gen = newest]
  /\ UNCHANGED <<newest, mirror, disk, sidecar, mishaps>>

HeadFile(f) ==
  LET older == fetch.candidates \ {fetch.gen}
  IN /\ fetch.pc = "head" /\ fetch.file = f
     /\ fetch' = IF f \in mirror[fetch.gen]
                 THEN IF f = "dump" THEN [fetch EXCEPT !.file = "index"]
                      ELSE [fetch EXCEPT !.pc = "local", !.file = "dump"]
                 ELSE IF older = {} THEN NoFetch
                      ELSE [fetch EXCEPT !.candidates = older, !.gen = Max(older), !.file = "dump"]
     /\ UNCHANGED <<newest, mirror, disk, sidecar, mishaps>>

-----------------------------------------------------------------------------
(* The download of one file, and on to the next one. *)
LocalVersion(f) == IF disk[f] = 0 THEN 0 ELSE sidecar[f]
NextFile(f) == IF f = "dump" THEN [fetch EXCEPT !.pc = "local", !.file = "index"]
              ELSE [fetch EXCEPT !.pc = "fetched"]

Reuse(f) ==
  /\ fetch.pc = "local" /\ fetch.file = f /\ LocalVersion(f) = fetch.gen
  /\ fetch' = NextFile(f)
  /\ UNCHANGED <<newest, mirror, disk, sidecar, mishaps>>

\* Mutant: the generation is recorded once the mirror answers.
RecordEarly(f) ==
  /\ fetch.pc = "local" /\ fetch.file = f /\ LocalVersion(f) # fetch.gen
  /\ fetch' = IF f \in mirror[fetch.gen] THEN [fetch EXCEPT !.pc = "copy"] ELSE NoFetch
  /\ sidecar' = [sidecar EXCEPT ![f] = IF f \in mirror[fetch.gen] THEN fetch.gen ELSE @]
  /\ UNCHANGED <<newest, mirror, disk, mishaps>>

\* A file that has gone from the mirror ends the run.
Request(f) ==
  /\ fetch.pc = "local" /\ fetch.file = f /\ LocalVersion(f) # fetch.gen
  /\ fetch' = IF f \in mirror[fetch.gen] THEN [fetch EXCEPT !.pc = "copy"] ELSE NoFetch
  /\ UNCHANGED <<newest, mirror, disk, sidecar, mishaps>>

\* writeAtomic: the bytes are in place at once, by a rename.
Rename(f) ==
  /\ fetch.pc = "copy" /\ fetch.file = f
  /\ disk' = [disk EXCEPT ![f] = fetch.gen]
  /\ fetch' = [fetch EXCEPT !.pc = "record"]
  /\ UNCHANGED <<newest, mirror, sidecar, mishaps>>

RecordVersion(f) ==
  /\ fetch.pc = "record" /\ fetch.file = f
  /\ sidecar' = [sidecar EXCEPT ![f] = fetch.gen]
  /\ fetch' = NextFile(f)
  /\ UNCHANGED <<newest, mirror, disk, mishaps>>

\* The run has read the files.
EndFetch == fetch.pc = "fetched" /\ fetch' = NoFetch /\ UNCHANGED <<newest, mirror, disk, sidecar, mishaps>>

Mishap == mishaps < MaxMishaps /\ mishaps' = mishaps + 1

\* A request that fails, a disk that is full, a process that is killed.
StopFetch == Mishap /\ fetch.pc # "off" /\ fetch' = NoFetch /\ UNCHANGED <<newest, mirror, disk, sidecar>>

\* A file is removed or emptied between runs, and its sidecar stays.
LoseFile(f) ==
  /\ Mishap /\ fetch.pc = "off" /\ disk[f] # 0
  /\ disk' = [disk EXCEPT ![f] = 0]
  /\ UNCHANGED <<newest, mirror, sidecar, fetch>>

NextMirror ==
  \/ List \/ StartFetch \/ EndFetch \/ StopFetch
  \/ \E g \in 1 .. Generations : Drop(g) \/ \E f \in Files : PublishFile(g, f)
  \/ \E f \in Files : HeadFile(f) \/ Reuse(f) \/ Request(f) \/ Rename(f) \/ RecordVersion(f) \/ LoseFile(f)

MirrorSpec == InitMirror /\ [][NextMirror]_mirrorVars

\* A generation is taken back, or a server that lags answers.
Withdraw(g) ==
  /\ Mishap /\ mirror[g] # {}
  /\ mirror' = [mirror EXCEPT ![g] = {}]
  /\ UNCHANGED <<newest, disk, sidecar, fetch>>

LaggingSpec == InitMirror /\ [][NextMirror \/ \E g \in 1 .. Generations : Withdraw(g)]_mirrorVars

-----------------------------------------------------------------------------
MirrorTypeOK ==
  /\ newest \in 1 .. Generations /\ mirror \in [1 .. Generations -> SUBSET Files]
  /\ disk \in [Files -> 0 .. newest] /\ sidecar \in [Files -> 0 .. newest]
  /\ fetch \in [pc : {"off", "head", "local", "copy", "record", "fetched"}, candidates : SUBSET (1 .. newest),
                 gen : 0 .. newest, file : Files]
  /\ mishaps \in 0 .. MaxMishaps

(* A run that has its files has a dump and an index of one generation, the    *)
(* one it reports, whatever runs stopped before it and wherever they did:     *)
(* the offsets of the index are those of the dump (Fetch).                    *)
DumpPaired == fetch.pc = "fetched" => \A f \in Files : disk[f] = fetch.gen
MirrorSound == MirrorTypeOK /\ DumpPaired

(* "a dump and an index whose byte offsets disagree can never be paired"      *)
(* (Fetch): refuted over a mirror that goes back a generation, when a run      *)
(* stopped between the rename of a file and the record of its generation.     *)
NeverMispaired == fetch.pc = "fetched" => \A f, g \in Files : disk[f] = disk[g]
=============================================================================
