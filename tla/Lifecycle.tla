------------------------------ MODULE Lifecycle ------------------------------
(***************************************************************************)
(* One worker service on ECS and the three handlers that look after it:    *)
(* scale follows the backlog of the newest versioned queue, cleanup        *)
(* retires task sets that a deploy has superseded, deploy adds a task set  *)
(* and makes it the PRIMARY.  Every task set runs the service's desired    *)
(* count and consumes the queue of its own version, or the default one     *)
(* where its task definition names none.                                   *)
(***************************************************************************)
EXTENDS Integers, FiniteSets, FiniteSetsExt, Functions

CONSTANTS
  Versions,           \* of the queue, in their order
  MaxSets,            \* bound: deploys
  MaxDepth, MaxPosts, \* bounds: messages in a queue, messages in all
  DefaultVersion,     \* what a worker consumes when nobody tells it
  Ratio, MinWorkers, MaxWorkers,  \* the scaling policy
  MaxAge, ZombieAge, SameAge  \* the retirement policy, in ticks of the clock

\* A policy that is loaded has a positive ratio and bounds; without a maximum the service is off.
ScalingOK == Ratio \in Nat \ {0} /\ MinWorkers \in Nat /\ MaxWorkers \in Nat /\ (MaxWorkers > 0 => MinWorkers <= MaxWorkers)

ASSUME LifecycleAssumption ==
  /\ Versions \subseteq Nat \ {0} /\ DefaultVersion \in Versions /\ IsFiniteSet(Versions)
  /\ MaxSets \in Nat \ {0} /\ MaxDepth \in Nat \ {0} /\ MaxPosts \in Nat
  /\ ScalingOK
  /\ MaxAge \in Nat /\ ZombieAge \in 0 .. MaxAge /\ SameAge \in 0 .. MaxAge

VARIABLES
  sets,      \* the task sets: status, version, running tasks, age
  desired, cooling, \* the desired count; the stamp that holds the next scaling back
  depth,     \* the messages of each declared queue
  producing, \* the version the producers are pinned to, 0 for none
  deploying, \* the task set being deployed, 0 for none
  sweep,     \* a cleanup under way: what it has read, and the sets it is to delete
  posts

lifecycleVars == <<sets, desired, cooling, depth, producing, deploying, sweep, posts>>

SetIds   == 1 .. MaxSets
Unused   == [status |-> "none", version |-> 0, running |-> 0, age |-> 0]
Primaries == {s \in SetIds : sets[s].status = "primary"}
Standing == {s \in SetIds : sets[s].status \in {"primary", "active"}}

\* The version a task set's workers consume; its own, 0 for none, is what its task definition names.
Reads(s) == IF sets[s].version = 0 THEN DefaultVersion ELSE sets[s].version
PrimaryVersion == IF Primaries = {} THEN 0 ELSE Reads(Min(Primaries))
NoSweep == [pc |-> "off", drained |-> {}, ages |-> [s \in SetIds |-> -1], primary |-> 0, doomed |-> {}, busy |-> {}]

InitLifecycle ==
  /\ sets = [s \in SetIds |-> Unused] /\ desired = 0 /\ cooling = FALSE
  /\ depth = << >> /\ producing = 0 /\ deploying = 0 /\ sweep = NoSweep /\ posts = 0

-----------------------------------------------------------------------------
(* The decisions.                                                          *)

\* A listing of the broker may miss queues.
Listings == {Restrict(depth, vs) : vs \in SUBSET DOMAIN depth}
Newest(depths) == Max(DOMAIN depths)

\* One step at most: a doubling, a halving.
StepToward(current, raw) ==
  IF raw > current THEN Min({raw, Max({1, current}) * 2}) ELSE Max({raw, current \div 2})

\* Mutant: the number of workers is rounded down.
DesiredFloor(current, backlog) ==
  IF MaxWorkers = 0 THEN 0 ELSE Min({MaxWorkers, Max({MinWorkers, StepToward(current, backlog \div Ratio)})})

ComputeDesiredCount(current, backlog) ==
  IF MaxWorkers = 0 THEN 0
  ELSE Min({MaxWorkers, Max({MinWorkers, StepToward(current, (backlog + Ratio - 1) \div Ratio)})})

SafeToRetire == desired = 0 \/ \E s \in Primaries : sets[s].running >= desired

\* The versions that are empty in a listing and not its newest.
Retirable(depths) ==
  IF Cardinality(DOMAIN depths) < 2 THEN {} ELSE {v \in DOMAIN depths \ {Newest(depths)} : depths[v] = 0}

(***************************************************************************)
(* Why a set s may go beside the PRIMARY p.  The ages are those at which   *)
(* the handler started; a set created since has none (-1).                 *)
(***************************************************************************)
Orphan(s) == sets[s].version = 0

SameVersion(s, p) == sets[s].version = sets[p].version /\ sweep.ages[s] >= SameAge

\* Mutant: a drained set goes before the producers are known to have moved on.
DrainedAtOnce(s, p) == sets[s].version \in sweep.drained \ {sets[p].version}

Drained(s, p) == sets[s].version \in sweep.drained \ {sets[p].version} /\ sweep.ages[p] >= MaxAge

Zombie(s) == sets[s].running = 0 /\ sweep.ages[s] >= ZombieAge

RetireReason(s, p) == Orphan(s) \/ SameVersion(s, p) \/ Drained(s, p) \/ Zombie(s)

-----------------------------------------------------------------------------
(* The handlers.                                                           *)

\* The count is set before its stamp, which may fail.
SetDesiredCount(count) == desired' = count /\ cooling' \in BOOLEAN

\* A tick of the scale handler.
Scale(depths) ==
  /\ ~cooling
  /\ depths # << >> \/ MaxWorkers = 0
  /\ LET backlog == IF depths = << >> THEN 0 ELSE depths[Newest(depths)] IN
     LET count == ComputeDesiredCount(desired, backlog) IN count # desired /\ SetDesiredCount(count)
  /\ UNCHANGED <<sets, depth, producing, deploying, sweep, posts>>

\* A tick of the cleanup handler: the time and the depths first, of which it uses what is drained.
CleanupList ==
  /\ sweep.pc = "off"
  /\ \E depths \in Listings :
       sweep' = [NoSweep EXCEPT !.pc = "listed", !.drained = Retirable(depths),
                                !.ages = [s \in SetIds |-> IF s \in Standing THEN sets[s].age ELSE -1]]
  /\ UNCHANGED <<sets, desired, cooling, depth, producing, deploying, posts>>

\* Then the task sets, each with its task definition, and what is to be done about them.
CleanupDescribe ==
  /\ sweep.pc = "listed"
  /\ \/ sweep' = NoSweep  \* a call fails
     \/ IF Primaries = {} \/ ~SafeToRetire THEN sweep' = NoSweep
        ELSE LET p == Min(Primaries)
                 old == {s \in Standing \ Primaries : RetireReason(s, p)}
             IN sweep' = IF old = {} THEN NoSweep
                         ELSE [NoSweep EXCEPT !.pc = "retire", !.primary = p, !.doomed = old,
                                              !.busy = {s \in old : sets[s].running > 0}]
  /\ UNCHANGED <<sets, desired, cooling, depth, producing, deploying, posts>>

\* Then the deletions, forced, one call each; a failed one does not hold the next ones back.
CleanupDelete ==
  /\ sweep.pc = "retire"
  /\ \E s \in sweep.doomed :
       /\ sweep' = IF sweep.doomed = {s} THEN NoSweep ELSE [sweep EXCEPT !.doomed = @ \ {s}]
       /\ \/ sets' = [sets EXCEPT ![s] = [Unused EXCEPT !.status = "gone"]]
          \/ UNCHANGED sets
  /\ UNCHANGED <<desired, cooling, depth, producing, deploying, posts>>

\* The family's version may have changed since the last deploy, up or down, or be missing (0).
DeployCreate(v) ==
  /\ deploying = 0
  /\ \E s \in SetIds :
       /\ sets[s] = Unused /\ \A t \in SetIds : sets[t] = Unused => s <= t
       /\ deploying' = s
       /\ sets' = [sets EXCEPT ![s] = [Unused EXCEPT !.status = "active", !.version = v]]
  /\ UNCHANGED <<desired, cooling, depth, producing, sweep, posts>>

\* The old PRIMARY stays as an active set.
Promoted(s) ==
  IF s = deploying THEN [sets[s] EXCEPT !.status = "primary"]
  ELSE IF s \in Primaries THEN [sets[s] EXCEPT !.status = "active"] ELSE sets[s]

\* A promotion that fails leaves the new task set behind as an active one.
DeployPromote ==
  /\ deploying # 0 /\ deploying' = 0
  /\ \/ UNCHANGED sets
     \/ sets[deploying].status = "active" /\ sets' = [s \in SetIds |-> Promoted(s)]
  /\ UNCHANGED <<desired, cooling, depth, producing, sweep, posts>>

-----------------------------------------------------------------------------
(* The cluster, the broker and the clock.                                  *)

Declared(v) == IF v \in DOMAIN depth THEN depth ELSE [u \in DOMAIN depth \cup {v} |-> IF u = v THEN 0 ELSE depth[u]]

\* Tasks start and stop until the desired count runs; a worker declares its queue.
Converge(s) ==
  /\ s \in Standing /\ sets[s].running # desired
  /\ sets' = [sets EXCEPT ![s].running = desired]
  /\ depth' = IF desired > 0 THEN Declared(Reads(s)) ELSE depth
  /\ UNCHANGED <<desired, cooling, producing, deploying, sweep, posts>>

\* Producers are pinned to the version of the PRIMARY, some time after its deploy.
Pin ==
  /\ Primaries # {} /\ producing # PrimaryVersion /\ producing' = PrimaryVersion
  /\ depth' = Declared(producing')
  /\ UNCHANGED <<sets, desired, cooling, deploying, sweep, posts>>

Post ==
  /\ producing # 0 /\ depth[producing] < MaxDepth /\ posts < MaxPosts
  /\ posts' = posts + 1
  /\ depth' = [depth EXCEPT ![producing] = @ + 1]
  /\ UNCHANGED <<sets, desired, cooling, producing, deploying, sweep>>

Consume(s) ==
  /\ s \in Standing /\ sets[s].running > 0 /\ Reads(s) \in DOMAIN depth /\ depth[Reads(s)] > 0
  /\ depth' = [depth EXCEPT ![Reads(s)] = @ - 1]
  /\ UNCHANGED <<sets, desired, cooling, producing, deploying, sweep, posts>>

(***************************************************************************)
(* Time passes.  The policy's MaxAge rests on an assumption about the      *)
(* rollout: no deploy takes that long, and once a PRIMARY is that old no   *)
(* producer is pinned to another version.                                  *)
(***************************************************************************)
Unsettled == {s \in SetIds : s = deploying \/ (s \in Primaries /\ producing \notin {0, Reads(s)})}
Older(s) == [sets[s] EXCEPT !.age = IF s \in Standing THEN Min({MaxAge, @ + 1}) ELSE @]
Pass ==
  /\ cooling \/ \E s \in Standing : sets[s].age < MaxAge
  /\ \A s \in Unsettled : sets[s].age + 1 < MaxAge
  /\ sets' = [s \in SetIds |-> Older(s)] /\ cooling' = FALSE
  /\ UNCHANGED <<desired, depth, producing, deploying, sweep, posts>>

NextLifecycle ==
  \/ \E depths \in Listings : Scale(depths)
  \/ CleanupList \/ CleanupDescribe \/ CleanupDelete \/ DeployPromote
  \/ \E v \in Versions \cup {0} : DeployCreate(v)
  \/ \E s \in SetIds : Converge(s) \/ Consume(s)
  \/ Pin \/ Post \/ Pass

\* The handlers are scheduled, most listings are whole, and workers work.
LifecycleFairness ==
  /\ SF_lifecycleVars(Scale(depth)) /\ SF_lifecycleVars(Pass) /\ WF_lifecycleVars(Pin)
  /\ WF_lifecycleVars(CleanupDescribe) /\ WF_lifecycleVars(CleanupDelete) /\ WF_lifecycleVars(DeployPromote)
  /\ \A s \in SetIds : SF_lifecycleVars(Converge(s)) /\ SF_lifecycleVars(Consume(s))

LifecycleSpec == InitLifecycle /\ [][NextLifecycle]_lifecycleVars /\ LifecycleFairness

-----------------------------------------------------------------------------
(* Properties.                                                             *)

\* Every variable keeps its type; there is at most one PRIMARY, and once one always one.
LifecycleTypeOK ==
  /\ desired \in 0 .. MaxWorkers /\ cooling \in BOOLEAN
  /\ \A s \in SetIds : sets[s] \in [status : {"none", "active", "primary", "gone"}, version : Versions \cup {0},
                                    running : 0 .. MaxWorkers, age : 0 .. MaxAge]
  /\ DOMAIN depth \subseteq Versions /\ \A v \in DOMAIN depth : depth[v] \in 0 .. MaxDepth
  /\ producing \in Versions \cup {0} /\ deploying \in SetIds \cup {0} /\ posts \in 0 .. MaxPosts
  /\ Cardinality(Primaries) <= 1

Retires(s) == s \in Standing /\ sets'[s].status = "gone"

(***************************************************************************)
(* A cleanup reads the depths, the task sets and their definitions, and    *)
(* deletes, at different times; scaling, deploys and work go on between.   *)
(* A task set that it saw working on another queue than the PRIMARY's,     *)
(* which its task definition names, is retired only once that queue is     *)
(* empty, as long as the PRIMARY is still the same.                        *)
(***************************************************************************)
SeenWorking(s) == s \in sweep.busy /\ sets[s].version # 0
OnAnotherQueue(s, p) == p \in Primaries /\ Reads(s) # Reads(p) /\ Reads(s) \in DOMAIN depth

WorkingSetDrained ==
  [][\A s \in SetIds : Retires(s) /\ SeenWorking(s) /\ OnAnotherQueue(s, sweep.primary) => depth[Reads(s)] = 0]_lifecycleVars

(***************************************************************************)
(* The scaling takes the newest queue for the PRIMARY's ("the newest       *)
(* version is the one the current PRIMARY workers consume").  Where it is, *)
(* its backlog is worked off in the end.                                   *)
(***************************************************************************)
NewestDrains ==
  MaxWorkers > 0 =>
    <>[](\A v \in DOMAIN depth : v = PrimaryVersion /\ v = Newest(depth) => depth[v] = 0)

\* The same wherever the PRIMARY's version stands in the order.
PrimaryDrains == <>[](\A v \in DOMAIN depth : v = PrimaryVersion => depth[v] = 0)

\* "never deletes a different-version set before its queues have drained" (cleanup.go).
NothingStranded ==
  [][\A s \in SetIds : Retires(s) /\ Reads(s) # PrimaryVersion /\ Reads(s) \in DOMAIN depth
        => depth[Reads(s)] = 0]_lifecycleVars
=============================================================================
