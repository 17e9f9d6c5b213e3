------------------------------ MODULE BuildQueue ------------------------------
(***************************************************************************)
(* The machine-wide build queue (build-queue.ts, queued-process.ts): every  *)
(* build or test command of every session waits for a slot, runs in it, and *)
(* gives it back.                                                           *)
(*                                                                         *)
(* A request's queue entry is a file; all reads and writes of entries and  *)
(* of the settings happen under the admission mutex (gate), which the      *)
(* operating system frees when its holder's process ends.  The holder is   *)
(* modelled by "gate"; the module AdmissionGate is about the mutex itself. *)
(* A process may have several requests at once.  When it ends, its entries *)
(* and its command's process group stay behind.                            *)
(***************************************************************************)
EXTENDS Integers, FiniteSets

CONSTANTS Requests,   \* the request ids, ordered as the entry ids are
          Processes,
          Owner,      \* the process of each request
          Times,      \* the values of queuedAt
          Limits,     \* capacities of the settings; the largest: unlimited
          Changes,    \* how often the concurrency is configured
          None

ASSUME QueueAssumption ==
  /\ Requests \subseteq Nat /\ IsFiniteSet(Requests)
  /\ None \notin Requests
  /\ Owner \in [Requests -> Processes]
  /\ Times \subseteq Nat
  /\ Limits \subseteq Nat \ {0}
  /\ Changes \in Nat

(* The slots that a setting of config.json stands for, on a machine with   *)
(* cpus and mib of memory: without config.json the setting is "auto", an   *)
(* invalid one fails the request that reads it.                            *)
Lower(a, b) == IF a < b THEN a ELSE b
Higher(a, b) == IF a < b THEN b ELSE a
DefaultConcurrency(cpus, mib) ==
  Higher(1, Lower(4, Lower(cpus \div 2, (mib - 2048) \div 4096)))
Settings == [concurrency : {"auto", "unlimited", "fixed"}, slots : Int, waitSeconds : Int]
Accepted(setting) ==
  /\ setting.concurrency = "fixed" => setting.slots \in 1..64
  /\ 1 \leq setting.waitSeconds /\ setting.waitSeconds \leq 86400
QueueCapacity(setting, cpus, mib, unlimited) ==
  CASE setting.concurrency = "unlimited" -> unlimited
    [] setting.concurrency = "auto" -> DefaultConcurrency(cpus, mib)
    [] OTHER -> setting.slots

(* worker-budget.ts: how many workers one command may use, such that as    *)
(* many commands as the queue lets run share the machine.                  *)
BoundedWorkers(cpus, slots) == Higher(1, Higher(1, cpus - 1) \div Higher(1, slots))
ResolveTestWorkers(setting, cpus, mib) ==
  BoundedWorkers(cpus, IF setting.concurrency = "fixed" /\ Accepted(setting)
                       THEN setting.slots ELSE DefaultConcurrency(cpus, mib))

VARIABLES entry,      \* the entry file of each request: none, waiting, running
          queuedAt,   \* taken when the command asks, before it registers
          pc,         \* the step of each request
          gate,       \* the request that holds the admission mutex
          group,      \* the requests of whose process group something is alive
          alive,      \* the processes that run
          limit,      \* config.json
          changes,    \* changes of the limit so far
          seen,       \* seenRunning: the running entries at the last poll
          place       \* lastPosition: the position at the last poll

vars == <<entry, queuedAt, pc, gate, group, alive, limit, changes, seen, place>>

Steps == {"idle", "asking", "registering", "pruning", "deciding", "polling",
          "stalled", "admitted", "executing", "releasing", "retained", "done",
          "dead"}

Unplaced == Cardinality(Requests)      \* lastPosition = Infinity

TypeOK == /\ entry \in [Requests -> {"none", "waiting", "running"}]
          /\ queuedAt \in [Requests -> Times \cup {None}]
          /\ pc \in [Requests -> Steps]
          /\ gate \in Requests \cup {None}
          /\ group \subseteq Requests
          /\ alive \subseteq Processes
          /\ limit \in Limits
          /\ changes \in 0..Changes
          /\ seen \in [Requests -> SUBSET Requests]
          /\ place \in [Requests -> Nat]

Init == /\ entry = [r \in Requests |-> "none"]
        /\ queuedAt = [r \in Requests |-> None]
        /\ pc = [r \in Requests |-> "idle"]
        /\ gate = None
        /\ group = {}
        /\ alive = Processes
        /\ limit \in Limits
        /\ changes = 0
        /\ seen = [r \in Requests |-> {}]
        /\ place = [r \in Requests |-> Unplaced]

-----------------------------------------------------------------------------
OwnerAlive(r) == Owner[r] \in alive

Running == {r \in Requests : entry[r] = "running"}
Waiting == {r \in Requests : entry[r] = "waiting" /\ OwnerAlive(r)}
Orphans == {r \in Running : ~OwnerAlive(r)}

(* queueEntries sorts by queuedAt, then by id.                             *)
Before(q, r) == \/ queuedAt[q] < queuedAt[r]
                \/ queuedAt[q] = queuedAt[r] /\ q < r

Position(r) == Cardinality({q \in Waiting : Before(q, r)})

(* Mutants: one slot too many; slots for whoever polls first; only the     *)
(* position is progress; the position compared with the initial one.       *)
FitsAtLimit(r) == Position(r) + Cardinality(Running) <= limit
FitsAnyone(r) == Cardinality(Running) < limit
ProgressedByPosition(r) == Position(r) < place[r]
ProgressedEver(r) == Position(r) < Unplaced \/ ~(seen[r] \subseteq Running)

(* "Reserve capacity for earlier waiters": position < limit - running.     *)
Fits(r) == Position(r) + Cardinality(Running) < limit

Progressed(r) == Position(r) < place[r] \/ ~(seen[r] \subseteq Running)

Goto(r, from, to) == pc[r] = from /\ pc' = [pc EXCEPT ![r] = to]

-----------------------------------------------------------------------------
(* A session asks for a slot; the entry is stamped before it is written.   *)
Ask(r) ==
  /\ OwnerAlive(r)
  /\ Goto(r, "idle", "asking")
  /\ \E t \in Times : queuedAt' = [queuedAt EXCEPT ![r] = t]
  /\ UNCHANGED <<entry, gate, group, alive, limit, changes, seen, place>>

(* The admission mutex: to register the first time, then at every poll.    *)
Enter(r) ==
  /\ gate = None
  /\ Goto(r, "asking", "registering") \/ Goto(r, "polling", "pruning")
  /\ gate' = r
  /\ UNCHANGED <<entry, queuedAt, group, alive, limit, changes, seen, place>>

Register(r) ==
  /\ Goto(r, "registering", "pruning")
  /\ entry' = [entry EXCEPT ![r] = "waiting"]
  /\ UNCHANGED <<queuedAt, gate, group, alive, limit, changes, seen, place>>

(* Entries of dead waiting owners are deleted.                             *)
Prune(r) ==
  /\ Goto(r, "pruning", "deciding")
  /\ entry' = [q \in Requests |->
                 IF entry[q] = "waiting" /\ ~OwnerAlive(q) THEN "none"
                 ELSE entry[q]]
  /\ UNCHANGED <<queuedAt, gate, group, alive, limit, changes, seen, place>>

(* An orphaned running entry fails the request; one that fits is admitted, *)
(* its running entry written under the mutex; another one waits on.        *)
Decide(r) ==
  /\ pc[r] = "deciding"
  /\ gate' = None
  /\ IF entry[r] # "waiting" \/ Orphans # {}
     THEN /\ pc' = [pc EXCEPT ![r] = "releasing"]
          /\ UNCHANGED <<entry, seen, place>>
     ELSE /\ pc' = [pc EXCEPT ![r] = IF Fits(r) THEN "admitted"
                                     ELSE IF Progressed(r) THEN "polling"
                                     ELSE "stalled"]
          /\ entry' = IF Fits(r) THEN [entry EXCEPT ![r] = "running"] ELSE entry
          /\ seen' = [seen EXCEPT ![r] = Running]
          /\ place' = [place EXCEPT ![r] = Position(r)]
  /\ UNCHANGED <<queuedAt, group, alive, limit, changes>>

(* Without progress the deadline stands: it is over, or the poll repeats.  *)
PollAgain(r) ==
  /\ Goto(r, "stalled", "polling")
  /\ UNCHANGED <<entry, queuedAt, gate, group, alive, limit, changes, seen,
                 place>>

TimeOut(r) ==
  /\ Goto(r, "stalled", "releasing")
  /\ UNCHANGED <<entry, queuedAt, gate, group, alive, limit, changes, seen,
                 place>>

(* A signal, or an admission mutex busy for ten seconds, ends the request; *)
(* one that has registered releases its entry.                             *)
Cancel(r) ==
  /\ \/ Goto(r, "asking", "done")
     \/ \E s \in {"polling", "stalled", "admitted"} : Goto(r, s, "releasing")
  /\ UNCHANGED <<entry, queuedAt, gate, group, alive, limit, changes, seen,
                 place>>

Spawn(r) ==
  /\ Goto(r, "admitted", "executing")
  /\ group' = group \cup {r}
  /\ UNCHANGED <<entry, queuedAt, gate, alive, limit, changes, seen, place>>

SpawnFails(r) ==
  /\ Goto(r, "admitted", "releasing")
  /\ UNCHANGED <<entry, queuedAt, gate, group, alive, limit, changes, seen,
                 place>>

(* The command and its descendants end, by themselves or terminated.       *)
GroupEnds(r) ==
  /\ r \in group
  /\ group' = group \ {r}
  /\ UNCHANGED <<entry, queuedAt, pc, gate, alive, limit, changes, seen, place>>

(* Mutant: the slot is released when the command itself has ended.         *)
CloseReleases(r) ==
  /\ Goto(r, "executing", "releasing")
  /\ UNCHANGED <<entry, queuedAt, gate, group, alive, limit, changes, seen,
                 place>>

(* The command is closed.  If something of its group is alive the          *)
(* ownership is uncertain: the slot is retained.                           *)
Close(r) ==
  /\ pc[r] = "executing"
  /\ pc' = [pc EXCEPT ![r] = IF r \in group THEN "retained" ELSE "releasing"]
  /\ UNCHANGED <<entry, queuedAt, gate, group, alive, limit, changes, seen,
                 place>>

(* releaseBuildSlot: one transaction under the mutex ...                   *)
Release(r) ==
  /\ gate = None
  /\ Goto(r, "releasing", "done")
  /\ entry' = [entry EXCEPT ![r] = "none"]
  /\ UNCHANGED <<queuedAt, gate, group, alive, limit, changes, seen, place>>

(* ... which fails, the entry left behind, when the mutex stays busy.      *)
ReleaseBusy(r) ==
  /\ gate # None
  /\ Goto(r, "releasing", "retained")
  /\ UNCHANGED <<entry, queuedAt, gate, group, alive, limit, changes, seen,
                 place>>

(* A process ends, at any step.  Its files and its commands stay; its      *)
(* mutex is freed by the operating system.                                 *)
Die(p) ==
  /\ p \in alive
  /\ alive' = alive \ {p}
  /\ pc' = [r \in Requests |-> IF Owner[r] = p THEN "dead" ELSE pc[r]]
  /\ gate' = IF gate # None /\ Owner[gate] = p THEN None ELSE gate
  /\ UNCHANGED <<entry, queuedAt, group, limit, changes, seen, place>>

(* queue recover --confirmed-stopped: for an entry without a live owner;   *)
(* the operator has seen that its whole workload stopped.                  *)
Recover(r) ==
  /\ gate = None
  /\ entry[r] # "none" /\ ~OwnerAlive(r)
  /\ r \notin group
  /\ entry' = [entry EXCEPT ![r] = "none"]
  /\ UNCHANGED <<queuedAt, pc, gate, group, alive, limit, changes, seen, place>>

(* queue configure --concurrency.                                          *)
Configure ==
  /\ gate = None
  /\ changes < Changes
  /\ limit' \in Limits \ {limit}
  /\ changes' = changes + 1
  /\ UNCHANGED <<entry, queuedAt, pc, gate, group, alive, seen, place>>

RequestStep(r) ==
  \/ Ask(r) \/ Enter(r) \/ Register(r) \/ Prune(r) \/ Decide(r)
  \/ PollAgain(r) \/ TimeOut(r) \/ Cancel(r) \/ Spawn(r) \/ SpawnFails(r)
  \/ Close(r) \/ Release(r) \/ ReleaseBusy(r)

Next == \/ \E r \in Requests : RequestStep(r) \/ GroupEnds(r) \/ Recover(r)
        \/ \E p \in Processes : Die(p)
        \/ Configure

Spec == Init /\ [][Next]_vars

(* A live process goes on; the mutex's wait is bounded by ten seconds; a   *)
(* request that never makes progress reaches its deadline.                 *)
Fairness ==
  \A r \in Requests :
    /\ WF_vars(Enter(r) \/ Cancel(r)) /\ WF_vars(Register(r))
    /\ WF_vars(Prune(r)) /\ WF_vars(Decide(r)) /\ WF_vars(PollAgain(r))
    /\ SF_vars(TimeOut(r)) /\ WF_vars(Release(r) \/ ReleaseBusy(r))

FairSpec == Spec /\ Fairness

-----------------------------------------------------------------------------
(* While the process lives its requests and their entry files agree at     *)
(* every step: "ownership lost" and "ownership changed" are never reported, *)
(* and a settled request leaves no entry that blocks the queue.            *)
EntryFollowsRequest ==
  \A r \in Requests : OwnerAlive(r) =>
    /\ pc[r] \in {"idle", "asking", "registering", "done"} => entry[r] = "none"
    /\ pc[r] \in {"pruning", "deciding", "polling", "stalled"} =>
         entry[r] = "waiting"
    /\ pc[r] \in {"admitted", "executing"} => entry[r] = "running"

(* Whatever dies, nothing of a command runs without a running entry: "Dead *)
(* waiting owners cannot have launched work", and no slot is given back    *)
(* while descendants run.                                                  *)
WorkloadHasSlot == \A r \in group : entry[r] = "running"

(* A waiter that fits keeps its reservation while others are admitted,     *)
(* released, pruned or recovered; only an entry with an earlier stamp or a *)
(* new limit takes it away.                                                *)
ReservationKept ==
  [][\A r \in Requests :
       /\ entry[r] = "waiting" /\ OwnerAlive(r) /\ Fits(r)
       /\ entry'[r] = "waiting" /\ OwnerAlive(r)'
       /\ limit' = limit
       /\ \A q \in Waiting' : Before(q, r)' => q \in Waiting
       => Fits(r)']_vars

(* The queue implements slots: admitted within the limit of that moment,   *)
(* launched in a slot only, freed when nothing of the command runs.        *)
S == INSTANCE Slots WITH taken <- Running, busy <- group
ImplementsSlots == S!Spec

(* Every request is admitted, or ends, whatever dies: the deadline without *)
(* progress comes even when positions go up and down.                      *)
RequestsSettle ==
  \A r \in Requests :
    pc[r] = "asking" ~>
      pc[r] \in {"admitted", "executing", "retained", "done", "dead"}
==============================================================================
