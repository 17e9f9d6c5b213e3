------------------------------ MODULE Validation ------------------------------
(***************************************************************************)
(* Validation of a session (process.ts, resource-lock.ts, cache.ts and the *)
(* part of handoff.ts around them).  A validating process waits for the    *)
(* mutex of its plan, reads which results are stored, runs the groups of   *)
(* its plan one after the other, the commands of a group in parallel,      *)
(* looks at its worktree again, and stores what passed.                    *)
(*                                                                         *)
(* A command needs leases of its resources, taken one key after the other  *)
(* under the key's gate file, and then a slot of the build queue, here a   *)
(* set of at most Capacity tasks (module Slots).  A process that dies      *)
(* leaves its gate files, leases, queue entries and running commands.      *)
(*                                                                         *)
(* Left out: the polling intervals, the inferred preparation as a command  *)
(* of the queue (only that it may fail), PID reuse and other hosts.        *)
(***************************************************************************)
EXTENDS Naturals, Sequences, FiniteSets

CONSTANTS Processes,   \* validating processes, each of a session of its own
          Commands,
          Keys,        \* resource keys, in the order of localeCompare
          Shared, Exclusive, \* the keys each command wants
          Plan,        \* per process: a sequence of sets of commands
          Tree,        \* per process: the tree it validates
          Baseline,    \* per process: the unstaged changes its session began
                       \* with, which stay in the worktree (gitBaseline)
          Earlier,     \* per process: results its session already has
          Attempts,    \* maxAttempts: 1 unless declared transient
          Repository,  \* the processes with validationCache "repository"
          Bypass,      \* the processes whose tier sets bypassBuildQueue
          Impatient,   \* the processes that may reach a deadline
          Failing, Leaky, Stuck, \* the commands that may fail, that may leave
                       \* descendants behind, whose leases may stay
          Mortal, Stopped, Edited, \* the processes that may die, that may be
                       \* told to stop, whose worktree may be edited
          Capacity,    \* the concurrency of the build queue
          None

(* What a configuration that loads says of commands and of plans.          *)
IsValidationCommand(c) ==
  /\ Shared[c] \subseteq Keys /\ Exclusive[c] \subseteq Keys
  /\ Shared[c] \cap Exclusive[c] = {}
  /\ Attempts[c] \in Nat \ {0}
IsValidationStepList(steps) ==
  \A i \in DOMAIN steps : steps[i] # {} /\ \A c \in steps[i] : IsValidationCommand(c)

ASSUME ValidationAssumption ==
  /\ Keys \subseteq Nat /\ IsFiniteSet(Keys)
  /\ \A p \in Processes : Plan[p] \in Seq(SUBSET Commands) /\ IsValidationStepList(Plan[p])
  /\ Earlier \in [Processes -> SUBSET Commands] /\ Repository \subseteq Processes
  /\ Capacity \in Nat \ {0}

VARIABLES pc,        \* the step of each process
          turn,      \* the group of its plan a process is in
          step,      \* the step of each task
          attempt,   \* the attempt of each task
          gate,      \* per key: the task whose gate file exists
          leases,    \* the lease files
          slots,     \* the tasks with a running queue entry
          work,      \* the tasks of whose command something runs
          hits,      \* what a process found stored
          own,       \* the results in each session's record
          stored,    \* the repository's results: <<tree, command>>
          aborted,   \* the processes told to stop (SIGINT, SIGTERM)
          edited,    \* the processes whose worktree is not what it was
          passed     \* <<tree, unstaged changes, command>> that passed: history

vars == <<pc, turn, step, attempt, gate, leases, slots, work, hits, own,
          stored, aborted, edited, passed>>
taskVars == <<step, attempt, gate, leases, slots, work>>
resultVars == <<hits, own, stored>>

Planned(p) == UNION {Plan[p][i] : i \in DOMAIN Plan[p]}
Owner(t) == t[1]
Command(t) == t[2]
Tasks == {t \in Processes \X Commands : Command(t) \in Planned(Owner(t))}

(* A result belongs to a tree, a command and the environment, here fixed.   *)
Fingerprint(p, c) == <<Tree[p], c>>

(* A command runs in the worktree: on the tree and on what is not committed. *)
RanOn(p, c) == <<Tree[p], Baseline[p], c>>

Inside == {"checking", "running", "verifying", "recording"}
Ended == {"validated", "failed", "dead"}

TypeOK ==
  /\ pc \in [Processes -> {"waiting"} \cup Inside \cup Ended]
  /\ turn \in [Processes -> Nat]
  /\ step \in [Tasks -> {"acquiring", "deciding", "queueing", "running",
                         "exited", "broken", "refused", "backoff", "passed",
                         "failed"}]
  /\ attempt \in [Tasks -> Nat]
  /\ gate \in [Keys -> Tasks \cup {None}]
  /\ leases \subseteq [key : Keys, mode : {"shared", "exclusive"}, task : Tasks]
  /\ slots \subseteq Tasks /\ work \subseteq Tasks
  /\ hits \in [Processes -> SUBSET Commands]
  /\ own \in [Processes -> SUBSET Commands]
  /\ aborted \subseteq Processes /\ edited \subseteq Processes

-----------------------------------------------------------------------------
(* A command's process ends soon after its validation did.                 *)
IsAlive(p) == pc[p] \notin Ended

Modes(c) == [k \in Shared[c] \cup Exclusive[c] |->
               IF k \in Exclusive[c] THEN "exclusive" ELSE "shared"]
Held(t) == {l.key : l \in {m \in leases : m.task = t}}
Missing(t) == DOMAIN Modes(Command(t)) \ Held(t)

(* Mutant: the exclusive keys first, in the order they are listed.         *)
NextKeyAsListed(t) ==
  LET wanted == IF Missing(t) \cap Exclusive[Command(t)] # {}
                THEN Missing(t) \cap Exclusive[Command(t)] ELSE Missing(t)
  IN CHOOSE k \in wanted : \A j \in wanted : k <= j

(* The requests of a command, sorted by key.                               *)
NextKey(t) == CHOOSE k \in Missing(t) : \A j \in Missing(t) : k <= j

(* removeDeadLocalLeases, then readLeases.                                 *)
LiveLeases == {l \in leases : IsAlive(Owner(l.task))}
Live(k) == {l \in LiveLeases : l.key = k}

(* Mutant: a shared request does not look at exclusive holders.            *)
ConflictsOneWay(t, k) == Modes(Command(t))[k] = "exclusive" /\ Live(k) # {}

Conflicts(t, k) == \E l \in Live(k) : "exclusive" \in {Modes(Command(t))[k], l.mode}

(* Running entries whose owner exited block every request.                 *)
Orphans == {t \in slots : ~IsAlive(Owner(t))}

(* The commands of the current group that are not stored run together.     *)
(* A plan may have no group.                                               *)
Current(p) == IF turn[p] \in DOMAIN Plan[p] THEN Plan[p][turn[p]] ELSE {}
Group(p) == {<<p, c>> : c \in Current(p) \ hits[p]}
LastGroup(p) == turn[p] >= Len(Plan[p])
Active(t) == pc[Owner(t)] = "running" /\ t \in Group(Owner(t))
Goto(t, from, to) == step[t] = from /\ step' = [step EXCEPT ![t] = to]
Go(p, from, to) == pc[p] = from /\ pc' = [pc EXCEPT ![p] = to]

(* Before the gate of its first key, or in the queue if it wants no key.   *)
First(c) == IF DOMAIN Modes(c) = {} THEN "queueing" ELSE "acquiring"

(* withValidationReuse: only with repository reuse does a process wait for *)
(* the mutex of its tree and plan.                                         *)
Init ==
  /\ pc = [p \in Processes |-> IF p \in Repository THEN "waiting" ELSE "checking"]
  /\ turn = [p \in Processes |-> 1]
  /\ step = [t \in Tasks |-> First(Command(t))]
  /\ attempt = [t \in Tasks |-> 1]
  /\ gate = [k \in Keys |-> None]
  /\ leases = {} /\ slots = {} /\ work = {}
  /\ hits = [p \in Processes |-> {}]
  /\ own = Earlier
  /\ stored = {} /\ aborted = {} /\ edited = {}
  /\ passed = UNION {{RanOn(p, c) : c \in Earlier[p]} : p \in Processes}

-----------------------------------------------------------------------------
(* Mutant: a mutex per session.                                            *)
EnterOwnReuse(p) ==
  /\ Go(p, "waiting", "checking")
  /\ UNCHANGED <<turn, taskVars, resultVars, aborted, edited, passed>>

(* The mutex; the operating system frees that of a dead holder.            *)
EnterReuse(p) ==
  /\ \A q \in Repository \ {p} :
       ~ /\ pc[q] \in Inside
         /\ <<Tree[q], Plan[q]>> = <<Tree[p], Plan[p]>>
  /\ Go(p, "waiting", "checking")
  /\ UNCHANGED <<turn, taskVars, resultVars, aborted, edited, passed>>

(* The deadline of the mutex, or a cancellation while waiting for it.      *)
LeaveWait(p) ==
  /\ p \in Impatient \cup aborted
  /\ Go(p, "waiting", "failed")
  /\ UNCHANGED <<turn, taskVars, resultVars, aborted, edited, passed>>

(* validationCacheFor *)
Available(p) == own[p] \cup {c \in Planned(p) : p \in Repository /\ Fingerprint(p, c) \in stored}

(* The source must be what it was when the session began, the unstaged     *)
(* changes included, about which assertSourceHandoffState only warns; then *)
(* what is stored need not run.  The preparation of what does run may fail. *)
Check(p) ==
  /\ pc[p] = "checking"
  /\ IF p \in edited
     THEN pc' = [pc EXCEPT ![p] = "failed"] /\ UNCHANGED hits
     ELSE /\ hits' = [hits EXCEPT ![p] = Available(p)]
          /\ \/ pc' = [pc EXCEPT ![p] = "running"]
             \/ /\ ~(Planned(p) \subseteq Available(p))
                /\ pc' = [pc EXCEPT ![p] = "failed"]
  /\ UNCHANGED <<turn, taskVars, own, stored, aborted, edited, passed>>

(* Every task of the group settles before the first failure is thrown, and *)
(* an abort is one too.                                                    *)
EndGroup(p) ==
  /\ pc[p] = "running"
  /\ \A t \in Group(p) : step[t] \in {"passed", "failed"}
  /\ IF \/ \E t \in Group(p) : step[t] = "failed"
        \/ LastGroup(p) /\ p \in aborted
     THEN pc' = [pc EXCEPT ![p] = "failed"] /\ UNCHANGED turn
     ELSE IF LastGroup(p)
     THEN pc' = [pc EXCEPT ![p] = "verifying"] /\ UNCHANGED turn
     ELSE turn' = [turn EXCEPT ![p] = @ + 1] /\ UNCHANGED pc
  /\ UNCHANGED <<taskVars, resultVars, aborted, edited, passed>>

(* Mutant: the worktree is not looked at again.                            *)
VerifyNothing(p) ==
  /\ Go(p, "verifying", "recording")
  /\ UNCHANGED <<turn, taskVars, resultVars, aborted, edited, passed>>

(* The worktree is compared with what the session began with once more.    *)
Verify(p) ==
  /\ Go(p, "verifying", IF p \in edited THEN "failed" ELSE "recording")
  /\ UNCHANGED <<turn, taskVars, resultVars, aborted, edited, passed>>

(* recordValidationCache, once per command that ran.                       *)
Record(p) ==
  /\ pc[p] = "recording"
  /\ \E c \in Planned(p) \ (hits[p] \cup own[p]) :
       /\ own' = [own EXCEPT ![p] = @ \cup {c}]
       /\ stored' = IF p \in Repository THEN stored \cup {Fingerprint(p, c)} ELSE stored
  /\ UNCHANGED <<pc, turn, taskVars, hits, aborted, edited, passed>>

(* sourceValidatedTree and sourceValidatedCommit are written.              *)
Validated(p) ==
  /\ Planned(p) \subseteq hits[p] \cup own[p]
  /\ Go(p, "recording", "validated")
  /\ UNCHANGED <<turn, taskVars, resultVars, aborted, edited, passed>>

-----------------------------------------------------------------------------
(* acquireOne: the gate file of the next key.                              *)
TakeGate(t) ==
  /\ Active(t) /\ Owner(t) \notin aborted
  /\ Goto(t, "acquiring", "deciding")
  /\ gate[NextKey(t)] = None
  /\ gate' = [gate EXCEPT ![NextKey(t)] = t]
  /\ UNCHANGED <<pc, turn, attempt, leases, slots, work, resultVars, aborted,
                 edited, passed>>

(* In the gate: leases of dead owners go, and one without conflict comes.  *)
(* The gate file is removed.  With all its leases the task asks for a slot. *)
Decide(t) ==
  LET k == NextKey(t) IN
  /\ Active(t)
  /\ Goto(t, "deciding", IF Conflicts(t, k) \/ Missing(t) # {k}
                         THEN "acquiring" ELSE "queueing")
  /\ leases' = (leases \ {l \in leases : l.key = k /\ l \notin LiveLeases})
                 \cup (IF Conflicts(t, k) THEN {}
                       ELSE {[key |-> k, mode |-> Modes(Command(t))[k], task |-> t]})
  /\ gate' = [gate EXCEPT ![k] = None]
  /\ UNCHANGED <<pc, turn, attempt, slots, work, resultVars, aborted, edited,
                 passed>>

(* The deadline of a key, a cancellation, or an unreadable lease.          *)
Refuse(t) ==
  /\ Active(t)
  /\ Owner(t) \in Impatient \cup aborted
  /\ Goto(t, "acquiring", "refused")
  /\ UNCHANGED <<pc, turn, attempt, gate, leases, slots, work, resultVars,
                 aborted, edited, passed>>

MayRun(t) == Owner(t) \in Bypass \/ (Orphans = {} /\ Cardinality(slots) < Capacity)

(* runQueued: in a slot, or at once when the tier bypasses the queue.      *)
Run(t) ==
  /\ Active(t) /\ Owner(t) \notin aborted
  /\ MayRun(t)
  /\ Goto(t, "queueing", "running")
  /\ slots' = IF Owner(t) \in Bypass THEN slots ELSE slots \cup {t}
  /\ work' = work \cup {t}
  /\ UNCHANGED <<pc, turn, attempt, gate, leases, resultVars, aborted, edited, passed>>

(* Orphans, no progress, or a cancellation.                                *)
NoSlot(t) ==
  /\ Active(t)
  /\ \/ Owner(t) \in Impatient \cup aborted
     \/ Owner(t) \notin Bypass /\ Orphans # {}
  /\ Goto(t, "queueing", "refused")
  /\ UNCHANGED <<pc, turn, attempt, gate, leases, slots, work, resultVars,
                 aborted, edited, passed>>

(* The command ends; its slot is given back.  What passed is the commit's  *)
(* tree with the changes the session began with, unless somebody edited.   *)
Exit(t) ==
  /\ Active(t)
  /\ \/ /\ Goto(t, "running", "exited")
        /\ Owner(t) \notin aborted
        /\ passed' = IF Owner(t) \in edited THEN passed
                     ELSE passed \cup {RanOn(Owner(t), Command(t))}
     \/ /\ Command(t) \in Failing \/ Owner(t) \in aborted
        /\ Goto(t, "running", "refused")
        /\ UNCHANGED passed
  /\ slots' = slots \ {t}
  /\ work' = work \ {t}
  /\ UNCHANGED <<pc, turn, attempt, gate, leases, resultVars, aborted, edited>>

(* QueueOwnershipUncertain: something of its process group lives on; the   *)
(* slot is kept, the command fails for good.                               *)
ExitLeaving(t) ==
  /\ Active(t)
  /\ Command(t) \in Leaky
  /\ Goto(t, "running", "broken")
  /\ UNCHANGED <<pc, turn, attempt, gate, leases, slots, work, resultVars,
                 aborted, edited, passed>>

(* releaseValidationResources, whatever the outcome; then success, another *)
(* attempt of a transient command, or failure.                             *)
Release(t) ==
  /\ Active(t)
  /\ \/ Goto(t, "exited", "passed")
     \/ Goto(t, "broken", "failed")
     \/ Goto(t, "refused", IF /\ attempt[t] < Attempts[Command(t)]
                              /\ Owner(t) \notin aborted
                           THEN "backoff" ELSE "failed")
  /\ leases' = {l \in leases : l.task # t}
  /\ UNCHANGED <<pc, turn, attempt, gate, slots, work, resultVars, aborted,
                 edited, passed>>

(* A lease that cannot be removed: no retry, whatever the command did.     *)
ReleaseFails(t) ==
  /\ Active(t)
  /\ Command(t) \in Stuck /\ Held(t) # {}
  /\ Goto(t, "exited", "failed") \/ Goto(t, "refused", "failed")
  /\ UNCHANGED <<pc, turn, attempt, gate, leases, slots, work, resultVars,
                 aborted, edited, passed>>

Retry(t) ==
  /\ Active(t)
  /\ Goto(t, "backoff", IF Owner(t) \in aborted THEN "failed"
                        ELSE First(Command(t)))
  /\ attempt' = [attempt EXCEPT ![t] = @ + 1]
  /\ UNCHANGED <<pc, turn, gate, leases, slots, work, resultVars, aborted,
                 edited, passed>>

-----------------------------------------------------------------------------
(* What happens around the processes.                                      *)
Abort(p) ==
  /\ p \in Stopped /\ pc[p] \in {"waiting", "running"}
  /\ aborted' = aborted \cup {p}
  /\ UNCHANGED <<pc, turn, taskVars, resultVars, edited, passed>>

Die(p) ==
  /\ p \in Mortal /\ IsAlive(p)
  /\ pc' = [pc EXCEPT ![p] = "dead"]
  /\ UNCHANGED <<turn, taskVars, resultVars, aborted, edited, passed>>

(* An edit is not undone before the process looks.                         *)
Edit(p) ==
  /\ p \in Edited /\ IsAlive(p)
  /\ edited' = edited \cup {p}
  /\ UNCHANGED <<pc, turn, taskVars, resultVars, aborted, passed>>

(* What a dead process or a leaky command left running ends.               *)
WorkEnds(t) ==
  /\ t \in work
  /\ step[t] \in {"broken", "failed"} \/ ~IsAlive(Owner(t))
  /\ work' = work \ {t}
  /\ UNCHANGED <<pc, turn, step, attempt, gate, leases, slots, resultVars,
                 aborted, edited, passed>>

(* queue recover --confirmed-stopped                                       *)
Recover(t) ==
  /\ t \in Orphans \ work
  /\ slots' = slots \ {t}
  /\ UNCHANGED <<pc, turn, step, attempt, gate, leases, work, resultVars,
                 aborted, edited, passed>>

TaskStep(t) == \/ TakeGate(t) \/ Decide(t) \/ Refuse(t) \/ Run(t) \/ NoSlot(t)
               \/ Exit(t) \/ ExitLeaving(t) \/ Release(t) \/ ReleaseFails(t)
               \/ Retry(t)
ProcessStep(p) == \/ EnterReuse(p) \/ LeaveWait(p) \/ Check(p) \/ EndGroup(p)
                  \/ Verify(p) \/ Record(p) \/ Validated(p)

Next == \/ \E p \in Processes : ProcessStep(p) \/ Abort(p) \/ Die(p) \/ Edit(p)
        \/ \E t \in Tasks : TaskStep(t) \/ WorkEnds(t) \/ Recover(t)

Spec == Init /\ [][Next]_vars

(* Processes go on and commands end.  Who polls a gate, a slot or the      *)
(* mutex gets it only if it stays free.  A deadline is a time: who waits   *)
(* until it passes is refused, whatever the polls find meanwhile.          *)
Fairness == /\ \A p \in Processes : WF_vars(ProcessStep(p))
            /\ \A t \in Tasks : WF_vars(TaskStep(t))
            /\ \A p \in Impatient : SF_vars(LeaveWait(p))
            /\ \A t \in Tasks : Owner(t) \in Impatient =>
                 SF_vars(Refuse(t)) /\ SF_vars(NoSlot(t))

FairSpec == Spec /\ Fairness

-----------------------------------------------------------------------------
(* Commands that want a key, one of them exclusively, never run together,  *)
(* also when one of them is what a dead process left running               *)
(* (resource-lock.ts:70, build-queue.ts:386).  Not true of bypassing tiers *)
(* and of commands that leave descendants behind, see the README.          *)
ResourcesRespected ==
  \A t, u \in work : \A k \in Keys :
    t # u /\ k \in DOMAIN Modes(Command(t)) /\ k \in DOMAIN Modes(Command(u))
    => Modes(Command(t))[k] = "shared" /\ Modes(Command(u))[k] = "shared"

(* A result in a session's record means that the command passed on that    *)
(* tree with the unstaged changes the session began with, a stored one     *)
(* that it did for one of the sessions that share results, and a session   *)
(* recorded as validated one of the two for each command of its plan:      *)
(* though people edit the worktree meanwhile, groups fail half way and     *)
(* processes die (handoff.ts:1320).                                        *)
PassedOnTree(p, c) ==
  \E q \in Repository : Tree[q] = Tree[p] /\ RanOn(q, c) \in passed

ResultsAreTrue ==
  /\ \A p \in Processes, c \in Commands :
       Fingerprint(p, c) \in stored => PassedOnTree(p, c)
  /\ \A p \in Processes :
       /\ \A c \in own[p] : RanOn(p, c) \in passed
       /\ pc[p] = "validated" => \A c \in Planned(p) :
            RanOn(p, c) \in passed \/ (p \in Repository /\ PassedOnTree(p, c))

(* Not true, see the README: docs/configuration.md:516 promises results for *)
(* "only the exact tree they checked", but what a session began with is    *)
(* not part of a result's fingerprint.                                     *)
ResultsAreExact ==
  \A p \in Processes :
    pc[p] = "validated" => \A c \in Planned(p) : RanOn(p, c) \in passed

(* Of processes with one plan, tree and repository reuse none runs what    *)
(* another has stored: the waiter rechecks (docs/build-queue.md:233).      *)
RunsOnce ==
  [][\A t \in work' \ work :
       Owner(t) \in Repository
       => Fingerprint(Owner(t), Command(t)) \notin stored]_vars

(* Every validation ends, those without a deadline as well as those with:  *)
(* waiting for several keys, slots and the mutex is never circular         *)
(* (resource-lock.ts:36).  Two things are left to a deadline or to people: *)
(* a process that died inside a resource gate, and a command that waits    *)
(* for what a failed one of its own group keeps, a lease that could not be *)
(* removed or the slot of a command that left descendants behind.          *)
StaleGate == \E k \in Keys : gate[k] # None /\ ~IsAlive(Owner(gate[k]))

WaitsForItself(p) ==
  \E t, u \in Group(p) :
    /\ step[t] = "failed" /\ (Held(t) # {} \/ t \in slots)
    /\ Active(u) /\ step[u] \notin {"passed", "failed"}

ValidationEnds ==
  \/ <>(StaleGate \/ \A p \in Processes : pc[p] \in Ended)
  \/ \E p \in Processes \ Impatient : <>[]WaitsForItself(p)
==============================================================================
