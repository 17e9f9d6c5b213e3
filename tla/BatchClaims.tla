------------------------------ MODULE BatchClaims ------------------------------
(***************************************************************************)
(* How sessions that wait for the repository lock are claimed, integrated  *)
(* and reported by the session that holds it (integrateCommand in          *)
(* handoff.ts, integration-batch.ts, acquireRepoLock in lock.ts).          *)
(*                                                                         *)
(* Every session has one JSON record on disk.  The command that works on   *)
(* it keeps a copy in memory and saves the whole copy; a batch leader      *)
(* keeps copies of the records it claimed and saves those.  Only a claim   *)
(* and a withdrawal read and write a record in one step, under the record  *)
(* lock.  The repository lock is the one of FileLock and Mutex.            *)
(*                                                                         *)
(* Which commits a group merges and how a failing group is split is        *)
(* abstracted: a group of members is promoted together, and a member may   *)
(* be promoted alone, fail alone or be left out.                           *)
(***************************************************************************)
EXTENDS Naturals, FiniteSets

CONSTANTS
  Sessions,    \* a set of naturals: ready order (readyAt, then id)
  DependsOn,   \* [Sessions -> SUBSET Sessions]
  MaxMembers,  \* integrationBatching.maxSessions - 1
  MaxRuns,     \* [Sessions -> Nat]: how often each session is integrated
  Crashes,     \* how many processes may stop anywhere
  Races,       \* the races that may occur, a subset of AllRaces
  None

(* "late_join": a session starts to wait after the leader took the batch's *)
(* joinedAt and before it read the records.  "early_stop": the batch stops *)
(* before every member is integrated.  "tick": the deadline falls between  *)
(* the two comparisons of one polling round.                               *)
AllRaces == {"late_join", "early_stop", "tick"}

ASSUME ConstantsAssumption ==
  /\ Sessions \subseteq Nat
  /\ DependsOn \in [Sessions -> SUBSET Sessions]
  /\ MaxMembers \in Nat
  /\ MaxRuns \in [Sessions -> Nat]
  /\ Crashes \in Nat
  /\ Races \subseteq AllRaces
  /\ None \notin Sessions

VARIABLES
  rec,      \* the session records on disk
  mem,      \* the record as the session's own command holds it
  pc,       \* the step of the session's command; "none": no process
  run,      \* how many commands the session has had; names the current one
  since,    \* the command's integrationWait.since
  lock,     \* owner of the repository lock: a session's command, or None
  batches,  \* number of batches begun; the joinedAt of the latest one
  cands,    \* waitingCandidates the leader has not looked at yet
  copy,     \* the member records the leader holds, by session
  plan,     \* what the leader will record for each claimed session
  group,    \* the sessions of the candidate being promoted
  landed,   \* sessions whose ready commit is in the target branch
  crashed   \* processes stopped so far

memory == <<mem, since, cands, copy, plan, group>>
vars == <<rec, mem, pc, run, since, lock, batches, cands, copy, plan, group,
          landed, crashed>>

------------------------------------------------------------------------------
(* Types.                                                                  *)
Outcomes == {"batched", "isolated", "excluded", "released"}

NoBatch == [id |-> 0, leader |-> None, run |-> 0, outcome |-> "none"]

BatchEntry == [id: Nat, leader: Sessions \cup {None}, run: Nat,
               outcome: Outcomes \cup {"none", "open"}]

(* status: needs_review, validation_pending and promotion_pending are      *)
(* "failed": only resume takes those.  wait: the run that advertised       *)
(* itself (integrationWait.pid), 0 when nobody waits.  started:            *)
(* integratedCommit or recoveryPhase is set.  replay: a direct integration *)
(* failed while it was replayed on a moved shared target                   *)
(* (remoteRecoveryCommit).                                                 *)
Record == [status: {"ready", "succeeded", "failed"}, wait: Nat,
           started: BOOLEAN, replay: BOOLEAN, batch: BatchEntry]

NoPlan == [stage |-> "none", outcome |-> "none"]
Plan == [stage: {"none", "open", "staging", "staged", "decided", "recorded"},
         outcome: Outcomes \cup {"none"}]

Waiting == {"polling", "waitCheck", "holdCheck"}
Batching == {"joining", "claiming", "processing", "stopping"}
Inside == {"locked", "leading", "alone", "directLanded", "aloneLanded",
           "finishing"} \cup Batching
PCs == {"none", "starting", "stopped", "timedOut", "foundStale", "failing",
        "unlocking", "unlocked", "late"} \cup Waiting \cup Inside

TypeOK ==
  /\ rec \in [Sessions -> Record]
  /\ mem \in [Sessions -> Record]
  /\ pc \in [Sessions -> PCs]
  /\ run \in [Sessions -> Nat]
  /\ since \in [Sessions -> Nat]
  /\ lock \in [by: Sessions \cup {None}, run: Nat]
  /\ batches \in Nat
  /\ cands \in SUBSET Sessions
  /\ copy \in [Sessions -> Record]
  /\ plan \in [Sessions -> Plan]
  /\ group \in SUBSET Sessions
  /\ landed \in SUBSET Sessions
  /\ crashed \in Nat

FreshRecord == [status |-> "ready", wait |-> 0, started |-> FALSE,
                replay |-> FALSE, batch |-> NoBatch]
Free == [by |-> None, run |-> 0]

Init ==
  /\ rec = [s \in Sessions |-> FreshRecord]
  /\ mem = [s \in Sessions |-> FreshRecord]
  /\ pc = [s \in Sessions |-> "none"]
  /\ run = [s \in Sessions |-> 0]
  /\ since = [s \in Sessions |-> 0]
  /\ lock = Free
  /\ batches = 0
  /\ cands = {}
  /\ copy = [s \in Sessions |-> FreshRecord]
  /\ plan = [s \in Sessions |-> NoPlan]
  /\ group = {}
  /\ landed = {}
  /\ crashed = 0

------------------------------------------------------------------------------
(* Helpers.                                                                *)
Alive(s, n) == run[s] = n /\ pc[s] # "none"

Holds(s) == lock = [by |-> s, run |-> run[s]] /\ pc[s] # "none"

StaleLock == lock.by # None /\ ~Alive(lock.by, lock.run)

(* assertDependencies reads the records of the dependencies.               *)
DependenciesMet(s) == \A d \in DependsOn[s] : rec[d].status = "succeeded"

(* The membership recorded during the wait that started at since.          *)
Joined(r, s) == r.batch.leader \notin {None, s} /\ r.batch.id >= since[s]

Resolved(r, s) == Joined(r, s) /\ r.batch.outcome \in {"batched", "isolated"}

(* Mutants: any recorded outcome ends the wait; an open claim does not hold *)
(* the wait at the deadline.   *)
AtPollAnyOutcome(s) ==
  IF ~Joined(rec[s], s) THEN "waitCheck"
  ELSE IF rec[s].batch.outcome = "open" THEN "holdCheck" ELSE "stopped"

AtDeadlineUnheld(s) == IF Resolved(rec[s], s) THEN "stopped" ELSE "timedOut"

(* What a poll and a passed deadline do with the record just read.         *)
AtPoll(s) ==
  IF Resolved(rec[s], s) THEN "stopped"
  ELSE IF Joined(rec[s], s) /\ rec[s].batch.outcome = "open"
       THEN "holdCheck" ELSE "waitCheck"

AtDeadline(s) ==
  IF Resolved(rec[s], s) THEN "stopped"
  ELSE IF rec[s].batch.outcome = "open" THEN "polling" ELSE "timedOut"

(* integrateCommand reads its record again when the wait is over.          *)
Reread(s) == rec[s]

(* A member must be waiting in a live process and have no earlier attempt. *)
Claimable(l, s) ==
  /\ s # l
  /\ rec[s].status = "ready"
  /\ rec[s].wait # 0
  /\ Alive(s, rec[s].wait)
  /\ ~rec[s].started
  /\ rec[s].batch = NoBatch \/ rec[s].batch.outcome = "released"

CanLead(l) == ~mem[l].started /\ mem[l].batch.outcome # "excluded"

(* The batch as a claimed session, or the leader, records it.              *)
Entry(l, n) == [id |-> batches, leader |-> l, run |-> n, outcome |-> "open"]

Members(l) == {s \in Sessions \ {l} : plan[s].stage # "none"}

At(stages) == {s \in Sessions : plan[s].stage \in stages}

(* The leader saves its own record from mem and a member's from copy.      *)
Held(l, s) == IF s = l THEN mem[s] ELSE copy[s]

Hold(l, s, r) == IF s = l THEN mem' = [mem EXCEPT ![s] = r] /\ UNCHANGED copy
                          ELSE copy' = [copy EXCEPT ![s] = r] /\ UNCHANGED mem

(* Mutants: a stopped batch records nothing; the leader leaves members it  *)
(* has not begun; the lock is given back by whoever fails.                 *)
RecordingNormally(l) == pc[l] = "processing"

NoneBegun == At({"staging", "staged", "decided", "recorded"}) = {}

ReleasedAlways(s) == Free

(* Results are recorded while the batch runs and after it was stopped, and *)
(* the leader leaves it when every claimed session has one.                *)
Recording(l) == pc[l] \in {"processing", "stopping"}

AllSettled == \A s \in Sessions : plan[s] = NoPlan

(* The finally clause gives the lock back if this command has it.          *)
Released(s) == IF Holds(s) THEN Free ELSE lock

Goto(s, from, to) == pc[s] = from /\ pc' = [pc EXCEPT ![s] = to]

(* What a command held in memory is gone when its process ends ...         *)
Vanish(s) == /\ mem' = [mem EXCEPT ![s] = FreshRecord]
             /\ since' = [since EXCEPT ![s] = 0]

(* ... and the batch's variables are memory of the lock holder.            *)
Forget == /\ cands' = {} /\ group' = {}
          /\ copy' = [s \in Sessions |-> FreshRecord]
          /\ plan' = [s \in Sessions |-> NoPlan]

batchVars == <<cands, copy, plan, group>>

------------------------------------------------------------------------------
(* The waiting side.                                                       *)

(* integrateCommand reads the record of a ready session and takes since.   *)
Begin(s) ==
  /\ Goto(s, "none", "starting")
  /\ run[s] < MaxRuns[s]
  /\ rec[s].status = "ready"
  /\ "late_join" \in Races \/ \A l \in Sessions :
                                  pc[l] \notin {"joining", "claiming"}
  /\ run' = [run EXCEPT ![s] = @ + 1]
  /\ mem' = [mem EXCEPT ![s] = rec[s]]
  /\ since' = [since EXCEPT ![s] = batches + 1]
  /\ UNCHANGED <<rec, lock, batches, batchVars, landed, crashed>>

(* Dependencies pass; the copy is saved with integrationWait.              *)
Advertise(s) ==
  /\ Goto(s, "starting", "polling")
  /\ DependenciesMet(s)
  /\ mem' = [mem EXCEPT ![s].wait = run[s]]
  /\ rec' = [rec EXCEPT ![s] = mem'[s]]
  /\ UNCHANGED <<run, since, lock, batches, batchVars, landed, crashed>>

DependencyBlocks(s) ==
  /\ Goto(s, "starting", "failing")
  /\ ~DependenciesMet(s)
  /\ UNCHANGED <<rec, memory, run, lock, batches, landed, crashed>>

(* acquireRepoLock: the lock file could be created.                        *)
Lock(s) ==
  /\ Goto(s, "polling", "locked")
  /\ lock = Free
  /\ lock' = [by |-> s, run |-> run[s]]
  /\ UNCHANGED <<rec, memory, run, batches, landed, crashed>>

(* onWait(false) of a round that found the lock taken: an open claim holds *)
(* the wait (and restarts the deadline), a recorded result ends it.        *)
Watch(s) ==
  /\ pc[s] = "polling"
  /\ lock # Free
  /\ pc' = [pc EXCEPT ![s] = AtPoll(s)]
  /\ UNCHANGED <<rec, memory, run, lock, batches, landed, crashed>>

(* Mutant: a claimed waiter does not look at the owner of the lock.        *)
FindStaleLockUnclaimed(s) ==
  /\ Goto(s, "waitCheck", "foundStale")
  /\ StaleLock
  /\ UNCHANGED <<rec, memory, run, lock, batches, landed, crashed>>

(* The owner is dead: the wait fails, the lock stays for the operator.     *)
FindStaleLock(s) ==
  /\ pc[s] \in {"holdCheck", "waitCheck"}
  /\ StaleLock
  /\ pc' = [pc EXCEPT ![s] = "foundStale"]
  /\ UNCHANGED <<rec, memory, run, lock, batches, landed, crashed>>

PollAgain(s) ==
  /\ pc[s] \in {"holdCheck", "waitCheck"}
  /\ pc' = [pc EXCEPT ![s] = "polling"]
  /\ UNCHANGED <<rec, memory, run, lock, batches, landed, crashed>>

(* onWait(true) at the deadline: a session that joined no batch withdraws  *)
(* under its record lock; an open claim holds; anything else times out.    *)
Expire(s) ==
  /\ pc[s] = "waitCheck"
  /\ \/ /\ ~Joined(rec[s], s)
        /\ rec' = [rec EXCEPT ![s].wait = 0]
        /\ pc' = [pc EXCEPT ![s] = "timedOut"]
     \/ /\ Joined(rec[s], s)
        /\ pc' = [pc EXCEPT ![s] = AtDeadline(s)]
        /\ UNCHANGED rec
  /\ UNCHANGED <<memory, run, lock, batches, landed, crashed>>

(* The first comparison is before the deadline, the second is not.         *)
ExpireBetweenChecks(s) ==
  /\ "tick" \in Races
  /\ Goto(s, "waitCheck", "timedOut")
  /\ UNCHANGED <<rec, memory, run, lock, batches, landed, crashed>>

(* The command ends; one that reports a failure of its session records an  *)
(* incident, which saves the copy when the investigation is over.          *)
Report(s, r) ==
  IF r.status = "failed"
  THEN /\ pc' = [pc EXCEPT ![s] = "late"]
       /\ mem' = [mem EXCEPT ![s] = r]
       /\ UNCHANGED since
  ELSE pc' = [pc EXCEPT ![s] = "none"] /\ Vanish(s)

(* The finally clause reads the record again; without the lock the command *)
(* reports a result of its leader or fails.                                *)
LeaveWait(s) ==
  /\ pc[s] \in {"stopped", "timedOut", "foundStale"}
  /\ IF pc[s] = "stopped" /\ Resolved(Reread(s), s)
     THEN Report(s, Reread(s))
     ELSE /\ pc' = [pc EXCEPT ![s] = "failing"]
          /\ mem' = [mem EXCEPT ![s] = Reread(s)]
          /\ UNCHANGED since
  /\ UNCHANGED <<rec, run, lock, batches, batchVars, landed, crashed>>

(* releaseStaleBatchClaim: an open claim of another leader; that leader is  *)
(* gone, for the lock is held here.                                        *)
ReleaseStale(r, s) ==
  IF r.batch.leader \notin {None, s} /\ r.batch.outcome = "open"
  THEN [r EXCEPT !.batch.outcome = "released"]
  ELSE r

(* With the lock: a result recorded meanwhile is reported, otherwise a     *)
(* claim of a leader that stopped is released, the wait is over and the    *)
(* dependencies are checked again.                                         *)
LeadOrReport(s) ==
  /\ pc[s] = "locked"
  /\ IF Resolved(Reread(s), s)
     THEN /\ pc' = [pc EXCEPT ![s] = "finishing"]
          /\ mem' = [mem EXCEPT ![s] = Reread(s)]
          /\ UNCHANGED rec
     ELSE /\ mem' = [mem EXCEPT ![s] = [ReleaseStale(Reread(s), s) EXCEPT !.wait = 0]]
          /\ rec' = [rec EXCEPT ![s] = mem'[s]]
          /\ pc' = [pc EXCEPT ![s] = IF DependenciesMet(s) THEN "leading" ELSE "failing"]
  /\ UNCHANGED <<run, since, lock, batches, batchVars, landed, crashed>>

------------------------------------------------------------------------------
(* The leader.                                                             *)

(* integrateWaitingBatch takes the batch's id and joinedAt ...             *)
StartBatch(l) ==
  /\ Goto(l, "leading", "joining")
  /\ MaxMembers > 0
  /\ CanLead(l)
  /\ batches' = batches + 1
  /\ UNCHANGED <<rec, memory, run, lock, landed, crashed>>

(* ... then reads every record once ...                                    *)
ReadCandidates(l) ==
  /\ Goto(l, "joining", "claiming")
  /\ cands' = {s \in Sessions : Claimable(l, s)}
  /\ UNCHANGED <<rec, mem, run, since, lock, batches, copy, plan, group, landed,
                 crashed>>

(* ... and claims the oldest first, checking each one again under its      *)
(* record lock.                                                            *)
Claim(l) ==
  /\ pc[l] = "claiming"
  /\ cands # {}
  /\ Cardinality(Members(l)) < MaxMembers
  /\ LET s == CHOOSE c \in cands : \A d \in cands : c <= d
     IN /\ cands' = cands \ {s}
        /\ IF DependenciesMet(s) /\ Claimable(l, s)
           THEN /\ rec' = [rec EXCEPT ![s].batch = Entry(l, rec[s].wait)]
                /\ copy' = [copy EXCEPT ![s] = rec'[s]]
                /\ plan' = [plan EXCEPT ![s] =
                     [stage |-> "open", outcome |-> "none"]]
           ELSE UNCHANGED <<rec, copy, plan>>
  /\ UNCHANGED <<mem, pc, run, since, lock, batches, group, landed, crashed>>

(* The claims are complete: with members the leader records its own role,  *)
(* without it integrates alone.                                            *)
EndClaims(l) ==
  /\ pc[l] = "claiming"
  /\ cands = {} \/ Cardinality(Members(l)) >= MaxMembers
  /\ cands' = {}
  /\ IF Members(l) = {}
     THEN /\ pc' = [pc EXCEPT ![l] = "alone"]
          /\ UNCHANGED <<rec, mem, plan>>
     ELSE /\ pc' = [pc EXCEPT ![l] = "processing"]
          /\ mem' = [mem EXCEPT ![l].batch = Entry(l, run[l])]
          /\ rec' = [rec EXCEPT ![l] = mem'[l]]
          /\ plan' = [plan EXCEPT ![l] =
               [stage |-> "open", outcome |-> "none"]]
  /\ UNCHANGED <<run, since, lock, batches, copy, group, landed, crashed>>

(* Batching is disabled or the leader cannot lead.                         *)
SkipBatch(l) ==
  /\ Goto(l, "leading", "alone")
  /\ MaxMembers = 0 \/ ~CanLead(l)
  /\ UNCHANGED <<rec, memory, run, lock, batches, landed, crashed>>

(* The batch goes on when the members it is done with are recorded.        *)
Settled == At({"decided", "recorded"}) = {}

(* recordCandidate and the recovery records save every member of a group.  *)
SaveMember(l, s) ==
  /\ pc[l] = "processing"
  /\ plan[s].stage = "open"
  /\ rec[s] # Held(l, s)
  /\ rec' = [rec EXCEPT ![s] = Held(l, s)]
  /\ UNCHANGED <<memory, pc, run, lock, batches, landed, crashed>>

(* A validated candidate of group sessions advances staging.               *)
Stage(l, g) ==
  /\ pc[l] = "processing"
  /\ group = {}
  /\ Settled
  /\ g # {}
  /\ g \subseteq At({"open"})
  /\ group' = g
  /\ plan' = [s \in Sessions |->
       IF s \in g
       THEN [stage |-> "staging",
             outcome |-> IF Cardinality(g) > 1 THEN "batched" ELSE "isolated"]
       ELSE plan[s]]
  /\ UNCHANGED <<rec, mem, pc, run, since, lock, batches, cands, copy, landed,
                 crashed>>

(* promoteCandidate records integratedCommit for one member after another. *)
RecordStaged(l, s) ==
  /\ pc[l] = "processing"
  /\ plan[s].stage = "staging"
  /\ LET r == [Held(l, s) EXCEPT !.started = TRUE]
     IN Hold(l, s, r) /\ rec' = [rec EXCEPT ![s] = r]
  /\ plan' = [plan EXCEPT ![s].stage = "staged"]
  /\ UNCHANGED <<pc, run, since, lock, batches, cands, group, landed, crashed>>

(* The promised results of a group whose sessions in bad failed.           *)
Decide(l, bad) ==
  LET result(s) == [Held(l, s) EXCEPT
        !.status = IF s \in bad THEN "failed" ELSE "succeeded"]
  IN /\ mem' = IF l \in group THEN [mem EXCEPT ![l] = result(l)] ELSE mem
     /\ copy' = [s \in Sessions |->
                   IF s \in group \ {l} THEN result(s) ELSE copy[s]]

(* Promotion: all of the group lands at once.  A member may still fail     *)
(* after it (post-integration checks, push, pull request).                 *)
Promote(l) ==
  /\ pc[l] = "processing"
  /\ group # {}
  /\ At({"staging"}) = {}
  /\ landed' = landed \cup group
  /\ \E bad \in SUBSET group : Decide(l, bad)
  /\ plan' = [s \in Sessions |-> IF s \in group
                THEN [plan[s] EXCEPT !.stage = "decided"] ELSE plan[s]]
  /\ group' = {}
  /\ UNCHANGED <<rec, pc, run, since, lock, batches, cands, crashed>>

(* The target moved or cannot be updated: the whole group fails, nothing   *)
(* landed, and the batch stops: who was not integrated yet is released.    *)
Block(l) ==
  /\ Goto(l, "processing", "stopping")
  /\ group # {}
  /\ At({"staging"}) = {}
  /\ "early_stop" \in Races \/ At({"open"}) = {}
  /\ Decide(l, group)
  /\ plan' = [s \in Sessions |->
       IF s \in group THEN [plan[s] EXCEPT !.stage = "decided"]
       ELSE IF plan[s].stage = "open"
       THEN [stage |-> "recorded", outcome |-> "released"] ELSE plan[s]]
  /\ group' = {}
  /\ UNCHANGED <<rec, run, since, lock, batches, cands, landed, crashed>>

(* A single session fails on the normal path, before anything is promoted. *)
FailAlone(l, s) ==
  /\ pc[l] = "processing"
  /\ group = {}
  /\ Settled
  /\ plan[s].stage = "open"
  /\ Hold(l, s, [Held(l, s) EXCEPT !.status = "failed"])
  /\ plan' = [plan EXCEPT ![s] = [stage |-> "decided", outcome |-> "isolated"]]
  /\ UNCHANGED <<rec, pc, run, since, lock, batches, cands, group, landed,
                 crashed>>

(* A member that conflicts with its group leaves the batch.                *)
Exclude(l, s) ==
  /\ pc[l] = "processing"
  /\ group = {}
  /\ Settled
  /\ plan[s].stage = "open"
  /\ plan' = [plan EXCEPT ![s] = [stage |-> "recorded", outcome |-> "excluded"]]
  /\ UNCHANGED <<rec, mem, pc, run, since, lock, batches, cands, copy, group,
                 landed, crashed>>

(* The batch stops elsewhere (a queue interruption, a failing Git command  *)
(* or record): staged members fail, the others are released.               *)
StopEarly(l) ==
  /\ "early_stop" \in Races
  /\ Goto(l, "processing", "stopping")
  /\ Settled
  /\ At({"open", "staging"}) # {}
  /\ LET fails == At({"staged"})
     IN /\ plan' = [s \in Sessions |->
             IF s \in fails THEN [plan[s] EXCEPT !.stage = "decided"]
             ELSE IF plan[s].stage \in {"open", "staging"}
             THEN [stage |-> "recorded", outcome |-> "released"]
             ELSE plan[s]]
        /\ copy' = [s \in Sessions |-> IF s \in fails \ {l}
             THEN [copy[s] EXCEPT !.status = "failed"] ELSE copy[s]]
        /\ mem' = IF l \in fails THEN [mem EXCEPT ![l].status = "failed"]
                                 ELSE mem
  /\ group' = {}
  /\ UNCHANGED <<rec, run, since, lock, batches, cands, landed, crashed>>

(* recordFailure, or the last save of a completed promotion: the status is *)
(* on disk before the outcome is.                                          *)
RecordResult(l, s) ==
  /\ Recording(l)
  /\ plan[s].stage = "decided"
  /\ LET r == [Held(l, s) EXCEPT !.wait =
                 IF s # l /\ Held(l, s).status = "failed" THEN 0 ELSE @]
     IN Hold(l, s, r) /\ rec' = [rec EXCEPT ![s] = r]
  /\ plan' = [plan EXCEPT ![s].stage = "recorded"]
  /\ UNCHANGED <<pc, run, since, lock, batches, cands, group, landed, crashed>>

(* resolve: an integrated member no longer waits, an excluded or released  *)
(* one still does.                                                         *)
Settle(l, s) ==
  /\ Recording(l)
  /\ plan[s].stage = "recorded"
  /\ LET r == [Held(l, s) EXCEPT
                 !.batch.outcome = plan[s].outcome,
                 !.wait = IF s # l /\ plan[s].outcome \in {"batched", "isolated"}
                          THEN 0 ELSE @]
     IN Hold(l, s, r) /\ rec' = [rec EXCEPT ![s] = r]
  /\ plan' = [plan EXCEPT ![s] = NoPlan]
  /\ UNCHANGED <<pc, run, since, lock, batches, cands, group, landed, crashed>>

(* Every claimed session is settled; the leader goes on with its own       *)
(* result.  A batch stopped by an error fails the command also when the    *)
(* leader itself had succeeded, been excluded or been released.            *)
EndBatch(l) ==
  /\ Recording(l)
  /\ AllSettled
  /\ \/ /\ mem[l].batch.outcome \in {"batched", "isolated"}
        /\ mem[l].status = "succeeded"
        /\ pc' = [pc EXCEPT ![l] = "finishing"]
     \/ /\ mem[l].batch.outcome \in {"excluded", "released"}
        /\ pc' = [pc EXCEPT ![l] = "alone"]
     \/ /\ pc[l] = "stopping" \/ mem[l].status = "failed"
        /\ pc' = [pc EXCEPT ![l] = "failing"]
  /\ Forget
  /\ UNCHANGED <<rec, mem, run, since, lock, batches, landed, crashed>>

------------------------------------------------------------------------------
(* The command's own integration and its end.                              *)

(* tryDirectIntegration (from "leading") or mergeAndValidate promotes the  *)
(* session ...                                                             *)
LandAlone(s) ==
  /\ \/ Goto(s, "leading", "directLanded")
     \/ Goto(s, "alone", "aloneLanded")
  /\ landed' = landed \cup {s}
  /\ mem' = [mem EXCEPT ![s].started = TRUE, ![s].status = "succeeded"]
  /\ UNCHANGED <<rec, run, since, lock, batches, batchVars, crashed>>

(* Mutant: a failure after the promotion leaves the session ready.         *)
RecordAloneUnmarked(s) ==
  /\ pc[s] \in {"directLanded", "aloneLanded"}
  /\ \/ /\ pc' = [pc EXCEPT ![s] = "finishing"]
        /\ rec' = [rec EXCEPT ![s] = mem[s]]
        /\ UNCHANGED mem
     \/ /\ pc' = [pc EXCEPT ![s] = "failing"]
        /\ mem' = [mem EXCEPT ![s].status = "ready"]
        /\ UNCHANGED rec
  /\ UNCHANGED <<run, since, lock, batches, batchVars, landed, crashed>>

(* ... and completePullRequestPromotion saves it, or a later step fails.   *)
(* The catch clause marks a failure of a merge in the worktree or of the   *)
(* pull request; a direct integration whose replay on a moved shared       *)
(* target fails in another phase stays ready (handoff.ts:1068).            *)
RecordAlone(s) ==
  /\ pc[s] \in {"directLanded", "aloneLanded"}
  /\ \/ /\ pc' = [pc EXCEPT ![s] = "finishing"]
        /\ rec' = [rec EXCEPT ![s] = mem[s]]
        /\ UNCHANGED mem
     \/ /\ pc' = [pc EXCEPT ![s] = "failing"]
        /\ mem' = [mem EXCEPT ![s].status = "failed"]
        /\ UNCHANGED rec
     \/ /\ Goto(s, "directLanded", "failing")
        /\ mem' = [mem EXCEPT ![s].status = "ready", ![s].replay = TRUE]
        /\ UNCHANGED rec
  /\ UNCHANGED <<run, since, lock, batches, batchVars, landed, crashed>>

(* A failure on the way.  Once the integration worktree is prepared (a     *)
(* conflict, a failing validation, a blocked promotion) it needs review; a *)
(* direct integration may have advanced staging and stay ready all the     *)
(* same when its promotion fails.                                          *)
FailOwn(s) ==
  /\ \/ /\ pc[s] \in {"leading", "alone"}
        /\ UNCHANGED mem
     \/ /\ pc[s] = "alone"
        /\ mem' = [mem EXCEPT ![s].status = "failed"]
     \/ /\ pc[s] = "leading"
        /\ \E status \in {"ready", "failed"} :
             mem' = [mem EXCEPT ![s].started = TRUE, ![s].status = status]
  /\ pc' = [pc EXCEPT ![s] = "failing"]
  /\ UNCHANGED <<rec, run, since, lock, batches, batchVars, landed, crashed>>

(* The catch clause saves the copy without the wait ...                    *)
SaveFailure(s) ==
  /\ Goto(s, "failing", "unlocking")
  /\ mem' = [mem EXCEPT ![s].wait = 0]
  /\ rec' = [rec EXCEPT ![s] = mem'[s]]
  /\ UNCHANGED <<run, since, lock, batches, batchVars, landed, crashed>>

(* ... gives the lock back if it has it ...                                *)
Unlock(s) ==
  /\ \/ Goto(s, "unlocking", "unlocked") /\ UNCHANGED <<mem, since>>
     \/ pc[s] = "finishing" /\ Report(s, mem[s])
  /\ lock' = Released(s)
  /\ UNCHANGED <<rec, run, batches, batchVars, landed, crashed>>

(* ... and saves the copy once more, and again when the investigation of   *)
(* the incident ends.                                                      *)
SaveLate(s) ==
  /\ rec' = [rec EXCEPT ![s] = mem[s]]
  /\ \/ Goto(s, "unlocked", "late") /\ UNCHANGED <<mem, since>>
     \/ Goto(s, "late", "none") /\ Vanish(s)
  /\ UNCHANGED <<run, lock, batches, batchVars, landed, crashed>>

(* The process stops; records, refs and the lock file stay as they are.    *)
Crash(s) ==
  /\ pc[s] # "none"
  /\ crashed < Crashes
  /\ crashed' = crashed + 1
  /\ pc' = [pc EXCEPT ![s] = "none"]
  /\ Vanish(s)
  /\ IF pc[s] \in Batching THEN Forget ELSE UNCHANGED batchVars
  /\ UNCHANGED <<rec, run, lock, batches, landed>>

(* The operator removes the lock of a dead owner (see FileLock).           *)
RemoveStaleLock ==
  /\ StaleLock
  /\ lock' = Free
  /\ UNCHANGED <<rec, memory, pc, run, batches, landed, crashed>>

WaitStep(s) ==
  \/ Advertise(s) \/ DependencyBlocks(s) \/ Lock(s) \/ Watch(s)
  \/ FindStaleLock(s) \/ PollAgain(s) \/ Expire(s) \/ ExpireBetweenChecks(s)
  \/ LeaveWait(s) \/ LeadOrReport(s)

LeadStep(l) ==
  \/ StartBatch(l) \/ ReadCandidates(l) \/ Claim(l) \/ EndClaims(l)
  \/ SkipBatch(l) \/ Promote(l) \/ Block(l) \/ StopEarly(l) \/ EndBatch(l)
  \/ \E g \in SUBSET At({"open"}) : Stage(l, g)
  \/ \E s \in Sessions :
       \/ SaveMember(l, s) \/ RecordStaged(l, s) \/ FailAlone(l, s)
       \/ Exclude(l, s) \/ RecordResult(l, s) \/ Settle(l, s)

EndStep(s) ==
  \/ LandAlone(s) \/ RecordAlone(s) \/ FailOwn(s) \/ SaveFailure(s)
  \/ Unlock(s) \/ SaveLate(s)

Next ==
  \/ \E s \in Sessions :
       Begin(s) \/ WaitStep(s) \/ LeadStep(s) \/ EndStep(s) \/ Crash(s)
  \/ RemoveStaleLock

Spec == Init /\ [][Next]_vars

(* A command that runs goes on.  A poll that keeps finding the lock taken  *)
(* reaches its deadline; a lock that keeps becoming free need not be won.  *)
Fairness ==
  /\ \A s \in Sessions :
       /\ WF_vars(WaitStep(s)) /\ WF_vars(EndStep(s))
       /\ WF_vars(LeadStep(s) \/ LandAlone(s) \/ FailOwn(s))
       /\ SF_vars(Expire(s)) /\ SF_vars(FindStaleLock(s))

FairSpec == Spec /\ Fairness

------------------------------------------------------------------------------
(* Properties.                                                             *)

Working(l, b) == Holds(l) /\ pc[l] \in Batching /\ batches = b

OpenClaim(s) == rec[s].batch.outcome = "open" /\ rec[s].batch.leader # s

(* At most one command integrates in a repository: whoever is past the     *)
(* lock wait owns the lock file (acquireRepoLock, the finally clauses of   *)
(* integrateCommand).                                                      *)
OneIntegrator == \A s \in Sessions : pc[s] \in Inside => Holds(s)

(* SPEC 10.3.1: a waiter never times out while claimed.  A command that    *)
(* gave up waiting is not one that a working leader claimed.               *)
NeverTimesOutClaimed ==
  \A s \in Sessions :
    pc[s] = "timedOut" =>
      ~(/\ OpenClaim(s)
        /\ rec[s].batch.run = run[s]
        /\ Working(rec[s].batch.leader, rec[s].batch.id))

(* A command that stopped waiting because its leader resolved it finds     *)
(* that result when it reads its record again, and so never fails with     *)
(* "Repository lock was not acquired".                                     *)
StoppedIsResolved ==
  \A s \in Sessions : pc[s] = "stopped" => Resolved(rec[s], s)

(* A claim is open only while its leader works on the batch: a batch that  *)
(* ends without a crash leaves no session claimed.                         *)
OpenClaimHasLeader ==
  \A s \in Sessions :
    OpenClaim(s) => Working(rec[s].batch.leader, rec[s].batch.id)

(* A record says succeeded only when the commit is in the target.          *)
SucceededLanded ==
  \A s \in Sessions : rec[s].status = "succeeded" => s \in landed

(* A session lands after everything it depends on, also when its leader    *)
(* checks the dependencies for it.                                         *)
DependenciesFirst == \A s \in landed : DependsOn[s] \subseteq landed

(* When no command runs any more and none crashed, a session whose commit  *)
(* landed reads as ready, which would have it integrated again, only if it *)
(* was integrated directly and failed while it was replayed on a moved     *)
(* shared target; its record then shows the attempt, so that no leader     *)
(* claims it as a session nothing was done for (the catch clause of        *)
(* integrateCommand, claimable).                                           *)
LandedIsRecorded ==
  (\A s \in Sessions : pc[s] = "none") =>
    \A s \in landed : rec[s].status = "ready" => rec[s].started /\ rec[s].replay

(* Every command that waits for the lock stops waiting: it gets the lock,  *)
(* its leader resolves it, or its deadline passes.                         *)
WaitEnds == \A s \in Sessions : pc[s] = "polling" ~> pc[s] \notin Waiting

(* Every claim is settled, or its leader is dead.                          *)
ClaimSettles ==
  \A s \in Sessions :
    OpenClaim(s) ~> (~OpenClaim(s) \/ ~Working(rec[s].batch.leader,
                                               rec[s].batch.id))
==============================================================================
