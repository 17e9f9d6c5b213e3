--------------------------- MODULE IntegrationBatch ---------------------------
(* One integration batch, from the claims it made to the outcome it leaves   *)
(* for each session: candidates are merged, validated once, staged and       *)
(* promoted; one that fails is split in halves until each session that fails *)
(* has been integrated alone. The leader's process does all of it under the  *)
(* repository lock (BatchClaims has the claims and the waiting side), while  *)
(* users commit to the target and move staging.                              *)
(*                                                                           *)
(* A commit is the set of the changes it descends from, which is its tree as *)
(* well: every merge here is a proper one.                                   *)
EXTENDS Naturals, Sequences, Functions

CONSTANTS
  Order,      \* the leader and the members it claimed, in ready order
  Leader,
  Users,      \* each commits one change to the target
  Worlds,     \* what the changes are like: see World
  Checks,     \* are post-integration commands configured
  MaxFaults,  \* bound: failures for another reason than a session's change
  None

Sessions == Range(Order)
Change == Sessions \cup Users

(* What a ready commit brings, which changes Git cannot merge, which ones    *)
(* fail the validation where they meet.                                      *)
World == [brings : [Sessions -> SUBSET Change],
          clash : SUBSET SUBSET Change, breaks : SUBSET SUBSET Change]

ASSUME BatchAssumption ==
  /\ IsInjective(Order) /\ Leader \in Sessions /\ Worlds \subseteq World
  /\ \A w \in Worlds, s \in Sessions : s \in w.brings[s]
  /\ Order \in Seq(Sessions) /\ Sessions \cap Users = {} /\ \A t \in SUBSET Change : t # None
  /\ Checks \in BOOLEAN /\ MaxFaults \in Nat

VARIABLES
  world,
  target, staging,  \* the two branches; staging may not exist yet
  rec,              \* the session records on disk
  mem,              \* the copies the leader's process works with
  pc,
  todo,             \* the groups processGroup has yet to process
  asm,              \* the candidate: the assembly and what it was built on
  cursor,           \* which of its sessions is recorded next
  failed,           \* failedTrees
  preserved,        \* which of the two batch worktrees are not clean
  aborted,          \* did processGroup throw, and was it BatchUnavailable
  leaderError,
  result,           \* what integrateWaitingBatch returns
  faults,
  validated         \* history: the trees that passed

vars == <<world, target, staging, rec, mem, pc, todo, asm, cursor, failed,
          preserved, aborted, leaderError, result, faults, validated>>
branches == <<target, staging>>
records == <<rec, mem>>
plan == <<todo, asm, cursor, failed>>
ending == <<aborted, leaderError, result>>

Record == [status : {"ready", "review", "pending", "succeeded"},
           integrated : (SUBSET Change) \cup {None}, promoted : BOOLEAN,
           outcome : {"none", "open", "excluded", "isolated", "batched", "released"},
           waiting : BOOLEAN]

TypeOK ==
  /\ world \in Worlds /\ target \subseteq Change
  /\ staging \in (SUBSET Change) \cup {None}
  /\ rec \in [Sessions -> Record] /\ mem \in [Sessions -> Record]
  /\ pc \in {"open", "group", "alone", "validate", "stage", "record", "promote",
             "promoted", "complete", "wrap", "done"}
  /\ \A i \in DOMAIN todo : todo[i] \in Seq(Sessions)
  /\ asm.staging \in (SUBSET Change) \cup {None} /\ asm.included \in Seq(Sessions)
  /\ asm.target \subseteq Change /\ asm.commit \subseteq Change
  /\ cursor \in 1 .. Len(Order) /\ failed \subseteq SUBSET Change
  /\ preserved \subseteq 1 .. 2 /\ aborted \in {"no", "unavailable", "error"}
  /\ leaderError \in BOOLEAN /\ result \in {"none", "running", "done", "alone", "failed"}
  /\ faults \in 0 .. MaxFaults /\ validated \subseteq SUBSET Change

Ready(s) == world.brings[s]
Clashing(a, b) == \E c \in a \ b, d \in b \ a : {c, d} \in world.clash
Broken(tree) == \E b \in world.breaks : b \subseteq tree

Init ==
  /\ world \in Worlds
  /\ target = {} /\ staging \in {None, {}}
  /\ rec = [s \in Sessions |-> [status |-> "ready", integrated |-> None, promoted |-> FALSE,
              outcome |-> "none", waiting |-> s # Leader]]
  /\ mem = rec /\ pc = "open" /\ todo = <<Order>>
  /\ asm = [staging |-> None, target |-> {}, commit |-> {}, included |-> <<>>]
  /\ cursor = 1 /\ failed = {} /\ preserved \in {{}, {1}}
  /\ aborted = "no" /\ leaderError = FALSE /\ result = "running"
  /\ faults = 0 /\ validated = {}

------------------------------------------------------------------------------
(* Records                                                                   *)

Save(m) == rec' = m /\ mem' = m

(* recordFailure, for each of these: the leader's own catch reports it.      *)
Fail(m, who) ==
  [s \in Sessions |-> IF s \notin who THEN m[s]
     ELSE [m[s] EXCEPT !.status = IF @ = "pending" THEN @ ELSE "review", !.waiting = FALSE]]
Blame(who) == leaderError' = (leaderError \/ Leader \in who)

(* resolve: who is batched or isolated waits no longer.                      *)
Resolve(m, who, how) ==
  [s \in Sessions |-> IF s \notin who THEN m[s]
     ELSE [m[s] EXCEPT !.outcome = how,
                       !.waiting = @ /\ how \notin {"batched", "isolated"}]]

Fault == faults < MaxFaults /\ faults' = faults + 1
Abort(how) == pc' = "wrap" /\ aborted' = how

------------------------------------------------------------------------------
(* The groups                                                                *)

StagingFits == staging # None => staging \subseteq target

(* stagingCanAdvance: a batch is formed at all.                              *)
Open ==
  /\ pc = "open"
  /\ IF StagingFits
     THEN /\ pc' = "group" /\ UNCHANGED result
          /\ Save([s \in Sessions |-> [rec[s] EXCEPT !.outcome = "open"]])
     ELSE pc' = "done" /\ result' = "none" /\ UNCHANGED records
  /\ UNCHANGED <<world, branches, plan, preserved, aborted, leaderError, faults, validated>>

(* What assemble makes of a group: a session whose commit is there already   *)
(* is included, one that conflicts is not.                                   *)
Joined(a, s) ==
  IF Clashing(a.commit, Ready(s)) THEN a
  ELSE [a EXCEPT !.commit = @ \cup Ready(s), !.included = Append(@, s)]
Assembly(g) ==
  LET assembly[i \in 0 .. Len(g)] ==
        IF i = 0 THEN [staging |-> staging, target |-> target, commit |-> target, included |-> <<>>]
        ELSE Joined(assembly[i - 1], g[i])
  IN  assembly
Assembled(g) == Assembly(g)[Len(g)]

Half(n) == IF n \div 2 < 1 THEN 1 ELSE n \div 2
OneWhole(g) == <<g>>
HalvesSkipping(g) == <<SubSeq(g, 1, Half(Len(g))), SubSeq(g, Half(Len(g)) + 2, Len(g))>>
Halves(g) == <<SubSeq(g, 1, Half(Len(g))), SubSeq(g, Half(Len(g)) + 1, Len(g))>>

WithoutExcluded ==
  Resolve(mem, Range(Head(todo)) \ Range(Assembled(Head(todo)).included), "excluded")

(* A group that is empty, or of one.                                         *)
Small ==
  /\ pc = "group" /\ todo # <<>> /\ Len(Head(todo)) <= 1
  /\ IF Head(todo) = <<>> THEN todo' = Tail(todo) /\ UNCHANGED pc
     ELSE pc' = "alone" /\ UNCHANGED todo
  /\ UNCHANGED <<world, branches, records, asm, cursor, failed, preserved, ending, faults, validated>>

(* A tree that failed before in this batch is split without a run.           *)
Assemble ==
  LET made == Assembled(Head(todo))
      group == made.included
  IN /\ pc = "group" /\ todo # <<>> /\ Len(Head(todo)) > 1 /\ StagingFits
     /\ Save(WithoutExcluded)
     /\ asm' = made
     /\ \/ /\ Len(group) <= 1
           /\ todo' = <<group>> \o Tail(todo) /\ UNCHANGED pc
        \/ /\ Len(group) > 1 /\ made.commit \in failed
           /\ todo' = Halves(group) \o Tail(todo) /\ UNCHANGED pc
        \/ /\ Len(group) > 1 /\ made.commit \notin failed
           /\ todo' = Tail(todo) /\ pc' = "validate"
     /\ UNCHANGED <<world, branches, cursor, failed, preserved, ending, faults, validated>>

(* Staging left the target, Git cannot merge without a worktree, signing or  *)
(* a recovery bundle fails.                                                  *)
AssembleFails ==
  /\ pc = "group" /\ todo # <<>> /\ Len(Head(todo)) > 1
  /\ \/ ~StagingFits /\ Abort("error") /\ UNCHANGED <<records, faults>>
     \/ StagingFits /\ Fault /\ (Abort("unavailable") \/ Abort("error")) /\ UNCHANGED records
     \/ StagingFits /\ Fault /\ Abort("error") /\ Save(WithoutExcluded)
  /\ UNCHANGED <<world, branches, plan, preserved, leaderError, result, validated>>

Finish ==
  /\ pc = "group" /\ todo = <<>>
  /\ pc' = "wrap"
  /\ UNCHANGED <<world, branches, records, plan, preserved, ending, faults, validated>>

------------------------------------------------------------------------------
(* A candidate                                                               *)

(* prepareBatchWorktree: the worktree shared by batches, else this batch's.  *)
Bench == {i \in 1 .. 2 : i \notin preserved /\ \A j \in 1 .. i - 1 : j \in preserved}

ValidationPasses ==
  /\ pc = "validate" /\ Bench # {} /\ ~Broken(asm.commit)
  /\ validated' = validated \cup {asm.commit}
  /\ pc' = "stage"
  /\ UNCHANGED <<world, branches, records, plan, preserved, ending, faults>>

(* A command fails, or the setup; it may leave files behind.                 *)
ValidationFails ==
  /\ pc = "validate" /\ Bench # {}
  /\ IF Broken(asm.commit) THEN UNCHANGED faults ELSE Fault
  /\ preserved' \in {preserved, preserved \cup Bench}
  /\ failed' = failed \cup {asm.commit}
  /\ todo' = Halves(asm.included) \o todo /\ pc' = "group"
  /\ UNCHANGED <<world, branches, records, asm, cursor, ending, validated>>

(* No worktree is clean, the commands passed but left files, or the queue    *)
(* stopped them.                                                             *)
ValidationThrows ==
  /\ pc = "validate"
  /\ IF Bench = {} THEN UNCHANGED <<preserved, faults>>
     ELSE Fault /\ preserved' \in {preserved, preserved \cup Bench}
  /\ Abort("error")
  /\ UNCHANGED <<world, branches, records, plan, leaderError, result, validated>>

(* advanceStaging: from where the assembly saw it.                           *)
AdvanceStaging ==
  /\ pc = "stage" /\ staging = asm.staging
  /\ staging' = asm.commit
  /\ pc' = "record" /\ cursor' = 1
  /\ UNCHANGED <<world, target, records, todo, asm, failed, preserved, ending, faults, validated>>

StagingRefused ==
  /\ pc = "stage"
  /\ IF staging = asm.staging THEN Fault ELSE UNCHANGED faults
  /\ Abort("error")
  /\ UNCHANGED <<world, branches, records, plan, preserved, leaderError, result, validated>>

Staged(s) == [mem EXCEPT ![s].integrated = asm.commit]

(* One after the other, each with a snapshot in its recovery bundle.         *)
RecordStaged ==
  /\ pc = "record"
  /\ Save(Staged(asm.included[cursor]))
  /\ IF cursor = Len(asm.included) THEN pc' = "promote" /\ UNCHANGED cursor
     ELSE cursor' = cursor + 1 /\ UNCHANGED pc
  /\ UNCHANGED <<world, branches, todo, asm, failed, preserved, ending, faults, validated>>

RecordingFails ==
  /\ pc = "record" /\ Fault
  /\ mem' = Staged(asm.included[cursor]) /\ UNCHANGED rec
  /\ Abort("error")
  /\ UNCHANGED <<world, branches, plan, preserved, leaderError, result, validated>>

Batch == Range(asm.included)
PromotableAnyway == TRUE
Promotable == target \in {asm.target, asm.commit}

(* promoteValidatedCommit                                                    *)
Promote ==
  /\ pc = "promote" /\ Promotable
  /\ target' = asm.commit
  /\ pc' = "promoted"
  /\ UNCHANGED <<world, staging, records, plan, preserved, ending, faults, validated>>

(* The target moved, or its worktree is not clean: the batch stops. Another  *)
(* error aborts it.                                                          *)
PromotionFails ==
  /\ pc = "promote"
  /\ \/ /\ IF Promotable THEN Fault ELSE UNCHANGED faults
        /\ pc' = "wrap" /\ UNCHANGED aborted
        /\ Save(Resolve(Fail([s \in Sessions |-> IF s \in Batch
             THEN [mem[s] EXCEPT !.status = "pending"] ELSE mem[s]], Batch), Batch, "batched"))
     \/ /\ Fault /\ Abort("error")
        /\ Save(Resolve(Fail(mem, Batch), Batch, "batched"))
  /\ Blame(Batch)
  /\ UNCHANGED <<world, branches, plan, preserved, result, validated>>

Promoted == [s \in Sessions |-> IF s \in Batch THEN [mem[s] EXCEPT !.promoted = TRUE] ELSE mem[s]]

RecordPromoted ==
  /\ pc = "promoted"
  /\ Save(Promoted)
  /\ pc' = "complete"
  /\ UNCHANGED <<world, branches, plan, preserved, ending, faults, validated>>

ChecksFail ==
  /\ pc = "complete" /\ Checks /\ Fault
  /\ Save(Resolve(Fail(mem, Batch), Batch, "batched")) /\ Blame(Batch)
  /\ pc' = "group"
  /\ UNCHANGED <<world, branches, plan, preserved, aborted, result, validated>>

(* completePullRequest of each session on its own: one may fail.             *)
Complete ==
  /\ pc = "complete"
  /\ \E bad \in {{}} \cup {{s} : s \in Batch} :
       /\ IF bad = {} THEN UNCHANGED faults ELSE Fault
       /\ Save(Resolve(Fail([s \in Sessions |-> IF s \in Batch \ bad
            THEN [mem[s] EXCEPT !.status = "succeeded"] ELSE mem[s]], bad), Batch, "batched"))
       /\ Blame(bad)
  /\ pc' = "group"
  /\ UNCHANGED <<world, branches, plan, preserved, aborted, result, validated>>

------------------------------------------------------------------------------
(* One session alone, through the normal path (Integration has its steps)    *)

Alone == Head(Head(todo))
Merged == target \cup Ready(Alone)
Lands == StagingFits /\ ~Clashing(target, Ready(Alone)) /\ ~Broken(Merged)

AloneSucceeds ==
  /\ pc = "alone" /\ Lands
  /\ staging' = Merged /\ target' = Merged /\ validated' = validated \cup {Merged}
  /\ Save(Resolve([mem EXCEPT ![Alone].status = "succeeded", ![Alone].integrated = Merged,
                              ![Alone].promoted = TRUE], {Alone}, "isolated"))
  /\ pc' = "group" /\ todo' = Tail(todo)
  /\ UNCHANGED <<world, asm, cursor, failed, preserved, ending, faults>>

(* It is staged, and the promotion is blocked, or fails, or what follows it. *)
AloneIsStaged ==
  /\ pc = "alone" /\ Lands
  /\ staging' = Merged /\ validated' = validated \cup {Merged}
  /\ Fault
  /\ \E landed \in BOOLEAN, status \in {"pending", "review"} :
       /\ landed => status = "review"
       /\ target' = IF landed THEN Merged ELSE target
       /\ Save(Resolve(Fail([mem EXCEPT ![Alone].status = status, ![Alone].integrated = Merged,
                              ![Alone].promoted = landed], {Alone}), {Alone}, "isolated"))
       /\ IF status = "pending" THEN pc' = "wrap" /\ UNCHANGED todo
          ELSE pc' = "group" /\ todo' = Tail(todo)
  /\ Blame({Alone})
  /\ UNCHANGED <<world, asm, cursor, failed, preserved, aborted, result>>

(* Its change does not merge or pass, or something else fails before it is   *)
(* staged; what the queue stopped stops the batch.                           *)
AloneFails ==
  /\ pc = "alone"
  /\ \/ ~Lands /\ UNCHANGED <<faults, aborted>> /\ pc' = "group" /\ todo' = Tail(todo)
     \/ Lands /\ Fault /\ UNCHANGED aborted /\ pc' = "group" /\ todo' = Tail(todo)
     \/ Fault /\ Abort("error") /\ UNCHANGED todo
  /\ Save(Resolve(Fail(mem, {Alone}), {Alone}, "isolated")) /\ Blame({Alone})
  /\ UNCHANGED <<world, branches, asm, cursor, failed, preserved, result, validated>>

------------------------------------------------------------------------------
(* The end of integrateWaitingBatch                                          *)

(* Who has no outcome yet: a session that is staged failed, and its resume   *)
(* promotes it; another is released to its own process.                      *)
Unresolved == {s \in Sessions : mem[s].outcome = "open"}
OwedNothing == {}
Owed == {s \in Unresolved : mem[s].integrated # None /\ (s # Leader \/ aborted = "error")}

Wrap ==
  LET end == Resolve(Resolve(Fail(mem, Owed), Owed, "batched"), Unresolved \ Owed, "released")
  IN /\ pc = "wrap"
     /\ Save(end) /\ Blame(Owed \ {Leader})
     /\ result' = IF leaderError \/ aborted = "error" THEN "failed"
                  ELSE IF end[Leader].outcome \in {"batched", "isolated"} THEN "done" ELSE "alone"
     /\ pc' = "done"
     /\ UNCHANGED <<world, branches, plan, preserved, aborted, faults, validated>>

------------------------------------------------------------------------------
UserCommits(u) ==
  /\ u \notin target /\ pc # "done"
  /\ target' = target \cup {u}
  /\ UNCHANGED <<world, staging, records, pc, plan, preserved, ending, faults, validated>>

(* A user fast-forwards staging, or sets it beside the target.               *)
UserMovesStaging(u) ==
  /\ pc # "done" /\ StagingFits
  /\ \/ staging' = target /\ UNCHANGED faults
     \/ staging' = target \cup {u} /\ Fault
  /\ UNCHANGED <<world, target, records, pc, plan, preserved, ending, validated>>

Step ==
  \/ Open \/ Small \/ Assemble \/ AssembleFails \/ Finish
  \/ ValidationPasses \/ ValidationFails \/ ValidationThrows
  \/ AdvanceStaging \/ StagingRefused \/ RecordStaged \/ RecordingFails
  \/ Promote \/ PromotionFails \/ RecordPromoted \/ ChecksFail \/ Complete
  \/ AloneSucceeds \/ AloneIsStaged \/ AloneFails \/ Wrap

Users_ == \E u \in Users : UserCommits(u) \/ UserMovesStaging(u)
Next == Step \/ Users_
Spec == Init /\ [][Next]_vars /\ WF_vars(Step)

------------------------------------------------------------------------------
(* Whatever the batch moves the target to keeps all the target had and has a *)
(* tree that passed the validation as a whole, though members conflict, fail *)
(* together, are split and merged anew on a target that moved meanwhile      *)
(* (integration-batch.ts, "no session is promoted on a tree that was not     *)
(* validated").                                                              *)
PromotesValidated ==
  [][target' # target => /\ target \subseteq target'
                         /\ target' \in validated' \/ target' \ target \subseteq Users]_vars

(* Work that is on staging and not on the target belongs to a record that a  *)
(* resume can promote, also when recording the staged commit stops half way; *)
(* but for a death before the first record is written, or before the end of  *)
(* a batch that aborted is recorded.                                         *)
StagedIsOwned ==
  \/ staging = None \/ staging \cap Sessions \subseteq target
  \/ pc = "record" /\ cursor = 1
  \/ pc = "wrap" /\ aborted = "error"
  \/ \E s \in Sessions : /\ rec[s].integrated = staging
                         /\ pc = "done" => rec[s].status \in {"review", "pending"}

(* A batch that nothing but its changes disturbs lands every session it can: *)
(* whoever is held back does not pass on what landed, or does not agree with *)
(* that or with another of the batch; and whoever is left to its own process *)
(* is ready and waiting for it.                                              *)
Undisturbed ==
  aborted = "no" /\ faults = 0 /\ \A s \in Sessions : rec[s].status # "pending"
Disagrees(tree, s) == \E c \in tree \ Ready(s), d \in Ready(s) : {c, d} \in world.clash
Guilty(s) ==
  \/ Disagrees(target, s) \/ Broken(target \cup Ready(s))
  \/ rec[s].outcome = "excluded" /\ \E t \in Sessions : Disagrees(Ready(t), s)
InnocentLand ==
  pc = "done" /\ result # "none" =>
    \A s \in Sessions :
      /\ rec[s].status = "succeeded" => Ready(s) \subseteq target
      /\ rec[s].outcome \in {"excluded", "released"} =>
           rec[s].status = "ready" /\ rec[s].integrated = None /\ (s # Leader => rec[s].waiting)
      /\ Undisturbed /\ rec[s].status # "succeeded" => Guilty(s)

(* Splitting, excluding and isolating come to an end, with a result for the  *)
(* leader and an outcome for every member.                                   *)
BatchEnds ==
  <>(pc = "done" /\ (result = "none" \/ \A s \in Sessions : rec[s].outcome \notin {"none", "open"}))

(* "failed: the leader's integration failed", says BatchResult: false.       *)
FailedMeansFailed == result = "failed" => rec[Leader].status # "succeeded"
=============================================================================
