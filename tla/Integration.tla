----------------------------- MODULE Integration -----------------------------
(* One session at a time on its way to the target branch: integrate, resume, *)
(* the recovery of a moved local target and reconcile, over the two branches *)
(* of the repository, with commands that die anywhere. Commands that work on *)
(* Git hold the repository lock (FileLock); reconcile does not take it, and  *)
(* users commit to the target as they like.                                  *)
(*                                                                           *)
(* A commit is its history, the set of the commits it descends from and its  *)
(* own, and its tree, the set of the changes its files show. The two differ  *)
(* when a tree is committed that was built on another parent.                *)
EXTENDS Naturals, FiniteSets

CONSTANTS
  Sessions,    \* each brings one change, on a branch that starts at Root
  Users,       \* each commits one change to the target
  Fixes,       \* changes an agent adds to a resolution that fails
  Root,        \* the commit the repository starts with
  Clash,       \* the pairs of changes, as sets, that Git cannot merge
  Adding,      \* the changes that add files rather than edit them
  Direct,      \* sessions whose tier bypasses the integration worktree
  Checks,      \* are steps configured that may fail after promotion
  Nested,      \* does an agent resolve conflicts inside the command
  Audits,      \* does an operator run reconcile --apply, once
  MaxCommits,  \* bound: commits made for one session
  MaxCrashes,  \* bound: commands that die
  None

ASSUME IntegrationAssumption ==
  /\ Adding \subseteq Sessions \cup Users \cup Fixes /\ Direct \subseteq Sessions
  /\ Checks \in BOOLEAN /\ Audits \in BOOLEAN /\ Nested \in BOOLEAN
  /\ MaxCommits \in Nat /\ MaxCrashes \in Nat
  /\ Clash \subseteq SUBSET (Sessions \cup Users)
  /\ None \notin Sessions

VARIABLES
  target, staging,   \* the two branches
  canonical,         \* the shared worktree: staging is checked out in it
  detached,          \* each session's own, latest integration worktree
  rec,               \* the session records on disk
  mem,               \* the copies the running commands hold
  pc,                \* where the command of a session is, "idle" if none runs
  advanced,          \* did this command produce what it promotes
  manifest,          \* the recovery bundles: what their last snapshots say
  behind,            \* is the record's manifest hash older than the manifest
  lock,              \* the session whose command holds the repository lock
  made,              \* how many commits were made for each session
  audit,             \* what reconcile has read
  crashes,
  validated          \* history: the trees integration validation has passed

vars == <<target, staging, canonical, detached, rec, mem, pc, advanced,
          manifest, behind, lock, made, audit, crashes, validated>>
branches == <<target, staging>>
trees == <<canonical, detached>>
evidence == <<manifest, behind>>
rest == <<made, audit, crashes, validated>>

------------------------------------------------------------------------------
(* Git                                                                       *)

Change == Sessions \cup Users \cup Fixes
Node == {Root} \cup Change \cup (Sessions \X (1 .. MaxCommits))
ASSUME NodesDiffer ==   \* no commit is counted for another
  Root \notin Change /\ \A s \in Sessions : \A i \in 1 .. MaxCommits : <<s, i>> \notin {Root} \cup Change
Commit == [hist : SUBSET Node, tree : SUBSET Change]
Start == [hist |-> {Root}, tree |-> {}]
Source(s) == [hist |-> {Root, s}, tree |-> {s}]

(* git merge-base --is-ancestor a b *)
Within(a, b) == a.hist \subseteq b.hist

Clashing(a, b) ==
  \E c \in a.tree \ b.tree, d \in b.tree \ a.tree : {c, d} \in Clash

(* git merge --no-ff --no-commit: what it leaves in the worktree w.          *)
MergeInto(w, head, other) ==
  [w EXCEPT !.index = IF Within(other, head) THEN head.tree ELSE head.tree \cup other.tree,
            !.merge = IF Within(other, head) THEN "none"
                      ELSE IF Clashing(head, other) THEN "open" ELSE "staged",
            !.stray = FALSE]

(* The worktree a session's record points to, and the commit it stands on.   *)
(* HEAD of the canonical worktree is the staging branch, wherever it moves.  *)
Worktree(r, s) == IF r.where \in {"none", "canonical"} THEN canonical ELSE detached[s]
Head(r, s) == IF r.where \in {"none", "canonical"} THEN staging ELSE detached[s].head
HoldsMerge(r, s) ==
  IF r.where \in {"none", "canonical"} THEN canonical.of = s ELSE TRUE

Clean(w, head) == w.merge = "none" /\ w.index = head.tree

------------------------------------------------------------------------------
(* Records and bundles                                                       *)

Merges == {"none", "open", "staged"}
Recovery == [base : Commit, target : Commit, before : Commit,
             resolved : (SUBSET Change) \cup {None}, result : Commit \cup {None}]
Record == [status : {"ready", "review", "promotion_pending", "succeeded"},
           phase : {"none", "promotion", "post_integration", "pull_request", "local_target"},
           expected : Commit \cup {None}, integrated : Commit \cup {None},
           awaiting : BOOLEAN, failed : BOOLEAN, where : {"none", "canonical", "isolated", "recovery", "local"},
           conflictHead : Commit \cup {None}, local : Recovery \cup {None}]
Snapshot == [base : Commit, tree : SUBSET Change]
Manifest == [base : Commit \cup {None}, empty : BOOLEAN,
             merged : Snapshot \cup {None}, local : Recovery \cup {None}]

ASSUME NoneIsNoRecord == None \notin Recovery \cup Commit   \* what a field without a value holds

FreshRecord ==
  [status |-> "ready", phase |-> "none", expected |-> None, integrated |-> None,
   awaiting |-> FALSE, failed |-> FALSE, where |-> "none", conflictHead |-> None, local |-> None]

(* writeSession with the command's own copy, which holds the current hash.   *)
Save(s, r) ==
  /\ rec' = [rec EXCEPT ![s] = r]
  /\ mem' = [mem EXCEPT ![s] = r]
  /\ behind' = [behind EXCEPT ![s] = FALSE]

(* The copy changes, or a snapshot is appended, and nothing is saved yet.    *)
Keep(s, r) == mem' = [mem EXCEPT ![s] = r] /\ UNCHANGED rec
Append(s, m) ==
  /\ manifest' = [manifest EXCEPT ![s] = m]
  /\ behind' = [behind EXCEPT ![s] = TRUE]

(* A bundle with one more snapshot, of a merged tree or of a recovery.       *)
WithTree(m, head, tree) ==
  [m EXCEPT !.merged = [base |-> head, tree |-> tree], !.empty = FALSE]
WithLocal(m, st) == [m EXCEPT !.local = st, !.empty = FALSE]

Go(s, step) == pc' = [pc EXCEPT ![s] = step]
(* Mutants of this module are named for the bug they plant.                  *)
Leave(s) == Go(s, "idle") /\ lock' = None

(* The command throws: the status says so, unless the promotion is pending.  *)
Fail(s, r) ==
  /\ Save(s, [r EXCEPT !.status = IF @ = "promotion_pending" THEN @ ELSE "review"])
  /\ Leave(s)

Init ==
  /\ target = Start /\ staging = Start
  /\ canonical = [there |-> FALSE, of |-> None, index |-> {}, merge |-> "none", stray |-> FALSE]
  /\ detached = [s \in Sessions |-> [kind |-> "none", head |-> Start, index |-> {},
                                     merge |-> "none", stray |-> FALSE]]
  /\ rec = [s \in Sessions |-> FreshRecord] /\ mem = rec
  /\ pc = [s \in Sessions |-> "idle"] /\ advanced = [s \in Sessions |-> FALSE]
  /\ manifest = [s \in Sessions |-> [base |-> None, empty |-> TRUE, merged |-> None, local |-> None]]
  /\ behind = [s \in Sessions |-> FALSE]
  /\ lock = None /\ made = [s \in Sessions |-> 0] /\ crashes = 0 /\ validated = {}
  /\ audit = [step |-> IF Audits THEN "read" ELSE "done", target |-> Start,
              staging |-> Start, copies |-> [s \in {} |-> FreshRecord]]

------------------------------------------------------------------------------
(* integrate, alone: the lock is held from here to Leave                     *)

Begin(s) ==
  /\ pc[s] = "idle" /\ lock = None /\ rec[s].status = "ready"
  /\ ~behind[s]                              \* ensureRecoveryBundle verifies it
  /\ lock' = s /\ Go(s, "prepare")
  /\ manifest' = IF manifest[s].base = None
                 THEN [manifest EXCEPT ![s].base = staging] ELSE manifest
  /\ Save(s, [rec[s] EXCEPT !.expected = target,
                !.where = IF @ # "none" THEN @
                          ELSE IF canonical.there /\ ~Clean(canonical, staging)
                               THEN "isolated" ELSE "canonical"])
  /\ UNCHANGED <<branches, trees, advanced, rest>>

(* A worktree that stands on the branch follows it to the expected target.   *)
Aligned(w, head, r) ==
  w.merge = "none" /\ w.index = head.tree /\ Within(head, r.expected)

WorktreeReady(w, head) == ~w.there \/ Clean(w, head)

PrepareCanonical(s) ==
  /\ pc[s] = "prepare" /\ mem[s].where = "canonical"
  /\ WorktreeReady(canonical, staging)
  /\ Within(staging, mem[s].expected)
  /\ staging' = mem[s].expected
  /\ canonical' = [canonical EXCEPT !.there = TRUE, !.of = s, !.index = mem[s].expected.tree]
  /\ Go(s, "merge")
  /\ UNCHANGED <<target, detached, rec, mem, advanced, evidence, lock, rest>>

(* A new detached worktree stands on staging, which is not aligned; one that *)
(* an earlier command left is.                                               *)
PrepareIsolated(s) ==
  /\ pc[s] = "prepare" /\ mem[s].where = "isolated"
  /\ IF detached[s].kind = "none"
     THEN /\ detached' = [detached EXCEPT ![s] = [kind |-> "isolated", head |-> staging,
                            index |-> staging.tree, merge |-> "none", stray |-> FALSE]]
          /\ Save(s, [mem[s] EXCEPT !.conflictHead = staging])
     ELSE LET w == detached[s] IN
          /\ Aligned(w, w.head, mem[s])
          /\ detached' = [detached EXCEPT ![s].head = mem[s].expected,
                                          ![s].index = mem[s].expected.tree]
          /\ UNCHANGED <<rec, mem, behind>>
  /\ Go(s, "merge")
  /\ UNCHANGED <<branches, canonical, advanced, manifest, lock, rest>>

(* A worktree with a merge or changes, staging ahead of the target or beside *)
(* it: the command ends and the session stays ready.                         *)
PrepareRefused(s) ==
  /\ pc[s] = "prepare"
  /\ IF mem[s].where = "canonical"
     THEN ~(WorktreeReady(canonical, staging) /\ Within(staging, mem[s].expected))
     ELSE detached[s].kind # "none" /\ ~Aligned(detached[s], detached[s].head, mem[s])
  /\ canonical' = IF mem[s].where = "isolated" \/ canonical.there THEN canonical
                  ELSE [canonical EXCEPT !.there = TRUE, !.index = staging.tree]
  /\ Save(s, mem[s]) /\ Leave(s)
  /\ UNCHANGED <<branches, detached, advanced, manifest, rest>>

NewCommit(s, a, b, tree) ==
  [hist |-> a.hist \cup b.hist \cup {<<s, made[s] + 1>>}, tree |-> tree]

(* A worktree in which somebody works is not taken away.                     *)
Removable(w, head) == w.there => Clean(w, head)

(* tryDirectIntegration: staging advances without a worktree, to the source  *)
(* commit itself where that is a fast-forward.                               *)
BypassWorktree(s) ==
  LET from == mem[s].expected
      commit == IF Within(from, Source(s)) THEN Source(s)
                ELSE NewCommit(s, from, Source(s), from.tree \cup {s})
  IN /\ pc[s] = "prepare" /\ s \in Direct /\ mem[s].where = "canonical"
     /\ Within(staging, from)
     /\ Within(from, Source(s)) \/ (~Clashing(from, Source(s)) /\ made[s] < MaxCommits)
     /\ Removable(canonical, staging)
     /\ canonical' = [canonical EXCEPT !.there = FALSE]
     /\ staging' = commit
     /\ made' = IF commit = Source(s) THEN made ELSE [made EXCEPT ![s] = @ + 1]
     /\ validated' = validated \cup {commit.tree}   \* no integration command is selected
     /\ Keep(s, [mem[s] EXCEPT !.integrated = commit, !.awaiting = FALSE])
     /\ Append(s, [manifest[s] EXCEPT !.empty = FALSE])
     /\ advanced' = [advanced EXCEPT ![s] = TRUE]
     /\ Go(s, "staged")
     /\ UNCHANGED <<target, detached, lock, audit, crashes>>

SetWorktree(s, w) ==
  IF mem[s].where = "canonical"
  THEN canonical' = w /\ UNCHANGED detached
  ELSE detached' = [detached EXCEPT ![s] = w] /\ UNCHANGED canonical

(* mergeAndValidate up to the validation: the ready commit is merged, or it  *)
(* is there already; the merged tree is kept in the bundle.                  *)
Merge(s) ==
  LET head == Head(mem[s], s)
      w == MergeInto(Worktree(mem[s], s), head, Source(s))
  IN /\ pc[s] = "merge" /\ w.merge # "open"
     /\ SetWorktree(s, w)
     /\ Append(s, WithTree(manifest[s], head, w.index))
     /\ Go(s, "validate")
     /\ UNCHANGED <<branches, rec, mem, advanced, lock, rest>>

(* The conflicted merge is preserved for the agent of the session, or for    *)
(* one that the command starts.                                              *)
MergeConflicts(s) ==
  LET head == Head(mem[s], s)
      w == MergeInto(Worktree(mem[s], s), head, Source(s))
      r == [mem[s] EXCEPT !.awaiting = TRUE, !.conflictHead = head]
  IN /\ pc[s] = "merge" /\ w.merge = "open"
     /\ SetWorktree(s, w)
     /\ manifest' = [manifest EXCEPT ![s].empty = FALSE]
     /\ IF Nested THEN Save(s, r) /\ Go(s, "nested") /\ UNCHANGED lock ELSE Fail(s, r)
     /\ UNCHANGED <<branches, advanced, rest>>

(* The command stages what its agent has resolved, and validates it.         *)
NestedResolves(s) ==
  LET w == [Worktree(mem[s], s) EXCEPT !.merge = "staged"] IN
  /\ pc[s] = "nested"
  /\ SetWorktree(s, w)
  /\ Append(s, WithTree(manifest[s], Head(mem[s], s), w.index))
  /\ Go(s, "validate")
  /\ UNCHANGED <<branches, rec, mem, advanced, lock, rest>>

(* Its agent fails, takes too long or leaves conflicts.                      *)
NestedFails(s) ==
  /\ pc[s] = "nested"
  /\ Fail(s, mem[s])
  /\ UNCHANGED <<branches, trees, advanced, manifest, rest>>

(* Git refuses the merge for another reason.                                 *)
MergeBreaks(s) ==
  /\ pc[s] = "merge"
  /\ Fail(s, mem[s])
  /\ UNCHANGED <<branches, trees, advanced, manifest, rest>>

(* The agent resolves the conflicts where the record says, and stages them.  *)
Resolve(s) ==
  /\ pc[s] = "idle"
  /\ rec[s].awaiting
  /\ HoldsMerge(rec[s], s) /\ Worktree(rec[s], s).merge = "open"
  /\ IF rec[s].where \in {"none", "canonical"}
     THEN canonical' = [canonical EXCEPT !.merge = "staged"] /\ UNCHANGED detached
     ELSE detached' = [detached EXCEPT ![s].merge = "staged"] /\ UNCHANGED canonical
  /\ UNCHANGED <<branches, rec, mem, pc, advanced, evidence, lock, rest>>

------------------------------------------------------------------------------
(* validateCommitAndFinish                                                   *)

NoUnstagedChanges(w) == ~w.stray

(* The tree that passes is the tree that is committed: it is written before  *)
(* and after, and files that are not part of it stop the command.            *)
ValidationPasses(s) ==
  LET w == Worktree(mem[s], s) IN
  /\ pc[s] = "validate" /\ NoUnstagedChanges(w)
  /\ validated' = validated \cup {w.index}
  /\ Append(s, WithTree(manifest[s], Head(mem[s], s), w.index))
  /\ Keep(s, [mem[s] EXCEPT !.failed = FALSE])
  /\ Go(s, "commit")
  /\ UNCHANGED <<branches, trees, advanced, lock, made, audit, crashes>>

(* A command of the plan fails, which the record keeps, or a stray file does.*)
(* The failure only matters to the recovery of a local target.               *)
ValidationFails(s) ==
  LET ran == NoUnstagedChanges(Worktree(mem[s], s)) /\ mem[s].phase = "local_target" IN
  /\ pc[s] = "validate"
  /\ \E f \in {mem[s].failed, ran \/ mem[s].failed} : Fail(s, [mem[s] EXCEPT !.failed = f])
  /\ UNCHANGED <<branches, trees, advanced, manifest, rest>>

(* The merge is committed, on the branch itself in the canonical worktree.   *)
(* A merge that had nothing to bring leaves HEAD as the result.              *)
CommitMerge(s) ==
  LET w == Worktree(mem[s], s)
      head == Head(mem[s], s)
      other == IF mem[s].phase = "local_target" THEN mem[s].local.target ELSE Source(s)
      merging == w.merge # "none"
      result == IF merging THEN NewCommit(s, head, other, w.index) ELSE head
      r == [mem[s] EXCEPT !.integrated = result]
      kept == [r EXCEPT !.local.result = result]
  IN /\ pc[s] = "commit"
     /\ merging => made[s] < MaxCommits
     /\ made' = IF merging THEN [made EXCEPT ![s] = @ + 1] ELSE made
     /\ advanced' = [advanced EXCEPT ![s] = merging \/ mem[s].phase = "local_target"]
     /\ IF mem[s].where = "canonical"
        THEN staging' = result /\ canonical' = [canonical EXCEPT !.merge = "none"]
             /\ UNCHANGED detached
        ELSE detached' = [detached EXCEPT ![s].head = result, ![s].merge = "none"]
             /\ UNCHANGED <<staging, canonical>>
     /\ IF mem[s].phase = "local_target"
        THEN Save(s, kept) /\ manifest' = [manifest EXCEPT ![s] = WithLocal(@, kept.local)]
        ELSE Keep(s, r) /\ Append(s, manifest[s])
     /\ Go(s, IF mem[s].where = "canonical" THEN "staged" ELSE "stage")
     /\ UNCHANGED <<target, lock, audit, crashes, validated>>

(* Signing fails before the commit.                                          *)
CommitFails(s) ==
  /\ pc[s] = "commit" /\ Worktree(mem[s], s).merge # "none"
  /\ Fail(s, mem[s])
  /\ UNCHANGED <<branches, trees, advanced, manifest, rest>>

(* A detached result advances staging, if staging is where it was.           *)
AdvanceStaging(s) ==
  LET expected == IF mem[s].phase = "local_target" THEN mem[s].local.before
                  ELSE mem[s].conflictHead
  IN /\ pc[s] = "stage"
     /\ IF staging = expected
        THEN /\ staging' = mem[s].integrated
             /\ Go(s, "staged")
             /\ UNCHANGED <<rec, mem, behind, lock>>
        ELSE Fail(s, mem[s]) /\ UNCHANGED staging
     /\ UNCHANGED <<target, trees, advanced, manifest, rest>>

(* The staged result is in the record, then the promotion begins.            *)
RecordStaged(s) ==
  /\ pc[s] = "staged"
  /\ Save(s, [mem[s] EXCEPT !.awaiting = FALSE, !.phase = "promotion"])
  /\ Go(s, "promote")
  /\ UNCHANGED <<branches, trees, advanced, manifest, lock, rest>>

------------------------------------------------------------------------------
(* Promotion and what follows it                                             *)

PromotableAnywhere(commit, expected) == TRUE
Promotable(commit, expected) ==
  target = commit \/ (target = expected /\ Within(expected, commit))

(* promoteValidatedCommit: update-ref with the expected old value, or a      *)
(* fast-forward in the worktree that has the target checked out.             *)
Promote(s) ==
  /\ pc[s] = "promote"
  /\ Promotable(mem[s].integrated, mem[s].expected)
  /\ target' = mem[s].integrated
  /\ Go(s, "promoted")
  /\ UNCHANGED <<staging, trees, rec, mem, advanced, evidence, lock, rest>>

PromotionUnrecorded(s) ==
  /\ pc[s] = "promote" /\ Save(s, mem[s]) /\ Leave(s)
  /\ UNCHANGED <<branches, trees, advanced, manifest, rest>>

(* The target moved, or is checked out dirty, twice, or out of reach.        *)
PromotionBlocked(s) ==
  /\ pc[s] = "promote"
  /\ Save(s, [mem[s] EXCEPT !.status = "promotion_pending", !.phase = "promotion"])
  /\ Leave(s)
  /\ UNCHANGED <<branches, trees, advanced, manifest, rest>>

RecordPromoted(s) ==
  /\ pc[s] = "promoted"
  /\ Save(s, [mem[s] EXCEPT !.phase = IF advanced[s] THEN "post_integration" ELSE "pull_request"])
  /\ Go(s, IF advanced[s] THEN "post" ELSE "finish")
  /\ UNCHANGED <<branches, trees, advanced, manifest, lock, rest>>

PostIntegrationPasses(s) ==
  /\ pc[s] = "post"
  /\ Save(s, [mem[s] EXCEPT !.phase = "pull_request"])
  /\ Go(s, "finish")
  /\ UNCHANGED <<branches, trees, advanced, manifest, lock, rest>>

(* A post-integration command fails, or the push or pull request does. Where *)
(* sessions bypass the worktree no post-integration command is configured.   *)
CheckFails(s) ==
  /\ Checks /\ pc[s] \in (IF Direct = {} THEN {"post", "finish"} ELSE {"finish"})
  /\ Fail(s, mem[s])
  /\ UNCHANGED <<branches, trees, advanced, manifest, rest>>

(* completePullRequestPromotion: the bundle is archived, then the record     *)
(* says succeeded.                                                           *)
Archive(s) ==
  /\ pc[s] = "finish"
  /\ Append(s, manifest[s]) /\ Go(s, "archived")
  /\ UNCHANGED <<branches, trees, rec, mem, advanced, lock, rest>>

Succeed(s) ==
  /\ pc[s] = "archived"
  /\ Save(s, [mem[s] EXCEPT !.status = "succeeded", !.phase = "none"])
  /\ Leave(s)
  /\ UNCHANGED <<branches, trees, advanced, manifest, rest>>

------------------------------------------------------------------------------
(* resume                                                                    *)

TargetMovedOnce(r) == r.phase = "local_target"

(* A local target that is no longer what the promotion can start from.       *)
TargetMoved(r) ==
  \/ r.phase = "local_target"
  \/ /\ r.phase = "promotion" /\ r.integrated # None
     /\ target # r.integrated
     /\ target # r.expected \/ ~Within(target, r.integrated)

(* A hash that is behind is repaired from a local recovery in the bundle;    *)
(* without one the command is refused and nothing changes.                   *)
Verifiable(s) == behind[s] => manifest[s].local # None
Verified(s) ==
  IF behind[s] THEN [rec[s] EXCEPT !.local = manifest[s].local, !.phase = "local_target"]
  ELSE rec[s]

Resume(s) ==
  LET r == Verified(s)
  IN /\ pc[s] = "idle" /\ lock = None
     /\ rec[s].status \in {"review", "promotion_pending"}
     /\ Verifiable(s)
     /\ lock' = s
     /\ Keep(s, r)
     /\ Go(s, IF TargetMoved(r) THEN "local" ELSE "reconstruct")
     /\ UNCHANGED <<branches, trees, advanced, evidence, rest>>

(* A ready session whose merge an interrupted command left in the canonical  *)
(* worktree is resumable again; the lock is not held here.                   *)
RecoverOrphan(s) ==
  LET r == [rec[s] EXCEPT !.status = "review", !.awaiting = TRUE, !.conflictHead = staging]
  IN /\ pc[s] = "idle" /\ rec[s].status = "ready"
     /\ canonical.of = s /\ canonical.merge # "none"
     /\ rec' = [rec EXCEPT ![s] = r] /\ mem' = [mem EXCEPT ![s] = r]
     /\ UNCHANGED <<branches, trees, pc, advanced, evidence, lock, rest>>

(* What the resolution staged in the session's worktree adds to the bundle:  *)
(* its tree, on the commit that worktree stands on now.                      *)
Imported(s) ==
  LET w == Worktree(mem[s], s) IN
  IF mem[s].awaiting /\ HoldsMerge(mem[s], s) /\ w.merge = "staged"
  THEN WithTree(manifest[s], Head(mem[s], s), w.index)
  ELSE manifest[s]

(* reconstructRecoveryWorktree: a detached worktree on today's staging, with *)
(* the tree of the last snapshot if that was taken there, and otherwise with *)
(* the ready commit merged anew.                                             *)
Fresh(head) ==
  [kind |-> "recovery", head |-> head, index |-> head.tree, merge |-> "none", stray |-> FALSE]
RereadUnnoticed(tree, head) == [Fresh(head) EXCEPT !.index = tree, !.merge = "staged"]
Reread(tree, head) ==
  [Fresh(head) EXCEPT !.index = tree, !.merge = "staged",
                      !.stray = Adding \cap (head.tree \ tree) # {}]

KeepsConflict(s) ==
  mem[s].awaiting /\ mem[s].where = "recovery" /\ detached[s].merge = "open"
Remerges(m) == m.merged # None => m.merged.base # staging
Reconstructible(m) ==
  IF m.empty THEN Within(staging, target)
  ELSE m.merged # None /\ Remerges(m) => Within(target, staging)

(* The conflict was resolved, or the index is still what Git's merge gave.   *)
ResumableConflict(w) == w.merge = "staged"
ResumableCommitFailure(w, s) ==
  w.merge = "staged" /\ w.index = w.head.tree \cup {s} /\ ~Clashing(w.head, Source(s))

(* Where resume goes on from a reconstructed worktree.                       *)
Continue(s, r, w) ==
  CASE r.phase = "pull_request" ->
         Save(s, r) /\ Go(s, "finish") /\ UNCHANGED <<advanced, lock>>
    [] r.phase \in {"promotion", "post_integration"} ->
         /\ Save(s, [r EXCEPT !.phase = "promotion"]) /\ Go(s, "promote")
         /\ advanced' = [advanced EXCEPT ![s] = TRUE] /\ UNCHANGED lock
    [] OTHER ->
         IF IF r.awaiting THEN ResumableConflict(w) ELSE ResumableCommitFailure(w, s)
         THEN Save(s, r) /\ Go(s, "validate") /\ UNCHANGED <<advanced, lock>>
         ELSE Fail(s, r) /\ UNCHANGED advanced

Reconstruct(s) ==
  LET m == Imported(s)
      head == IF m.empty THEN target ELSE staging
      w == IF Remerges(m) THEN MergeInto(Fresh(head), head, Source(s))
           ELSE Reread(m.merged.tree, head)
      r == [mem[s] EXCEPT !.where = "recovery", !.conflictHead = head,
              !.expected = IF m.empty \/ (m.merged # None /\ Remerges(m)) THEN target ELSE @,
              !.awaiting = @ \/ w.merge = "open"]
  IN /\ pc[s] = "reconstruct" /\ ~KeepsConflict(s) /\ Reconstructible(m)
     /\ staging' = head
     /\ detached' = [detached EXCEPT ![s] = w]
     /\ manifest' = [manifest EXCEPT ![s] =
          IF m.empty /\ w.merge # "open" THEN WithTree(m, head, w.index)
          ELSE [m EXCEPT !.empty = FALSE]]
     /\ Continue(s, r, w)
     /\ UNCHANGED <<target, canonical, rest>>

(* Conflicts that are still unresolved, or a bundle without a snapshot and a *)
(* staging branch that is not behind the target.                             *)
ReconstructStops(s) ==
  /\ pc[s] = "reconstruct"
  /\ KeepsConflict(s) \/ (manifest[s].empty /\ ~Reconstructible(Imported(s)))
  /\ Fail(s, mem[s])
  /\ UNCHANGED <<branches, trees, advanced, manifest, rest>>

(* A target that has what staging has not: the worktree is there, empty.     *)
ReconstructDiverges(s) ==
  /\ pc[s] = "reconstruct" /\ ~KeepsConflict(s) /\ ~manifest[s].empty
  /\ ~Reconstructible(Imported(s))
  /\ manifest' = [manifest EXCEPT ![s] = Imported(s)]
  /\ detached' = [detached EXCEPT ![s] = Fresh(staging)]
  /\ Fail(s, [mem[s] EXCEPT !.where = "recovery", !.conflictHead = staging])
  /\ UNCHANGED <<branches, canonical, advanced, rest>>

------------------------------------------------------------------------------
(* reconcileLocalTarget: the validated result and the target that moved meet *)
(* in a worktree of their own. Its stops for branches that somebody rewrote  *)
(* are left out: users add commits only, and HistoryKept says that nothing   *)
(* else rewrites them.                                                       *)

StagingMoved(r) ==
  r.phase = "local_target" /\ staging # r.local.before /\ staging # r.local.result
Landed(r) == StagingMoved(r) /\ Within(r.local.base, target)
Restarts(r) == StagingMoved(r) /\ ~Landed(r) /\ Within(r.local.before, staging)
Opens(r) == r.phase # "local_target" \/ Restarts(r)

(* Another session's promotion delivered the validated result.               *)
LocalLanded(s) ==
  LET r == mem[s] IN
  /\ pc[s] = "local" /\ Landed(r)
  /\ Save(s, [r EXCEPT !.integrated = r.local.base, !.expected = r.local.target,
                       !.local = None, !.awaiting = FALSE, !.failed = FALSE,
                       !.phase = "pull_request"])
  /\ Go(s, "finish")
  /\ UNCHANGED <<branches, trees, advanced, manifest, lock, rest>>

(* A new attempt, from the result or from the base of the stale attempt.     *)
LocalOpens(s) ==
  LET r == mem[s]
      base == IF Restarts(r) THEN r.local.base ELSE r.integrated
      from == IF Restarts(r) THEN r.local.target ELSE r.expected
      st == [base |-> base, target |-> target, before |-> staging,
             resolved |-> None, result |-> None]
  IN /\ pc[s] = "local" /\ Opens(r) /\ Within(from, target)
     /\ manifest' = [manifest EXCEPT ![s] = WithLocal(@, st)]
     /\ detached' = [detached EXCEPT ![s] = [Fresh(base) EXCEPT !.kind = "local"]]
     /\ Save(s, [r EXCEPT !.status = "review", !.phase = "local_target", !.local = st,
                   !.integrated = base, !.expected = from, !.where = "local",
                   !.conflictHead = base, !.awaiting = @ /\ ~Restarts(r),
                   !.failed = @ /\ ~Restarts(r)])
     /\ Go(s, "reconcile")
     /\ UNCHANGED <<branches, canonical, advanced, lock, rest>>

LocalContinues(s) ==
  LET r == mem[s] IN
  /\ pc[s] = "local" /\ r.phase = "local_target" /\ ~StagingMoved(r)
  /\ Save(s, [r EXCEPT !.where = "local", !.conflictHead = r.local.base])
  /\ Go(s, "reconcile")
  /\ UNCHANGED <<branches, trees, advanced, manifest, lock, rest>>

(* A result that was committed before the interruption is promoted.          *)
LocalResult(s) ==
  LET r == mem[s] IN
  /\ pc[s] = "reconcile" /\ r.local.result # None
  /\ staging' = r.local.result
  /\ Save(s, [r EXCEPT !.integrated = r.local.result, !.expected = r.local.target,
                       !.awaiting = FALSE, !.failed = FALSE, !.phase = "promotion"])
  /\ advanced' = [advanced EXCEPT ![s] = TRUE]
  /\ Go(s, "promote")
  /\ UNCHANGED <<target, trees, manifest, lock, rest>>

(* The merge of the target into the result and what staging added to it. A   *)
(* clean one, or the one the agent has staged, is kept before it is tested.  *)
LocalMerges(s) ==
  LET r == mem[s]
      begun == detached[s].merge # "none"
      base == IF begun THEN r.local.base ELSE r.local.before
      w == IF begun THEN detached[s]
           ELSE [MergeInto(Fresh(base), base, r.local.target) EXCEPT !.kind = "local"]
      st == [r.local EXCEPT !.base = base,
               !.resolved = IF w.merge = "open" THEN None ELSE w.index]
      opened == [r EXCEPT !.local = st, !.conflictHead = base]
  IN /\ pc[s] = "reconcile" /\ r.local.result = None /\ r.local.resolved = None
     /\ begun \/ Within(r.local.base, r.local.before)
     /\ detached' = [detached EXCEPT ![s] = w]
     /\ manifest' = [manifest EXCEPT ![s] = WithLocal(@, st)]
     /\ IF w.merge = "open"
        THEN Fail(s, [opened EXCEPT !.awaiting = TRUE])
        ELSE Save(s, [opened EXCEPT !.expected = st.target]) /\ Go(s, "validate")
             /\ UNCHANGED lock
     /\ UNCHANGED <<branches, canonical, advanced, rest>>

(* The agent corrects and stages a kept resolution that failed.              *)
Correct(s, f) ==
  /\ pc[s] = "idle" /\ rec[s].phase = "local_target" /\ rec[s].failed
  /\ rec[s].local.resolved # None /\ rec[s].local.result = None
  /\ detached[s].merge = "staged" /\ f \notin detached[s].index
  /\ detached' = [detached EXCEPT ![s].index = @ \cup {f}]
  /\ UNCHANGED <<branches, canonical, rec, mem, pc, advanced, evidence, lock, rest>>

Tests(s) == pc[s] = "reconcile" /\ mem[s].local.result = None /\ mem[s].local.resolved # None
Unchanged(s) == detached[s].index = mem[s].local.resolved

LocalRetriesUntested(s) ==
  /\ Tests(s) /\ Unchanged(s)
  /\ Keep(s, [mem[s] EXCEPT !.expected = mem[s].local.target]) /\ Go(s, "commit")
  /\ UNCHANGED <<branches, trees, advanced, evidence, lock, rest>>

(* The kept resolution is tested again.                                      *)
LocalRetries(s) ==
  /\ Tests(s) /\ Unchanged(s)
  /\ Keep(s, [mem[s] EXCEPT !.expected = mem[s].local.target]) /\ Go(s, "validate")
  /\ UNCHANGED <<branches, trees, advanced, evidence, lock, rest>>

(* resume --accept-staged-resolution: the correction is kept in its place.   *)
LocalAccepts(s) ==
  LET st == [mem[s].local EXCEPT !.resolved = detached[s].index] IN
  /\ Tests(s) /\ ~Unchanged(s) /\ mem[s].failed
  /\ manifest' = [manifest EXCEPT ![s] = WithLocal(@, st)]
  /\ Save(s, [mem[s] EXCEPT !.local = st, !.expected = st.target])
  /\ Go(s, "validate")
  /\ UNCHANGED <<branches, trees, advanced, lock, rest>>

(* Nobody asked for the correction, or no validation has failed.             *)
LocalRefuses(s) ==
  /\ Tests(s) /\ ~Unchanged(s)
  /\ Fail(s, mem[s])
  /\ UNCHANGED <<branches, trees, advanced, manifest, rest>>

------------------------------------------------------------------------------
(* reconcile --apply, users, and the end of a process                        *)

Missing == {s \in Sessions : /\ rec[s].status \in {"succeeded", "promotion_pending"}
                             /\ rec[s].integrated # None
                             /\ ~Within(rec[s].integrated, target)}

(* Records and branches are read once, without the lock.                     *)
AuditRead ==
  /\ audit.step = "read" /\ Missing # {}
  /\ Within(target, staging)
  /\ \E s \in Missing : rec[s].integrated = staging
  /\ \A s \in Missing : Within(rec[s].integrated, staging)
  /\ audit' = [step |-> "promote", target |-> target, staging |-> staging,
               copies |-> [s \in Missing |-> rec[s]]]
  /\ UNCHANGED <<branches, trees, rec, mem, pc, advanced, evidence, lock,
                 made, crashes, validated>>

AuditPromotes ==
  /\ audit.step = "promote"
  /\ target \in {audit.staging, audit.target}
  /\ target' = audit.staging
  /\ audit' = [audit EXCEPT !.step = "save"]
  /\ UNCHANGED <<staging, trees, rec, mem, pc, advanced, evidence, lock,
                 made, crashes, validated>>

AuditBlocked ==
  /\ audit.step = "promote"
  /\ audit' = [audit EXCEPT !.step = "done"]
  /\ UNCHANGED <<branches, trees, rec, mem, pc, advanced, evidence, lock,
                 made, crashes, validated>>

(* The copies read at the start are saved, whatever the records say by now.  *)
AuditSaves(s) ==
  /\ audit.step = "save" /\ s \in DOMAIN audit.copies
  /\ rec' = [rec EXCEPT ![s] = [audit.copies[s] EXCEPT !.status = "succeeded", !.phase = "none"]]
  /\ LET left == DOMAIN audit.copies \ {s} IN
     audit' = [audit EXCEPT !.copies = [q \in left |-> audit.copies[q]],
                            !.step = IF left = {} THEN "done" ELSE "save"]
  /\ UNCHANGED <<branches, trees, mem, pc, advanced, evidence, lock,
                 made, crashes, validated>>

UserCommits(u) ==
  /\ u \notin target.hist
  /\ target' = [hist |-> target.hist \cup {u}, tree |-> target.tree \cup {u}]
  /\ UNCHANGED <<staging, trees, rec, mem, pc, advanced, evidence, lock, rest>>

(* A command dies; its lock is removed by hand (FileLock).                   *)
Crash(s) ==
  /\ pc[s] # "idle" /\ crashes < MaxCrashes
  /\ crashes' = crashes + 1
  /\ Leave(s) /\ mem' = [mem EXCEPT ![s] = rec[s]]
  /\ UNCHANGED <<branches, trees, rec, advanced, evidence, made, audit, validated>>

Integrate(s) ==
  \/ Begin(s) \/ PrepareCanonical(s) \/ PrepareIsolated(s) \/ PrepareRefused(s)
  \/ BypassWorktree(s) \/ Merge(s) \/ MergeConflicts(s) \/ MergeBreaks(s)
  \/ NestedResolves(s) \/ NestedFails(s)
  \/ ValidationPasses(s) \/ ValidationFails(s) \/ CommitMerge(s) \/ CommitFails(s)
  \/ AdvanceStaging(s) \/ RecordStaged(s) \/ Promote(s) \/ PromotionBlocked(s)
  \/ RecordPromoted(s) \/ PostIntegrationPasses(s) \/ CheckFails(s)
  \/ Archive(s) \/ Succeed(s)
Continues(s) ==
  \/ Resume(s) \/ RecoverOrphan(s) \/ Reconstruct(s) \/ ReconstructStops(s)
  \/ ReconstructDiverges(s) \/ LocalLanded(s) \/ LocalOpens(s) \/ LocalContinues(s)
  \/ LocalResult(s) \/ LocalMerges(s) \/ LocalRetries(s)
  \/ LocalAccepts(s) \/ LocalRefuses(s)
Audit == AuditRead \/ AuditPromotes \/ AuditBlocked \/ \E s \in Sessions : AuditSaves(s)

Next ==
  \/ \E s \in Sessions : Integrate(s) \/ Continues(s) \/ Resolve(s) \/ Crash(s)
  \/ \E s \in Sessions, f \in Fixes : Correct(s, f)
  \/ \E u \in Users : UserCommits(u)
  \/ Audit

Spec == Init /\ [][Next]_vars

(* A command that runs goes on. Agents run integrate and resume again until  *)
(* the session has succeeded, and resolve its conflicts; what is tried again *)
(* and again passes in the end: validation, commits, promotion, checks.      *)
FairSpec ==
  /\ Spec
  /\ \A s \in Sessions :
       /\ WF_vars(pc[s] # "idle" /\ Integrate(s))
       /\ WF_vars(pc[s] # "idle" /\ Continues(s))
       /\ SF_vars(Resolve(s))
       /\ SF_vars(Begin(s)) /\ SF_vars(Resume(s))
       /\ SF_vars(Merge(s)) /\ SF_vars(ValidationPasses(s)) /\ SF_vars(CommitMerge(s))
       /\ SF_vars(Promote(s)) /\ SF_vars(PostIntegrationPasses(s)) /\ SF_vars(Archive(s))
       /\ SF_vars(LocalAccepts(s))

------------------------------------------------------------------------------
(* Properties                                                                *)

Steps == {"idle", "prepare", "merge", "nested", "validate", "commit", "stage", "staged", "promote",
          "promoted", "post", "finish", "archived", "reconstruct", "local", "reconcile"}

(* Every variable keeps its type; the lock is held exactly while the command *)
(* of its session runs.                                                      *)
TypeOK ==
  /\ target \in Commit /\ staging \in Commit
  /\ canonical \in [there : BOOLEAN, of : Sessions \cup {None}, index : SUBSET Change,
                    merge : Merges, stray : BOOLEAN]
  /\ detached \in [Sessions -> [kind : {"none", "isolated", "recovery", "local"},
                    head : Commit, index : SUBSET Change, merge : Merges, stray : BOOLEAN]]
  /\ rec \in [Sessions -> Record] /\ mem \in [Sessions -> Record]
  /\ pc \in [Sessions -> Steps] /\ advanced \in [Sessions -> BOOLEAN]
  /\ manifest \in [Sessions -> Manifest] /\ behind \in [Sessions -> BOOLEAN]
  /\ made \in [Sessions -> 0 .. MaxCommits] /\ crashes \in 0 .. MaxCrashes
  /\ validated \in SUBSET SUBSET Change
  /\ \A s \in Sessions : pc[s] # "idle" <=> lock = s
  /\ lock \in Sessions \cup {None}

(* What the tool puts on the target is a tree that passed validation as it   *)
(* is: promotion, direct integration, local recovery and reconcile.          *)
PromotesValidated ==
  [][\/ target' = target
     \/ \E u \in Users : u \in target'.hist \ target.hist /\ target'.tree = target.tree \cup {u}
     \/ target'.tree \in validated]_vars

(* No branch ever loses a commit, whatever dies, moves or waits: neither     *)
(* merges, nor updates of detached results, nor reconstruction.              *)
HistoryKept == [][Within(target, target') /\ Within(staging, staging')]_vars

(* No branch ever loses the changes of a commit it contains: what a session  *)
(* resolved on an older staging does not silently undo what came after.      *)
NothingReverted ==
  [][target.tree \subseteq target'.tree /\ staging.tree \subseteq staging'.tree]_vars

(* A session that is recorded as succeeded, by its own command, by the       *)
(* promotion of another or by reconcile, has its commit on the target.       *)
SucceededLanded ==
  \A s \in Sessions : rec[s].status = "succeeded" =>
    rec[s].integrated # None /\ Within(rec[s].integrated, target) /\ s \in target.hist

(* While no command runs, what staging has and the target has not is the     *)
(* result of a session that resume will take up.                             *)
StagedIsOwned ==
  lock = None /\ ~Within(staging, target) =>
    \E s \in Sessions : /\ rec[s].status \in {"review", "promotion_pending"}
                        /\ rec[s].integrated = staging

(* Every session succeeds in the end, through whatever conflicts, failures,  *)
(* blocked promotions and moved targets, unless a command died.              *)
Settles == \A s \in Sessions : <>(rec[s].status = "succeeded" \/ crashes > 0)

==============================================================================
