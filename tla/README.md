# sesh-integrator: verification project

TLA+ models, model-checking runs and TLAPS proofs for **sesh-integrator** (`seshx`), a
command-line program that integrates the work of many coding sessions into one
repository. There is no daemon: every command is a process of its own; the processes
meet in JSON session records, lock files, Git references, and the files of a
machine-wide build queue. What is hard about the program is what those processes do
to each other, and what they leave behind when they stop.

`handoff.ts` stands for `src/handoff.ts`, and so on; `PROJECT.json` ("map") names the
lines every definition is translated from.

## 1. Inventory

| component | state it keeps | operations | what is hard | modules |
|---|---|---|---|---|
| file and repository locks (`file-lock.ts`, `lock.ts`) | a lock file: pid, host, token | take, poll, release, remove by hand | crash between create and write, reused inodes, deadline against a late claim | FileLock, Mutex, BatchClaims |
| integrate and resume (`handoff.ts`) | the copy of the record a command holds, branches, worktrees | merge, validate, commit, stage, promote, resume from each phase | failures after a side effect, moved branches | Integration |
| integration batches (`integration-batch.ts`) | claims in records, the leader's copies, failed trees | claim, assemble, validate, promote, split, settle, release | claims racing deadlines, batches that stop half way, dead leaders | BatchClaims, IntegrationBatch |
| session records, abandon and restore, tasks (`runtime.ts`, `abandon.ts`, `session-audit.ts`, `tasks.ts`) | one JSON record and two indexes per session | whole-record save, update under the record lock, preview and recheck | lost updates, record and index not atomic, stale previews | SessionRecord |
| promotion by pull request, sync-target (`promotion.ts`, `pull-request.ts`, `sync-target.ts`, `delivery-policy.ts`) | local and remote branches, pull requests | push, replay, retry, merge, adopt | ambiguous pushes, moved and rewritten targets | RemoteTarget |
| reconcile (`reconcile.ts`) | target, staging, records | `reconcile --apply` | no repository lock, stale saves | Integration, SessionRecord |
| recovery bundles (`recovery.ts`) | manifest chain, immutable references, a pointer in the record | snapshot, verify, repair, archive | three kinds of write, each may be the last; old copies of the pointer | RecoveryBundle, Integration |
| validation execution (`process.ts`, `resource-lock.ts`) | leases per resource, gate files | groups, retries, cancellation | lock order, dead owners, leftover processes | Validation |
| validation reuse and tiers (`cache.ts`, `target-move-reuse.ts`, `validation-tiers.ts`) | stored results | choice of a plan, reuse after the target moved | the result of one tree standing for another | ValidationPlan, Validation |
| build queue (`build-queue.ts`, `queued-process.ts`, `worker-budget.ts`) | an entry per request, settings | acquire, run, cancel, release, recover, configure | orphans, reservations, progress deadlines, surviving process groups | BuildQueue, Slots, AdmissionGate |
| configuration (`config-*.ts`, `dashboard-settings.ts`, `enablement.ts`) | config.json, what it includes, its history | register, enable, disable, three ways of saving Settings | forms that are open for long, edits by hand, included values | Configuration |
| setup and pinned coordinators (`setup.ts`, `coordinator.ts`) | installed files, receipts, copies of builds | setup, uninstall, retain, repair | customized files, builds replaced while copied, deaths | Installation |
| incidents and agents (`incident.ts`, `agent.ts`) | incident records | record, investigate, save the session again | a save long after the failure | SessionRecord, BatchClaims, Integration |
| Git adapter, command line, types | none of their own | predicates over branches, statuses | | partly, in the modules above |
| dashboards, reports, diagnosis, benchmarks | none | reading, text, HTML | not concurrent | not modelled |

The hazards, at their lines and with the properties that would catch each of them, are in
`PROJECT.json`.

## 2. Modules

```
Mutex  <--refines--  FileLock                    Slots  <--refines--  BuildQueue
                        |  used as an atomic lock                        |  gate used as a mutex
        +---------------+----------------+                          AdmissionGate
        v               v                v                               
   BatchClaims     Integration      SessionRecord        Validation  (a slot of BuildQueue = a
   who integrates  what one does    who saves what                    member of a bounded set)
        |               |                |               ValidationPlan  what is validated
   IntegrationBatch     |           RecoveryBundle       Configuration   what commands read
   what a leader does   RemoteTarget  the record's evidence  Installation    what commands run
```

The modules cut the program where it has locks: what happens under the repository lock is
serial, so each module takes as one step, or leaves out, what another one is about. Every `MC`
module only gives constants their values.

**FileLock** models `file-lock.ts` and the checks of `releaseRepoLock`. A run opens the
file exclusively (`Open`), writes its record (`WriteOwner`; `WriteFails` leaves the empty
file behind), and its release checks the owner, the identity of the file and the token
before the unlink, one step each. Runs crash anywhere. Inode numbers are reused, tokens
are not. An operator inspects a stale file (its process is dead) and removes it later.
**Mutex** is its abstraction: acquire, release, die, reclaim.

**BatchClaims** models `integrateCommand`, the batch it leads or joins, and the polling
loop of `acquireRepoLock`. `rec` is the record on disk, `mem` the copy of the session's own
command, `copy` the copies the leader holds of the records it claimed. Every save writes a
whole copy; only `Claim` and the withdrawal in `Expire` read and write in one step, as
`updateSessionRecord` does. `pc` is the step of each command, from `starting` over the
polling round (`polling`, `waitCheck`, `holdCheck`) to `leading`, the batch, the command's own
integration and the saves of the failure path (`failing` ... `late`). A batch's id stands for
its `joinedAt` and `since` counts batches, so `joinedAt >= since` is compared as numbers. What
is merged is abstracted: any subset of the open members may be promoted together, any member
may fail alone or be excluded, any promotion may be blocked. `replay` in a record says that the
session landed by a direct integration and that what it replayed on a moved shared target failed.

**IntegrationBatch** is the leader's side in full: candidates merged in ready order onto the
target, one validation for a group, staging, the guarded promotion, the split of a group that
fails into halves with the failed trees remembered, the isolated rerun of the last one, the
outcome each session is left with, an interruption anywhere, users who commit to the target
or move staging meanwhile. A `World` says what each change brings, which do not merge, and
which break the checks alone or together.

**Integration** models what a command does to Git once it has the repository lock: `integrate` for
a session alone, the nested resolver, `resume` in every phase but the remote one, the recovery
and correction of a moved local target, `reconcile --apply`, next to users who commit to the
target and the agent who resolves conflicts. A commit is the set of commits in its history and
the set of changes its tree shows, so that a tree committed on another parent than it was
built on can be seen. `canonical` is the shared worktree, whose HEAD is the staging branch
wherever that moves; `detached` is the session's isolated, recovery or local worktree. `rec`
and `mem` are the record and the copy of the running command, `manifest` is what the last
snapshots in the recovery bundle say. `pc` follows the code: `prepare`, `merge`, `nested`,
`validate`, `commit`, `stage`, `staged`, `promote`, `promoted`, `post`, `finish`, `archived`; a resume
begins in `reconstruct` or, when the local target moved, in `local` and `reconcile`. `Clash` says
which changes Git cannot merge and `Adding` which add files: a stale tree then shows up as
untracked files (`stray`), which stop validation.

**SessionRecord** models the record, its two index files, the record lock, and the commands
as sequences of reads, waits and saves on the copies they hold: begin, tasks, commit, validate,
integrate, resume, finish, abandon (preview, audit, recheck; one or all), restore, reconcile,
and the incident that is saved after the locks are gone. Edits are counters, so that a lost one
is seen.

**RecoveryBundle** takes the bundle apart that Integration treats as one value: references
that must not exist before, copies of manifests in the history, the replacement of
`manifest.json`, and the pointer in the record, each a write of its own, by commands that
overlap, fail, die, and save old copies. A manifest is known by how many were written before
it and by whom, which stands for its hash.

**RemoteTarget** models delivery: the policy a session begins under, promotion to a target
that others push to, rewrite and merge into, or through a branch per session, with pushes
that are reported failed after they took effect, `RetryLimit`, replays of the session's commit,
`sync-target`, and the phases `remote_promotion` and `pull_request` of resume. `known` says whether
the clone has the tip of the production branch, which the program reads by `ls-remote` and never
fetches. What integrate does on its own side of the remote is one step.

**Validation** models processes that validate: the mutex of identical validations, groups whose
commands run in parallel, leases taken key by key in sorted order under gate files, slots,
attempts, aborts, deaths that leave gates, leases and running commands, edits of the worktree,
and commands that leave processes behind. `Baseline` is what a session's worktree had unstaged
when the session began: begin accepts it, the checks only warn about it (source-state.ts:94), and
commands run on it, so `passed` remembers tree, unstaged changes and command. `Failing`, `Leaky` and
`Stuck` are the commands that may fail, leave descendants, or keep a lease that cannot be removed.

**ValidationPlan** is about what stands for the tree that reaches the target: tiers by changed
paths, the commit that was validated, results used again after the target moved, one plan for
a batch, the full plan after a moved promotion. Commands fail on whatever combinations of
changes keep the word their tiers give (`Honest`, `Inert`). `Stacked` are sessions begun on work that
has not landed, `Dirty` sessions whose unstaged changes may make commands pass; both are empty in
the run and in the theorem (4.7).

**Configuration** models config.json as a function of what can be set, one included file, the
history, and who saves: register, enable and disable, the Settings form, the repository form and the
JSON tab, edits by hand, and an integration that reads the registration before it waits.

**BuildQueue** models `acquireBuildSlot`, `runQueued`, `execute`, `releaseBuildSlot`, `queue
recover` and `configure`, and the capacity and test workers that a setting gives. A request is
stamped (`Ask`), enters the gate, registers, prunes dead waiters, decides, and polls again, times
out, or is cancelled; admitted it spawns its command; `Close` keeps the slot if something of
the process group is alive. **Slots** is the abstraction. **QueueHistory** adds the history a
waiter does not see: commands that finished, requests that registered ahead of it and slots
taken away between two of its polls. **AdmissionGate** models the mutex itself: the current port, the legacy port
that older pinned coordinators use, the two listen-and-probe attempts, cleanup, and death.

**Installation** models setup and uninstall under the configuration lock (receipts, customized
files, deferral while sessions are unfinished, enrollment), `retainCoordinator` (digest, copy,
publish, repair), and begin, resume and restore as far as they read or pin any of it, and the late save
of an old copy that opens a succeeded session again (`StaleSave`).

`BatchClaimsProofs`, `IntegrationBatchProofs`, `IntegrationProofs`, `SessionRecordProofs` (with the
lock file), `BuildQueueProofs` (with the gate), `ValidationProofs` (with the plans),
`RemoteTargetProofs` and `ConfigurationProofs` (with setup and the recovery bundle) hold the theorems.

## 3. Runs

| run | instance | properties | what it shows |
|---|---|---|---|
| `file_lock` | 3 runs, 1 inode number, 1 operator, fair | `NoForeignRemoval`, `ImplementsMutex`, `LockReturns` | the file is a mutex, is removed by its own run or after its death, and becomes free again |
| `claims` | 3 sessions, the second depends on the first and is tried twice; no races | `NeverTimesOutClaimed`, `OpenClaimHasLeader`, `LandedIsRecorded` | the undisturbed protocol loses no claim and records what landed, but for a failed replay after a direct integration (0.4 M) |
| `claims_races` | 2 sessions, all races, a crash, fair (0.15 M states) | `OneIntegrator`, `StoppedIsResolved`, `WaitEnds`, `ClaimSettles` | one integrator, waits end, claims settle, whatever races |
| `batch` | leader and 3 members, 36 worlds, a user, one fault, fair (70 k) | `StagedIsOwned`, `InnocentLand`, `PromotesValidated`, `BatchEnds` | only validated trees are promoted, an innocent session lands whatever the others break |
| `integration` | 2 sessions that clash, a user who clashes with one; every step may fail (2.7 M) | `StagedIsOwned`, `PromotesValidated`, `NothingReverted` | no change is undone when files are added, staging is not left ahead without a session to resume |
| `integration_crash` | 1 session with bypass, a user, a correction, reconcile, a death, fair (34 k) | `HistoryKept`, `Settles` | no branch loses a commit; without a death the session succeeds |
| `records` | 2 processes, 2 sessions, 3 commands, a death (1.8 M) | `EditsKept`, `ClosedWithoutWork`, `IndexFollows`, `ClosedStaysClosed` | old copies lose no checklist edit, open no closed session, close no work away |
| `remote` | 2 sessions, policies, another clone, a merge nobody fetched, a local commit, a rewrite, a fault, a death, fair (0.8 M) | `OnlyForward`, `SucceededDelivered`, `Delivers` | nothing is overwritten, succeeded means delivered, retries find their own push |
| `validation` | 3 processes, groups of two, 2 keys wanted the other way round, a worktree with unstaged changes, a death, an abort, a deadline, an edit, a lease that stays, a leak, fair (0.3 M) | `ResourcesRespected`, `ResultsAreTrue`, `RunsOnce`, `ValidationEnds` | no conflicting commands together, no deadlock but with oneself, stored results are true of where they came from |
| `plan` | 2 sessions, 4 changes, 4 commands, 3 tiers, all failures that keep the tiers' word (3.4 M) | `TargetPasses` | what reaches the target passes the full plan |
| `configuration` | 2 tools, 1 repository, 3 commands, an edit, a death (1.5 M) | `AcceptedStays`, `QuietWhenDisabled`, `ReplacedIsKept`, `NoSilentReplacement` | no form undoes another save, nothing replaced is lost |
| `queue` | 3 requests of 2 processes, capacities of `auto` on 4 processors and 10 GiB and of 1, a change, fair (0.5 M) | `WorkloadHasSlot`, `ReservationKept`, `ImplementsSlots`, `FinishIsProgress`, `RequestsSettle` | commands run in slots, reservations last, every request ends |

Every property has a mutant of the code that violates it in the run (`PROJECT.json`). Deadlock
is not checked: every command ends, so every run of the system may stop; that nothing waits
for ever is what the liveness properties say.

AdmissionGate, Installation and RecoveryBundle have no run among these: their invariants are
proved for all constants. TLC has agreed on these instances, with a configuration that gives
the constants and lists the invariants:

| module | instance | states |
|---|---|---|
| AdmissionGate | 3 current and 2 older coordinators, `OldTurns` 3, 2 sockets | 815 |
| Installation | 2 processes, 1 harness, 1 path, builds x and y, 1 customized text | 1.6 M |
| | the same with build x and 1 session | 0.8 M |
| | no path, builds x and y, 1 session | 5.4 M |
| | no path, build x, 1 session, 1 repair name | 0.8 M |
| RecoveryBundle | 2 commands, 1 attempt, `Depth` 2, `MaxManifests` 4 | 1.4 M |
| | 2 commands, 2 attempts, one optional commit, `Depth` 1, `MaxManifests` 2 | 0.1 M |

In the last one the mismatch, the refused reference and the repair are all reached, so that the
theorems about them are not about nothing.

**Bounds.** Three lock runs let one hold, one wait and one be dead. Three sessions give a
leader with two members and a dependency inside and outside the batch; `Races` and `Crashes`
are empty where a property is stated for the undisturbed protocol and full where it must
survive. Four batched sessions make a split of a split. In `integration` a user's commit while
one session is preserved for its agent and the other goes on reaches every phase of the
recovery; a session commits at most twice then, so `MaxCommits = 2` cuts nothing off. With a
crash the space is too large together with reconcile, a correction and a user in two sessions;
there one session's steps are all interrupted. Three commands on two sessions of one checkout
give a copy that is read, overtaken by a whole command, and saved. Three queue requests give one
running, one ahead and one behind; two of them share a process. In `remote` the limit of attempts
is 2 instead of 3: one replay and the refusal. `HistoryLimit = 2` lets history be dropped.
These runs were repeated at larger bounds: `records` with 4 commands (17.4 M states),
`integration_crash` with two sessions (8.6 M), `plan` with failures on three and four changes (5.7 M),
`remote` with two other movers (6.8 M, safety), `validation` with one slot (0.25 M) and with a
group of three commands and one slot (0.5 M), `integration` with a crash (1.5 M) and with audits
(6.9 M, safety); nothing further was found.

Processes and tools are interchangeable where a cfg declares SYMMETRY; those runs check safety only.

**Fairness.** A live process goes on (weak fairness of its steps); nothing is assumed of
commands run in the queue, of crashes, or of who wins a contended lock. In BatchClaims a poll
that finds the lock taken again and again reaches its deadline or finds the dead owner (strong
fairness of `Expire`, `FindStaleLock`): the deadline is a time and the liveness of the owner is
checked every round. In the queue a request that stalls again and again reaches its deadline
(strong fairness of `TimeOut`); `stalled` is only reached without progress. `Enter` and `Release` are
weakly fair together with the ten-second limit of the gate. `LockReturns` assumes that the
operator removes stale files. In Validation processes and commands are weakly fair, and the deadlines of
the processes that have one in the model (`Impatient`) strongly fair. Excused are a gate file that a dead
process left, and, for a process without a deadline, a command that waits for what a failed one of its own group
keeps (4.7); in the code every wait has a deadline (`lockWaitSeconds`), which ends that one. In Integration and RemoteTarget a running
command goes on; agents run `integrate` and `resume` again and resolve conflicts (strong
fairness: others may hold the lock in between), and what is tried again and again passes in
the end. Users and other clones have finitely many commits. `Settles` excuses runs with a death and is
checked without failing steps after promotion, with which it is false (4.3); `Delivers` excuses
the ends that the tool leaves to people, a merged pull request that nobody fetched among them (4.8).

## 4. What disagrees with the documentation

Each of these was found by TLC and can be reproduced by the change that is named; properties
that are false as the documentation states them stay in their modules, and no run lists them.

**Waiting and batches**

1. *Released waiters* (`claims` with `Races = {"early_stop"}`, `NeverTimesOutClaimed`). SPEC.md:628 says
   that a waiter which reaches its deadline withdraws atomically unless claimed and never
   times out while claimed. A waiter released or excluded by an interrupted batch does neither:
   `joinedBatch` (integration-batch.ts:968) recognises its old membership, so it is neither
   withdrawn nor held at its deadline, and the next leader claims it while it times out. *Late
   joiners* (`Races = {"late_join"}`): `joinedAt` is taken before the candidates are read; a session
   that starts to wait in between is claimed with a `joinedAt` older than its `since` and does
   not recognise the claim. The double reading of the clock in one round (lock.ts:91, lock.ts:97,
   race `tick`) lets a claimed waiter time out too. `FailedMeansFailed` (IntegrationBatch): a leader
   that landed alone or in the first half is set to failed when a later group aborts, so `integrate` throws and
   records an incident for a session that succeeded, against the comment integration-batch.ts:106.
   *Landed and ready*: the catch clause of `integrateCommand` (handoff.ts:1068) marks a failure only if
   it started the integration itself or the phase is `pull_request`. A direct integration that
   finds the shared target moved is replayed in phase `remote_promotion` or `post_integration`
   (handoff.ts:2483, 2390); if that fails the session is still `ready`, although its commit is in the
   local target. `resume` does not take a ready session, the next `integrate` does.
   `LandedIsRecorded` allows exactly this case, and it also says that no leader claims such a session.

**Integrating and resuming**

2. *A change is undone silently* (`integration` with `Adding <- Nothing`, `NothingReverted`). A conflict
   of session a stays in the shared worktree. Session b integrates in an isolated worktree and
   moves staging, and with it the HEAD of the shared worktree, whose index stays. The agent
   resolves a's conflict; `resume` snapshots that index with the new HEAD as its base
   (recovery.ts:150), finds the base equal to the current staging (recovery.ts:373), and commits
   the tree on it. The edits of b are gone although b is in the history. docs/commands.md:623 says
   that resume refuses a moved integration branch. Files that b adds show up as untracked
   and stop the command.
3. *No retry after the promotion* (`integration_crash` with `Checks = TRUE`, `Settles`). docs/commands.md:657
   says that post-integration failures remain resumable. Resume reconstructs a recovery worktree
   first, and that refuses a target which has commits staging has not (recovery.ts:386): once a
   user has committed to the target, no resume gets as far as the commands.
4. *Refused bundles* (RecoveryBundle). `resume` reads the record before it waits for the lock and saves
   that copy before and after (handoff.ts:1507, 1525). If another command advanced the bundle
   meanwhile, the older `manifestHash` is back on disk, and every later resume ends "Recovery manifest
   hash mismatch" unless a local recovery is in the manifest; a copy from before the bundle
   removes the pointer altogether. `MismatchIsBehind` proves that there is no other mismatch. A death or
   a failure between an immutable reference and its manifest makes the next record of that kind end
   "Recovery ref already exists" until one of another kind is appended; SPEC.md:1193 says that
   interrupted evidence publication retains recoverable state. `RefusedAfterBreak` proves that nothing else does.

**Records**

5. *Two sessions of one worktree* (`OneLivePerWorktree`). restore looks for others under its record
   lock, begin under the configuration lock (abandon.ts:247); both may go on, against SPEC.md:1082 and
   docs/commands.md:928. An update of the tasks of a succeeded session, or reconcile's save, repoints the
   worktree's pointer and hides the session that runs there.
6. *Old statuses come back*: a validate that saves its copy (handoff.ts:1345) after an integrate, or an
   incident (incident.ts:61) after a resume, brings the older status back, and a restore's
   `abandonmentHistory` can be lost by one. A save that only indexes an older checkout (runtime.ts:719)
   may even write the `abandonment` of an earlier abandonment over that of a later one; that is why
   `ClosedWithoutWork` speaks of the step that closes a session and not of what the record
   shows afterwards. Closed sessions stay closed, which `ClosedStays` proves.

**Validation and delivery**

7. *Light tiers and stacked work* (`plan` with `Stacked = {b}`). A tier is chosen from the paths changed
   since begin; a session begun on a branch with commits that the target lacks lands them
   under the plan of its own paths. *Equal names* (`plan` with three tiers of one name): a batch is
   formed when the names of its members' plans agree (`batchValidation`, integration-batch.ts:494), and
   nothing rejects two tiers of one name, so it can land members of different tiers under the plan
   that the union of their paths happens to select. *Leftovers*: docs/configuration.md:450 says conflicting commands do not
   overlap; they do when a command leaves descendants behind, or for tiers with a bypass after
   a death. A gate file that a dead process left blocks its key until somebody removes it. A lease that
   a failed command could not remove, or the slot of one that left descendants behind, holds up the other
   commands of its own group until their deadline. *Unstaged changes* (`ResultsAreExact`, false on the
   instance of `validation`; `plan` with `Dirty = {b}`): what a worktree had unstaged when its session began
   may stay (docs/commands.md:440), the checks only warn about it (source-state.ts:94), and the
   commands run on it, but a pass is recorded and shared as a result of the commit's tree
   (handoff.ts:1330, cache.ts:76). docs/configuration.md:516 and SPEC.md:700 promise results
   for the exact tree that was checked; so a tree may land that would fail its commands.
8. *Deliveries nobody can resume* (RemoteTarget). `resume` in phase `remote_promotion` always refuses:
   reconstruction gives a detached worktree and `resumeRemotePromotion` (handoff.ts:2515) wants the
   integration branch checked out, against docs/configuration.md:258 and SPEC.md:290. After the last attempt a
   resume looks at the count before it fetches and never resets it. The phase `pull_request` cannot
   be resumed once the local target is ahead of staging. An unresolved replay in the shared worktree
   blocks the recovery of all other sessions. When GitHub merges a pull request and the command dies before
   it saves, `promoteByPullRequest` (pull-request.ts:79) reads the new tip with `ls-remote` and never fetches it;
   `merge-base` fails on a commit the clone does not have, so resume pushes again and asks for another pull request,
   which GitHub refuses, each time until somebody fetches.

**Configuration, setup, queue**

9. *Files that no command loads* (`KeepsLoading`): a `defaultTargetBranch` equal to the staging branch, then
   register; or an included one that equals a registration's integration branch. docs/configuration.md:649
   and the comments at runtime.ts:157 and in `dashboard-settings.ts` say that what the CLI would refuse is
   rejected. Also: the JSON tab disables a repository that only an include registers
   without its lock, in the middle of an integration (dashboard-settings.ts:763); register writes
   filled-in defaults, which pins them over a later include; a hand edit between a tool's read
   and its rename is lost. A page changes one value here: in the code a repair in the JSON tab may
   remove a registration and disable its repository at once, without the lock of it.
10. *Sessions after uninstall* (`EnrollmentStops`): begin reads `enrollment.json` (handoff.ts:388) before it
    waits for the configuration lock, so a session begins after its agent's files are gone,
    against SPEC.md:1182 and docs/installation.md:53. restore takes no configuration lock at all, and a stale
    save (4.6; incident.ts:61, handoff.ts:1345) makes a session that succeeded unfinished again while an
    uninstall that saw it closed removes its agent's files. A user's edit
    between the last comparison and the replacement is lost; a damaged copy of a build at its
    named place makes every later command create another repair copy.
11. *The legacy mutex* (`MixedExclusion`): "A port collision only delays/fails admission; it cannot
    over-admit work" (build-queue.ts:238) does not hold between versions: a socket that refuses
    the probes is taken to keep older coordinators out, but it may go away while the gate is
    held. Within one version exclusion is proved. `FinishIsProgress` has a condition:
    a request stamped earlier that registers between two polls, or a concurrency that is raised,
    used and lowered again, can hide that a running command finished; docs/build-queue.md says that
    the deadline restarts whenever one finishes.

## 5. Proofs

All for every value of the constants that satisfies the named assumptions of the module
(numbers are numbers, `None` is no session or process, and the like).

- **SessionRecordProofs, the lock file.** The inductive invariant `LockInv` says that the file of a run between its open and
  its unlink is that run's and carries its handle's inode and token (`OwnFile`), and that a
  file an operator is about to remove has a dead owner (`SeenIsDead`). Exclusion alone is not
  inductive: without them an unlink could hit another owner's file. All but `LockTypeCorrect`
  assume one operator; with two the statement is false, as `lock.ts` says where it refuses to
  remove a stale lock by itself. `LockRefinement` shows that every step is one of Mutex.
- **ValidationProofs.** `LeaseInv`: the leases of live tasks are compatible, one that queues or runs
  has all it asked for, and one that acquires misses a key, so that the next key of the sorted
  requests exists (`FirstKey`). With `Working` (what runs has a slot, and a task of a live process
  that runs is at that step) a task that gets a slot finds no orphan and so only live ones that run,
  whose leases are there: `ResourcesHold`. It assumes `Covered`: a command that wants a key uses the
  queue and leaves nothing behind; section 4 says what happens otherwise. `ResultsHold` rests on
  `Ran` (a passed task of a worktree that is not edited passed on the tree together with what the session
  began with) and `GroupsDone`; since an edit stays until the process looks again, it cannot record a result
  that an edit made wrong. What it says of a stored result is what the code keeps: the command passed on
  that tree in the worktree of some session that shares results, with that session's unstaged changes (`PassedOnTree`).
  `RunningOnce` assumes `PlansAgree`, as the doc does ("identical concurrent validation plans"):
  who shares a result has the same mutex (`Alone`), so nobody stores what a process inside is
  about to run (`Fresh`).
- **ValidationProofs, the plans.** `PlansSuffice` shows that whatever
  lands passes the full plan: what a tier leaves out is inert for its paths (`Inert`), so a tree
  passes it because the tree the session began on does; a larger plan that passes implies each
  smaller one, and of a batch this follows from its fewest members (well-founded induction). It
  assumes that the tiers have different names, no session is stacked on work that is not landed and
  none began with unstaged changes; section 4.7 has the counterexample to each.
- **BatchClaimsProofs.** `Owned` (whoever is past the wait owns the lock file) gives
  `IntegratorIsOne`. `Recorded` covers every copy that may be saved later, not only the disk:
  no record, own copy or leader's copy says succeeded before the commit landed; this gives
  `SucceededHasLanded`. `Ordered` adds that the sessions being promoted or decided have their
  dependencies landed, which gives `DependenciesLandFirst`. `Results` says what a leader has
  saved for each member of its batch at each stage, and that a member whose status is there has
  its outcome too; this gives `StoppedFindsResult`. All of them with crashes and every race.
  `ClaimsAreWorkedOn`, `ClaimedWaitersHold` and `LandedIsKnown` assume `Undisturbed` (no crash,
  no race): each race and a crash break them (section 4.1), so the assumption is what the code
  needs. `Claims` says that a claimed session waits until the leader that holds the lock has
  settled it, `Landings` that who has landed is in a copy its leader will still save, or
  failed in the replay of a direct integration and shows the attempt (`Replayed`).
- **IntegrationBatchProofs.** Nothing is assumed but `BatchAssumption` (the order has every session
  once). `Assembles` says what the recursive function of assemble makes of a group: the
  target, what it includes, and that whoever it leaves out disagrees with it; that the function is
  defined for every group is shown by well-founded induction. `Flow` says that while the batch works a
  session is open exactly if it is in a group or in the candidate, and in one of them only: this is what
  splitting must keep, and it gives every member an outcome. `Undecided` says that who is not
  decided still has the record it came with, but for a staged commit, `Candidate` that what may be staged
  or promoted was validated and has the changes of its members, `Owner` where the commit of staging
  is recorded at each step, and `Guilt` who is to blame for a session held back in a batch without
  faults; blame survives what lands afterwards because the target only grows.
  From it: `OnlyValidated`, `StagedHasOwner` and `InnocentsLand`. `StagedIsOwned` leaves two moments out on purpose: between
  the move of staging and the first record, and before the end of a batch that aborted is saved, a death
  leaves work on staging that no record names.
- **IntegrationProofs.** For any number of sessions and users, crashes and audits included. `Kept`
  says that whichever copy of a record is read, what it calls integrated has a validated tree or
  is on the target, and that the recovery it is in is the one its bundle describes; an interrupted
  save may bring an older recovery back, so that its worktree must still stand on a staging that is
  still there (`Evidence`). `Running` says what a command has validated and built on at each of its
  steps, `Audited` the same of what `reconcile --apply` read without the lock. It gives
  `OnlyValidatedPromoted` and `NoCommitLost`.
  `StagedHasOwner` assumes no death and no `reconcile --apply`. `Ownership` says that while no
  command runs staging is within the target or a resumable session has it as its result (in a
  recovery, as what that starts from or has come to), and that a running command has it (`Taken`)
  or moves staging only from where it says it is (`Owed`). Both assumptions are needed: with
  `MaxCrashes = 1`, or with `Audits = TRUE`, TLC finds a staging that nobody takes up.
  `NothingIsReverted` allows deaths, audits and corrections, and assumes that every change adds
  files (`Change \subseteq Adding`); without it section 4.2 is the counterexample. `Honesty` gives every commit a colour, the
  changes it itself brought, so that each branch, record, bundle and worktree head shows exactly the colours of
  its history; a commit whose history is larger then shows more. For the commits to come it says
  that a merge in progress has both sides in its index, or something stray that stops it, or is of a
  recovery whose start staging has left for good (`Joins`, `Aside`).
- **SessionRecordProofs.** Any commands, sessions and deaths. `Counted` ties the record to the
  history of edits and work. Every copy that may be saved has the place of its session and says
  `no_changes` only if the record does, and `Writable` says what the record that a command is about
  to write may change: that is what survives the saves of others, since they need the record
  lock. `Indexed` says that a session whose index files are behind has a writer or was left by
  a death. The numbering of sessions needs the configuration lock, so `Running` also says that a
  begin holds it. From it: `EditsStay`, `IndexesFollow`, `ClosedStays` and `NothingClosedAway`.
- **RemoteTargetProofs.** `Records` says that whichever copy of a record is saved, its commit was
  validated and has the session's change, and what it says was promoted is in the local target;
  `Commands` that a command that runs has the lock and is as far as its step, and that the branch has
  the change when the pull request is opened, and the delivery is there when the record is about
  to say so. It gives `NothingOverwritten` and `SuccessIsDelivery`.
- **BuildQueueProofs.** `EntryFollowsRequest` with stamps, dead requests and `GroupInSlot` is
  inductive. From it: `WorkloadsHaveSlots`, the `Refinement` of Slots, and `ReservationsHold`, by
  counting the entries ahead: who is admitted was ahead (one fewer ahead, one more
  running) or behind (then the admission rule left room for everyone ahead of it).
  `FinishIsSeen` adds `HInv` over QueueHistory: a waiter that nothing overtook since its last poll
  has moved up, sees a command gone, fits, or saw what still runs and missed nothing; a command it
  saw never waits again (`SeenRan`), so one that is gone stays gone. The case of a lowered
  concurrency came out of this proof; with two changes of it TLC finds the same.
  `CapacityPositive` and `WorkersShareTheMachine` are about the operators of the settings. For
  the gate (`Gate == INSTANCE AdmissionGate`) `HasPort` gives `ExclusionHolds`; `PortsDisjoint` is
  the arithmetic behind the nested mutexes.
- **ConfigurationProofs.** `CopyInv` says what a tool that is inside its save may write: what differs
  from the file is what it was asked to change or a default (`AsAsked`), a repository it disables is
  one whose lock it holds (`Disables`), it adds no registration of an include (`AddsNone`), and the text
  it replaces is in the history by then (`IsKept`). These survive the steps of the others because only
  the holder of the lock writes (`LockInv`) and because what a page was asked is one change of what it
  showed (`OneChange`), compared with the file under the lock. From it: `AcceptedHolds`,
  `DisabledIsQuiet` (with `RepoInv`), `ReplacedKept` and `NothingReplacedSilently`.
- **ConfigurationProofs, setup** (`In == INSTANCE Installation`). `SetupIInv` ties the plan of a running setup or uninstall to what it compared,
  under the lock it holds, and gives `Customized`. Three invariants rest on it: `Owns` (what a
  job holds in its plan is named by the receipt before it is replaced) gives
  `InterruptedSetupRepeats`, `Defers` (a job that removes files saw no unfinished session; any there are
  by then were closed when it looked, and reopened since by a restore or a stale save) gives `UninstallWaits`, `Keeps` (the copy a command holds is whole) gives
  `SessionsKeepTheirBuild`.
- **ConfigurationProofs, the bundle** (`RB == INSTANCE RecoveryBundle`). The invariant has a part for what is on disk (every published manifest
  retained, linked, with its references), one for every pointer that may be saved, and one
  for the job of the command that writes: it alone holds the lock, starts from the current
  manifest, and what exists of its references was made by itself or by a job that broke. It gives
  `EvidenceSurvives`, `MismatchIsBehind` and `RefusedAfterBreak`.

TLC checked the inductive invariants of IntegrationBatch (with up to three faults), Validation, Integration, SessionRecord, RemoteTarget, Configuration,
BatchClaims and QueueHistory (with two changes of the limit) on the instances of their runs before they were proved.

Only model-checked are the liveness properties (`LockReturns`, `WaitEnds`, `ClaimSettles`, `BatchEnds`
and the others of section 3), which the prover does not treat, with the fairness of each run.

## 6. Not modelled

Dashboards but for what Settings saves, reports, diagnosis, benchmarks and the parsing of
arguments: they read and format. Signing, the location of worktrees and the reading of Git's
output: no state of their own. Agents: their command lines and what they answer.

Inside the modelled components: I/O errors of record saves; queue bypass records (no
capacity), changes of `waitSeconds`; owners on other hosts and reused process ids (the code
treats both as alive and blocks); isolated worktrees that somebody removes or edits, branches
rewritten by hand; the environment in fingerprints, the setup cache, and the plan inferred
from `package.json`; several includes at once and placeholders; the order and texts of tasks and the
register of follow-ups; hand edits of config.json during a save; tampering with bundles;
Windows process trees; `lockWaitSeconds = 0`; collisions of the 32-bit repository id; the unlocked count of
unfinished sessions before worktrees are moved (worktree-location.ts:107).

## 7. What is left

All components that change shared state have their module, and every safety property that a run
checks has its theorem. What could still be modelled are the parts that section 6 names.

Theorems are kept in eight modules; proofs about a further component join one of them, through
EXTENDS as those of the lock file and of the plans did, or through INSTANCE as those of the gate,
of setup and of the bundle.
