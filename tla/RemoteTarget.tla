----------------------------- MODULE RemoteTarget -----------------------------
(* Promotion by pull request: sessions on their way through a target branch  *)
(* that a remote shares with other clones, or through a branch of their own. *)
(* Others push to the remote, rewrite it once, merge pull requests; commands *)
(* die, pushes are reported failed after they took effect. What integrate    *)
(* does on its own side of the remote is one step here (Integration). How a  *)
(* session is delivered, begin takes from the central policy and records.    *)
(*                                                                           *)
(* A commit is the set of the changes it descends from.                      *)
EXTENDS Naturals, FiniteSets

CONSTANTS
  Sessions,
  Files,        \* what the policy file may hold when each session begins
  Others,       \* each pushes one change to the shared target of the remote
  Locals,       \* each commits one change to the local target
  Clash,        \* the pairs of changes Git cannot merge
  Rewrites,     \* may the shared target of the remote be rewritten, once
  RetryLimit,   \* of promoteByPullRequest
  MaxCrashes, MaxFaults,  \* bounds: commands that die; steps that fail
  Shared, None

ASSUME RemoteAssumption ==
  /\ Rewrites \in BOOLEAN
  /\ RetryLimit \in Nat /\ MaxCrashes \in Nat /\ MaxFaults \in Nat
  /\ Shared \notin Sessions /\ None \notin Sessions \cup {Shared}
  /\ \A commit \in SUBSET (Sessions \cup Others \cup Locals) : commit # None

------------------------------------------------------------------------------
(* The delivery policy: rules by default, and the fields that the entry of   *)
(* this repository overrides; None is a file that is missing.                *)

Rule == [promotion : {"none", "shared-target", "session-branch"},
         completion : {"local", "target-pushed", "production-merged"}]
Fields == {"promotion", "completion"}
(* parseRule                                                                 *)
WellFormed(p) ==
  /\ p.defaults \in Rule /\ DOMAIN p.entry \subseteq Fields
  /\ \E rule \in Rule : \A f \in DOMAIN p.entry : p.entry[f] = rule[f]
ASSUME FilesAssumption ==
  \A s \in Sessions : \A p \in Files[s] : p # None => WellFormed(p)

(* ruleProblem: what the promotion never does cannot complete the delivery.  *)
ProblemNever(rule) == FALSE
Problem(rule) ==
  \/ rule.promotion = "none" /\ rule.completion # "local"
  \/ rule.promotion = "session-branch" /\ rule.completion = "target-pushed"

(* applyOverride: whole fields, never deep-merged.                           *)
Override(rule, entry) ==
  LET field(f) == IF f \in DOMAIN entry THEN entry[f] ELSE rule[f]
  IN [promotion |-> field("promotion"), completion |-> field("completion")]
Loads(p) == p # None
Accepted(p) == ~Problem(p.defaults) /\ ~Problem(Override(p.defaults, p.entry))
Resolved(p) == Override(p.defaults, p.entry)

------------------------------------------------------------------------------
Change == Sessions \cup Others \cup Locals
Commit == SUBSET Change

VARIABLES
  heads,       \* the remote's branches: the shared target, the sessions'
  base,        \* the production branch of the remote
  known,       \* is its tip a commit that the clone has?
  prs,         \* open pull requests: the head and who opened it
  target, staging,
  canonical,   \* the merge that is under way in the integration worktree
  rec, mem,    \* the session records, and the copies of running commands
  pc, lock,
  fetched,     \* what a command fetched from the moved shared target
  rewritten, crashes, faults,
  validated    \* history: the trees integration validation has passed

vars == <<heads, base, known, prs, target, staging, canonical, rec, mem, pc, lock,
          fetched, rewritten, crashes, faults, validated>>
remote == <<heads, base, known, prs, rewritten>>
local == <<target, staging, canonical>>
records == <<rec, mem>>

Record == [status : {"none", "ready", "review", "pending", "succeeded"},
           phase : {"none", "promotion", "post_integration", "pull_request",
                    "remote_promotion"},
           integrated : Commit \cup {None}, promoted : Commit \cup {None},
           expected : Commit \cup {None}, baseline : Commit \cup {None},
           attempts : 0 .. RetryLimit, rule : Rule \cup {None}]

TypeOK ==
  /\ heads \in [Sessions \cup {Shared} -> Commit \cup {None}] /\ base \in Commit /\ known \in BOOLEAN
  /\ prs \subseteq [head : Sessions \cup {Shared}, by : Sessions \cup Others]
  /\ target \in Commit /\ staging \in Commit
  /\ canonical \in {"none", "open", "staged"}
  /\ rec \in [Sessions -> Record] /\ mem \in [Sessions -> Record]
  /\ pc \in [Sessions -> {"idle", "refresh", "merge", "promote", "base", "push", "fetch",
                          "replay", "revalidate", "repromote", "request", "finish"}]
  /\ lock \in Sessions \cup {None} /\ fetched \in Commit
  /\ rewritten \in BOOLEAN /\ crashes \in 0 .. MaxCrashes /\ faults \in 0 .. MaxFaults
  /\ validated \in SUBSET Commit

Clashing(a, b) == \E c \in a \ b, d \in b \ a : {c, d} \in Clash

Init ==
  /\ heads \in {[h \in Sessions \cup {Shared} |-> IF h = Shared THEN first ELSE None] : first \in {None, {}}}
  /\ base = {} /\ known = TRUE /\ prs = {} /\ target = {} /\ staging = {} /\ canonical = "none"
  /\ rec = [s \in Sessions |-> [status |-> "none", phase |-> "none", integrated |-> None,
              promoted |-> None, expected |-> None, baseline |-> None, attempts |-> 0, rule |-> None]]
  /\ mem = rec /\ pc = [s \in Sessions |-> "idle"] /\ lock = None /\ fetched = {}
  /\ rewritten = FALSE /\ crashes = 0 /\ faults = 0 /\ validated = {}

Save(s, r) == rec' = [rec EXCEPT ![s] = r] /\ mem' = [mem EXCEPT ![s] = r]
Keep(s, r) == mem' = [mem EXCEPT ![s] = r] /\ UNCHANGED rec
Go(s, step) == pc' = [pc EXCEPT ![s] = step] /\ UNCHANGED lock
Leave(s) == pc' = [pc EXCEPT ![s] = "idle"] /\ lock' = None
Fail(s) ==
  Save(s, [mem[s] EXCEPT !.status = IF @ = "pending" THEN @ ELSE "review"]) /\ Leave(s)
(* integrate does not mark what a direct integration has replayed: its       *)
(* session stays ready (handoff.ts:1068).                                    *)
FailReplayed(s) ==
  \/ Fail(s)
  \/ /\ mem[s].status = "ready" /\ mem[s].phase # "pull_request"
     /\ Save(s, mem[s]) /\ Leave(s)
Fault == faults < MaxFaults /\ faults' = faults + 1

(* withDelivery: the recorded rule, whatever the policy says by now.         *)
Mode(s) == rec[s].rule.promotion

(* begin fails on a policy it does not accept, before anything changes. The  *)
(* task and its ready commit are left out.                                   *)
Enroll(s) ==
  /\ pc[s] = "idle" /\ rec[s].status = "none"
  /\ \E p \in Files[s] : /\ Loads(p) /\ Accepted(p)
                         /\ Save(s, [rec[s] EXCEPT !.status = "ready", !.rule = Resolved(p)])
  /\ UNCHANGED <<remote, local, pc, lock, fetched, crashes, faults, validated>>

------------------------------------------------------------------------------
(* integrate: the remote target is fetched when the lock is taken            *)

Begin(s) ==
  /\ pc[s] = "idle" /\ lock = None /\ rec[s].status = "ready"
  /\ lock' = s /\ pc' = [pc EXCEPT ![s] = "refresh"] /\ Keep(s, rec[s])
  /\ UNCHANGED <<remote, local, fetched, crashes, faults, validated>>

(* captureTargetExpectation                                                  *)
Refresh(s) ==
  LET r == heads[Shared]
      based == [mem[s] EXCEPT !.expected = target]
  IN /\ pc[s] = "refresh"
     /\ IF Mode(s) # "shared-target" \/ r = None
        THEN UNCHANGED target /\ Save(s, based) /\ Go(s, "merge")
        ELSE IF r \subseteq target \/ target \subseteq r
        THEN /\ target' = IF r \subseteq target THEN target ELSE r
             /\ Save(s, [based EXCEPT !.expected = target', !.baseline = r, !.attempts = 0])
             /\ Go(s, "merge")
        ELSE UNCHANGED <<target, records>> /\ Leave(s)
     /\ UNCHANGED <<remote, staging, canonical, fetched, crashes, faults, validated>>

(* The session alone: merged, validated and committed on staging, in the     *)
(* integration worktree, or on a detached one where that holds a replay.     *)
Integrated(s) ==
  IF canonical = "none" THEN mem[s].expected \cup {s} ELSE staging \cup {s}
Integrate(s) ==
  /\ pc[s] = "merge"
  /\ canonical = "none" => staging \subseteq mem[s].expected
  /\ ~Clashing(Integrated(s) \ {s}, {s})
  /\ staging' = Integrated(s) /\ validated' = validated \cup {staging'}
  /\ Save(s, [mem[s] EXCEPT !.integrated = staging', !.phase = "promotion"])
  /\ Go(s, "promote")
  /\ UNCHANGED <<remote, target, canonical, fetched, crashes, faults>>

(* Staging is ahead: the session stays ready. It conflicts: Integration.     *)
IntegrateStops(s) ==
  /\ pc[s] = "merge"
  /\ \/ canonical = "none" /\ ~(staging \subseteq mem[s].expected) /\ UNCHANGED records /\ Leave(s)
     \/ Clashing(Integrated(s) \ {s}, {s}) /\ Fail(s)
  /\ UNCHANGED <<remote, local, fetched, crashes, faults, validated>>

Promotable(s) ==
  target = mem[s].integrated \/ (target = mem[s].expected /\ target \subseteq mem[s].integrated)

(* completePromotion, of the session or of its replay on the remote target;  *)
(* the commands after the integration are left to Integration.               *)
Promote(s) ==
  /\ pc[s] \in {"promote", "repromote"} /\ Promotable(s)
  /\ target' = mem[s].integrated
  /\ Save(s, [mem[s] EXCEPT !.promoted = mem[s].integrated,
                !.phase = IF pc[s] = "promote" THEN "pull_request" ELSE "post_integration"])
  /\ Go(s, IF pc[s] = "promote" THEN "base" ELSE "push")
  /\ UNCHANGED <<remote, staging, canonical, fetched, crashes, faults, validated>>

PromotionBlocked(s) ==
  /\ pc[s] \in {"promote", "repromote"} /\ ~Promotable(s)
  /\ Save(s, [mem[s] EXCEPT !.status = "pending", !.phase = "promotion"]) /\ Leave(s)
  /\ UNCHANGED <<remote, local, fetched, crashes, faults, validated>>

------------------------------------------------------------------------------
(* promoteByPullRequest                                                      *)

Head(s) == IF Mode(s) = "session-branch" THEN s ELSE Shared
HeadCommit(s) == IF Mode(s) = "session-branch" THEN {s} ELSE mem[s].promoted

(* Nothing is pushed under "none", or when the production branch has it all  *)
(* and merge-base can tell: its tip is read by ls-remote and never fetched.  *)
CheckBase(s) ==
  /\ pc[s] = "base"
  /\ Go(s, IF Mode(s) = "none" \/ (known /\ HeadCommit(s) \subseteq base)
           THEN "finish" ELSE "push")
  /\ UNCHANGED <<remote, local, records, fetched, crashes, faults, validated>>

AcceptsForced(h, commit) == TRUE
Accepts(h, commit) == heads[h] # None => heads[h] \subseteq commit

(* A push takes effect; it may be reported as failed all the same.           *)
Push(s) ==
  /\ pc[s] = "push" /\ Accepts(Head(s), HeadCommit(s))
  /\ heads' = [heads EXCEPT ![Head(s)] = HeadCommit(s)]
  /\ \/ Go(s, "request") /\ UNCHANGED <<records, faults>>
     \/ Fault /\ IF Mode(s) = "session-branch" THEN Fail(s) ELSE Go(s, "fetch") /\ UNCHANGED records
  /\ UNCHANGED <<base, known, prs, rewritten, local, fetched, crashes, validated>>

PushRejected(s) ==
  /\ pc[s] = "push" /\ ~Accepts(Head(s), HeadCommit(s))
  /\ IF Mode(s) = "session-branch" THEN Fail(s) ELSE Go(s, "fetch") /\ UNCHANGED records
  /\ UNCHANGED <<remote, local, fetched, crashes, faults, validated>>

(* What the fetched target says of a push that failed.                       *)
Baseline(s) == IF mem[s].baseline # None THEN mem[s].baseline ELSE mem[s].expected
Contains(s, r) == HeadCommit(s) \subseteq r
Moved(s, r) == ~Contains(s, r) /\ ~(r \subseteq HeadCommit(s)) /\ Baseline(s) \subseteq r

(* It holds more than the session's commit: nothing is left to push.         *)
FetchContained(s) ==
  LET r == heads[Shared] IN
  /\ pc[s] = "fetch" /\ r # None /\ mem[s].attempts < RetryLimit
  /\ Baseline(s) \subseteq r /\ Contains(s, r) /\ ~(r \subseteq HeadCommit(s))
  /\ Go(s, "request")
  /\ UNCHANGED <<remote, local, records, fetched, crashes, faults, validated>>

(* recoverMovedRemoteTarget: in the integration worktree, as staging is.     *)
Recoverable(s) == canonical = "none" /\ staging = mem[s].integrated
FetchMoved(s) ==
  LET r == heads[Shared] IN
  /\ pc[s] = "fetch" /\ r # None /\ mem[s].attempts < RetryLimit
  /\ Moved(s, r) /\ Recoverable(s)
  /\ fetched' = r
  /\ Save(s, [mem[s] EXCEPT !.baseline = Baseline(s), !.attempts = @ + 1,
                            !.phase = "remote_promotion"])
  /\ Go(s, "replay")
  /\ UNCHANGED <<remote, local, crashes, faults, validated>>

(* Too many attempts, a replaced history, a push that failed for no reason   *)
(* the remote shows, an integration worktree in another state.               *)
FetchStops(s) ==
  LET r == heads[Shared] IN
  /\ pc[s] = "fetch"
  /\ \/ r = None
     \/ mem[s].attempts >= RetryLimit
     \/ r # None /\ (~(Baseline(s) \subseteq r) \/ r \subseteq HeadCommit(s))
     \/ r # None /\ Moved(s, r) /\ ~Recoverable(s)
  /\ FailReplayed(s)
  /\ UNCHANGED <<remote, local, fetched, crashes, faults, validated>>

(* The fetched commit is merged into the validated integration.              *)
Replay(s) ==
  /\ pc[s] = "replay"
  /\ IF Clashing(staging, fetched)
     THEN canonical' = "open" /\ Fail(s)
     ELSE canonical' = "staged" /\ Go(s, "revalidate") /\ UNCHANGED records
  /\ UNCHANGED <<remote, target, staging, fetched, crashes, faults, validated>>

(* validateRemoteRecoveryAndContinue, up to the promotion of the replay.     *)
Revalidate(s) ==
  /\ pc[s] = "revalidate"
  /\ staging' = staging \cup fetched /\ validated' = validated \cup {staging'}
  /\ canonical' = "none"
  /\ Save(s, [mem[s] EXCEPT !.integrated = staging', !.expected = mem[s].promoted,
                            !.phase = "promotion"])
  /\ Go(s, "repromote")
  /\ UNCHANGED <<remote, target, fetched, crashes, faults>>

(* The open pull request of the branch is reused, or one is created, which   *)
(* GitHub does for a branch that has something to merge; on its own branch   *)
(* a session refuses somebody else's.                                        *)
Requests(s) == {p \in prs : p.head = Head(s)}
Mergeable(h) == heads[h] # None /\ ~(heads[h] \subseteq base)
Requestable(s) ==
  IF Requests(s) = {} THEN Mergeable(Head(s))
  ELSE Mode(s) = "session-branch" => \A p \in Requests(s) : p.by = s
Request(s) ==
  /\ pc[s] = "request" /\ Requestable(s)
  /\ prs' = IF Requests(s) = {} THEN prs \cup {[head |-> Head(s), by |-> s]} ELSE prs
  /\ Go(s, "finish")
  /\ UNCHANGED <<heads, base, known, rewritten, local, records, fetched, crashes, faults, validated>>

RequestRefused(s) ==
  /\ pc[s] = "request" /\ ~Requestable(s)
  /\ FailReplayed(s)
  /\ UNCHANGED <<remote, local, fetched, crashes, faults, validated>>

Finish(s) ==
  /\ pc[s] = "finish"
  /\ Save(s, [mem[s] EXCEPT !.status = "succeeded", !.phase = "none"]) /\ Leave(s)
  /\ UNCHANGED <<remote, local, fetched, crashes, faults, validated>>

(* Git, the network, GitHub or a validation fails.                           *)
StepFails(s) ==
  /\ pc[s] \in {"refresh", "base", "push", "fetch", "revalidate", "repromote", "request"}
  /\ Mode(s) # "none" /\ Fault
  /\ IF pc[s] = "refresh" THEN UNCHANGED records /\ Leave(s) ELSE FailReplayed(s)
  /\ UNCHANGED <<remote, local, fetched, crashes, validated>>

------------------------------------------------------------------------------
(* resume                                                                    *)

TargetMoved(s) ==
  /\ rec[s].phase = "promotion" /\ target # rec[s].integrated
  /\ target # rec[s].expected \/ ~(target \subseteq rec[s].integrated)

ResumablePromotion(s) == rec[s].phase = "promotion"
Resumable(s) == rec[s].phase \in {"promotion", "post_integration", "pull_request"}

(* From the phase the record names, in a worktree reconstructed on staging,  *)
(* which must have all the target has.                                       *)
Resume(s) ==
  /\ pc[s] = "idle" /\ lock = None /\ rec[s].status \in {"review", "pending"}
  /\ Resumable(s) /\ ~TargetMoved(s) /\ target \subseteq staging
  /\ lock' = s /\ pc' = [pc EXCEPT ![s] = IF rec[s].phase = "pull_request" THEN "base" ELSE "promote"]
  /\ Keep(s, rec[s])
  /\ UNCHANGED <<remote, local, fetched, crashes, faults, validated>>

(* reconcileLocalTarget (Integration has its steps): the target that moved   *)
(* is merged into the result and what staging added to it.                   *)
ResumeMovedTarget(s) ==
  LET merged == staging \cup rec[s].integrated \cup target IN
  /\ pc[s] = "idle" /\ lock = None /\ rec[s].status \in {"review", "pending"}
  /\ TargetMoved(s) /\ rec[s].integrated \subseteq staging /\ ~Clashing(staging, target)
  /\ staging' = merged /\ validated' = validated \cup {merged}
  /\ lock' = s /\ pc' = [pc EXCEPT ![s] = "promote"]
  /\ Save(s, [rec[s] EXCEPT !.integrated = merged, !.expected = target])
  /\ UNCHANGED <<remote, target, canonical, fetched, crashes, faults>>

(* resumeRemotePromotion wants the integration branch checked out in the     *)
(* worktree it is given, and gets the detached one: it always refuses, and   *)
(* nothing it leaves matters here.                                           *)

------------------------------------------------------------------------------
(* Everybody else                                                            *)

(* begin --sync-target, under the repository lock: by fast-forward only.     *)
SyncForward(r) == target \subseteq r
SyncTarget ==
  LET r == heads[Shared] IN
  /\ lock = None /\ r # None /\ r # target
  /\ r # None => SyncForward(r)
  /\ target' = r
  /\ UNCHANGED <<remote, staging, canonical, records, pc, lock, fetched, crashes, faults, validated>>

OthersPush(u) ==
  /\ heads[Shared] # None /\ u \notin heads[Shared] \cup target
  /\ heads' = [heads EXCEPT ![Shared] = @ \cup {u}]
  /\ UNCHANGED <<base, known, prs, rewritten, local, records, pc, lock, fetched, crashes, faults,
                 validated>>

OthersRewrite ==
  /\ Rewrites /\ ~rewritten /\ heads[Shared] \notin {None, base}
  /\ heads' = [heads EXCEPT ![Shared] = base] /\ rewritten' = TRUE
  /\ prs' = {p \in prs : p.head # Shared}
  /\ UNCHANGED <<base, known, local, records, pc, lock, fetched, crashes, faults, validated>>

(* GitHub makes a merge commit, which the clone does not have.               *)
OthersMerge(p) ==
  /\ p \in prs /\ Mergeable(p.head)
  /\ base' = base \cup heads[p.head] /\ known' = FALSE /\ prs' = prs \ {p}
  /\ UNCHANGED <<heads, rewritten, local, records, pc, lock, fetched, crashes, faults, validated>>

OthersRequest(u, s) ==
  /\ Mergeable(s) /\ (\A p \in prs : p.head # s) /\ Fault
  /\ prs' = prs \cup {[head |-> s, by |-> u]}
  /\ UNCHANGED <<heads, base, known, rewritten, local, records, pc, lock, fetched, crashes, validated>>

(* git fetch, which the tool never runs for the production branch.           *)
UserFetches ==
  /\ ~known /\ known' = TRUE
  /\ UNCHANGED <<heads, base, prs, rewritten, local, records, pc, lock, fetched, crashes, faults,
                 validated>>

LocalCommit(v) ==
  /\ v \notin target
  /\ target' = target \cup {v}
  /\ UNCHANGED <<remote, staging, canonical, records, pc, lock, fetched, crashes, faults, validated>>

Crash(s) ==
  /\ pc[s] # "idle" /\ crashes < MaxCrashes
  /\ crashes' = crashes + 1 /\ Leave(s) /\ Keep(s, rec[s])
  /\ UNCHANGED <<remote, local, fetched, faults, validated>>

Step(s) ==
  \/ Refresh(s) \/ Integrate(s) \/ IntegrateStops(s) \/ Promote(s) \/ PromotionBlocked(s)
  \/ CheckBase(s) \/ Push(s) \/ PushRejected(s) \/ FetchContained(s) \/ FetchMoved(s)
  \/ FetchStops(s) \/ Replay(s) \/ Revalidate(s) \/ Request(s) \/ RequestRefused(s)
  \/ Finish(s) \/ StepFails(s)
Starts(s) == Enroll(s) \/ Begin(s) \/ Resume(s) \/ ResumeMovedTarget(s)
Environment ==
  \/ SyncTarget \/ OthersRewrite \/ \E u \in Others : OthersPush(u)
  \/ \E p \in prs : OthersMerge(p) \/ \E u \in Others, s \in Sessions : OthersRequest(u, s)
  \/ UserFetches \/ \E v \in Locals : LocalCommit(v)
Next == Environment \/ \E s \in Sessions : Step(s) \/ Starts(s) \/ Crash(s)

(* A running command goes on; agents integrate and resume until it is done.  *)
Spec ==
  /\ Init /\ [][Next]_vars
  /\ \A s \in Sessions : WF_vars(Step(s)) /\ SF_vars(Starts(s))

------------------------------------------------------------------------------
(* Nothing is overwritten, and nothing unchecked is published: the local     *)
(* branches only grow, the tool's pushes only add to a branch of the remote, *)
(* and what they put on the shared target is a tree that was validated as it *)
(* is, after however many replays on a remote that keeps moving.             *)
Pushes == \E s \in Sessions : pc[s] = "push" /\ pc'[s] # "push"
OnlyForward ==
  [][/\ target \subseteq target' /\ staging \subseteq staging'
     /\ Pushes => /\ \A h \in DOMAIN heads : heads[h] # None => heads[h] \subseteq heads'[h]
                  /\ heads'[Shared] # heads[Shared] => heads'[Shared] \in validated]_vars

(* A session succeeds only with its change on its way, as its rule says: on  *)
(* the production branch, or on a branch with an open pull request (of its   *)
(* own, in the mode that promises one), and at least where the rule calls    *)
(* the delivery complete, or on the way there. Others may rewrite the shared *)
(* target meanwhile.                                                         *)
Published(h, s) == heads[h] # None /\ s \in heads[h]
OnItsWay(s) ==
  \/ s \in base
  \/ Mode(s) = "shared-target" /\ rewritten
  \/ /\ \E p \in prs : p.head = Head(s) /\ (Mode(s) = "session-branch" => p.by = s)
     /\ Published(Head(s), s)
Delivered(s) ==
  /\ s \in target
  /\ Mode(s) # "none" \/ rec[s].rule.completion = "production-merged" => OnItsWay(s)
  /\ rec[s].rule.completion = "target-pushed" => s \in base \/ rewritten \/ Published(Shared, s)
SucceededDelivered ==
  [][\A s \in Sessions :
       rec[s].status # "succeeded" /\ rec'[s].status = "succeeded" => Delivered(s) \/ Delivered(s)']_vars

(* Every session succeeds in the end, through failed steps, deaths and a     *)
(* remote that moves, or stands for good where the tool leaves it to people: *)
(* behind a staging that is ahead or a worktree that holds a replay; ready   *)
(* on a history that went elsewhere; in review with a conflict, an           *)
(* interrupted replay, as many attempts as are allowed, a target that        *)
(* staging lacks or a remote that moved after others had integrated on top   *)
(* of it, or with a pull request that was merged before the record was saved *)
(* and that nobody fetched: it pushes and asks for another, which GitHub     *)
(* refuses; on a remote whose history was replaced; or with a pull request   *)
(* of somebody else for its branch.                                          *)
LeftReady(s) ==
  /\ rec[s].status = "ready"
  /\ heads[Shared] # None /\ ~(target \subseteq heads[Shared]) /\ ~(heads[Shared] \subseteq target)
LeftInReview(s) ==
  /\ rec[s].status \in {"review", "pending"}
  /\ \/ rec[s].phase \in {"none", "remote_promotion"} \/ rec[s].attempts = RetryLimit
     \/ ~(target \subseteq staging) \/ Clashing(staging, target)
     \/ rec[s].phase = "pull_request" /\ HeadCommit(s) \subseteq base /\ ~known
     \/ heads[Shared] # None /\ staging # rec[s].integrated
        /\ ~(heads[Shared] \subseteq staging) /\ ~(rec[s].integrated \subseteq heads[Shared])
LeftToPeople(s) ==
  \/ LeftReady(s) \/ LeftInReview(s) \/ ~(staging \subseteq target) \/ canonical # "none" \/ rewritten
  \/ \E p \in prs : p.head = s /\ p.by # s
Delivers == \A s \in Sessions : <>[](rec[s].status = "succeeded" \/ LeftToPeople(s))
=============================================================================
