-------------------------- MODULE IntegrationProofs --------------------------
(* What holds of the branches, the records and the bundles for any number of *)
(* sessions and users, with commands that die anywhere and an operator who   *)
(* runs reconcile --apply in between: types, that only validated trees are   *)
(* put on the target, that no branch loses a commit and, if changes add      *)
(* files, none loses a change either. Without the deaths and the operator,   *)
(* also that staging is ahead only with a result to resume.                  *)
EXTENDS Integration, TLAPS

CanonicalTree == [there : BOOLEAN, of : Sessions \cup {None}, index : SUBSET Change,
                  merge : Merges, stray : BOOLEAN]
DetachedTree == [kind : {"none", "isolated", "recovery", "local"}, head : Commit,
                 index : SUBSET Change, merge : Merges, stray : BOOLEAN]

------------------------------------------------------------------------------
(* The inductive invariant. V is what validation has passed, t the target.   *)

(* The tool may put it on the target; or it did, or somebody did.            *)
Passed(c, V) == c \in Commit /\ c.tree \in V
Good(c, V, t) == c \in Commit /\ (c.tree \in V \/ Within(c, t))

ResultKept(l, V) ==
  l \in Recovery /\ l.result # None => l.result.tree \in V /\ Within(l.before, l.result)

(* What a record says of its result is true, whichever copy of it is read.   *)
Sound(r, V, t) ==
  /\ r.phase \in {"promotion", "post_integration"} => Passed(r.integrated, V)
  /\ r.phase = "pull_request" => Good(r.integrated, V, t)
  /\ r.status \in {"succeeded", "promotion_pending"} /\ r.integrated # None =>
       Good(r.integrated, V, t)

(* The recovery a record is in is the one its bundle describes.              *)
Described(r, m) == r.phase = "local_target" => r.local \in Recovery /\ r.local = m.local

(* A recovery that the bundle keeps started on a staging that is still there *)
(* and its worktree stands on it, even if no record mentions it any more:    *)
(* an interrupted save brings it back.                                       *)
Evidence(s) ==
  manifest[s].local \in Recovery =>
    /\ ~manifest[s].empty
    /\ ResultKept(manifest[s].local, validated)
    /\ Within(manifest[s].local.before, staging)
    /\ /\ manifest[s].local.result = None
       /\ detached[s].merge # "none" \/ manifest[s].local.resolved # None
       => Within(manifest[s].local.before, detached[s].head)
Bundle(s) ==
  /\ Evidence(s)
  /\ manifest[s].local \in Recovery => rec[s].status # "ready" /\ mem[s].status # "ready"

(* The worktree of a ready session stands where staging was, or further.     *)
Ahead(r, d) ==
  r.status = "ready" =>
  /\ r.where \in {"none", "canonical", "isolated"}
  /\ d.kind # "none" => r.where = "isolated" /\ Within(r.conflictHead, d.head)

(* What the result will be built on holds what staging must still be.        *)
Based(s) ==
  IF mem[s].phase = "local_target"
  THEN /\ mem[s].where = "local" /\ mem[s].local.result = None
       /\ Within(mem[s].local.before, detached[s].head)
  ELSE mem[s].where = "canonical" \/ Within(mem[s].conflictHead, detached[s].head)

AtPrepare(s) ==
  /\ mem[s].status = "ready" /\ mem[s].expected \in Commit
  /\ mem[s].where \in {"canonical", "isolated"}
AtMerge(s) ==
  mem[s].status = "ready" /\ mem[s].where \in {"canonical", "isolated"} /\ Based(s)
AtValidate(s) ==
  /\ Based(s) /\ mem[s].where # "none"
  /\ Worktree(mem[s], s).merge = "none" =>
       Worktree(mem[s], s).index = Head(mem[s], s).tree
AtStage(s) ==
  /\ Passed(mem[s].integrated, validated)
  /\ Within(IF mem[s].phase = "local_target" THEN mem[s].local.before ELSE mem[s].conflictHead,
            mem[s].integrated)
AtLocal(s) ==
  /\ mem[s].status # "ready" /\ rec[s].status # "ready"
  /\ mem[s].phase # "local_target" => mem[s].integrated \in Commit
AtReconcile(s) ==
  /\ AtLocal(s) /\ mem[s].phase = "local_target" /\ mem[s].where = "local"
  /\ staging \in {mem[s].local.before, mem[s].local.result}

(* What a command knows at each of its steps.                                *)
Running(s) ==
  /\ pc[s] = "prepare" => AtPrepare(s)
  /\ pc[s] \in {"merge", "nested"} => AtMerge(s)
  /\ pc[s] \in {"validate", "commit"} => AtValidate(s)
  /\ pc[s] = "commit" => Worktree(mem[s], s).index \in validated
  /\ pc[s] = "stage" => AtStage(s)
  /\ pc[s] \in {"staged", "promote", "promoted"} => Passed(mem[s].integrated, validated)
  /\ pc[s] = "post" => mem[s].phase = "post_integration"
  /\ pc[s] \in {"finish", "archived"} => mem[s].phase = "pull_request"
  /\ pc[s] = "reconstruct" =>
       mem[s].status # "ready" /\ rec[s].status # "ready" /\ mem[s].phase # "local_target"
  /\ pc[s] = "local" => AtLocal(s)
  /\ pc[s] = "reconcile" => AtReconcile(s)

Settled(s) == detached[s].merge = "none" => detached[s].index = detached[s].head.tree
Kept(s) ==
  /\ Sound(rec[s], validated, target) /\ Sound(mem[s], validated, target)
  /\ Described(rec[s], manifest[s]) /\ Described(mem[s], manifest[s])
  /\ Bundle(s)
  /\ Ahead(rec[s], detached[s]) /\ Ahead(mem[s], detached[s])
  /\ Settled(s)
Session(s) == Kept(s) /\ Running(s)

Audited ==
  /\ audit.step \in {"read", "promote", "save", "done"}
  /\ audit = [step |-> audit.step, target |-> audit.target, staging |-> audit.staging,
              copies |-> audit.copies]
  /\ audit.target \in Commit /\ audit.staging \in Commit
  /\ audit.step = "promote" =>
       Within(audit.target, audit.staging) /\ audit.staging.tree \in validated
  /\ DOMAIN audit.copies \subseteq Sessions
  /\ \A s \in DOMAIN audit.copies :
       /\ audit.copies[s] \in Record
       /\ audit.copies[s].status \in {"succeeded", "promotion_pending"}
       /\ audit.copies[s].integrated \in Commit /\ Sound(audit.copies[s], validated, target)

IInv == TypeOK /\ (\A s \in Sessions : Session(s)) /\ Audited

------------------------------------------------------------------------------
(* Steps of one session                                                      *)

Grows == /\ Within(target, target') /\ Within(staging, staging')
         /\ validated \subseteq validated'
Same(q) == /\ rec'[q] = rec[q] /\ mem'[q] = mem[q] /\ manifest'[q] = manifest[q]
           /\ detached'[q] = detached[q] /\ pc'[q] = pc[q]
Tested == target' = target \/ target'.tree \in validated

(* A command works for its session only; no other command runs.              *)
Step(s) ==
  /\ TypeOK' /\ Session(s)' /\ Grows /\ Tested /\ audit' = audit
  /\ \A q \in Sessions \ {s} : Same(q) /\ pc[q] = "idle"

(* The same without the lock: the branches and the canonical index stay.     *)
Beside(s) ==
  /\ TypeOK' /\ Session(s)' /\ branches' = branches /\ validated' = validated /\ audit' = audit
  /\ canonical'.index = canonical.index
  /\ canonical'.merge = "none" => canonical.merge = "none"
  /\ \A q \in Sessions \ {s} : Same(q)

LEMMA WithinTransitive ==
  ASSUME NEW a, NEW b, NEW c, Within(a, b), Within(b, c)
  PROVE Within(a, c)
BY DEF Within

LEMMA WithinReflexive == \A a : Within(a, a)
BY DEF Within

(* What a record says stays true while the branches and validation go on.    *)
LEMMA SoundGrows ==
  ASSUME NEW r, NEW V, NEW t, NEW W, NEW u,
         Sound(r, V, t), V \subseteq W, Within(t, u)
  PROVE Sound(r, W, u)
<1>1. ASSUME NEW c PROVE (Passed(c, V) => Passed(c, W)) /\ (Good(c, V, t) => Good(c, W, u))
  BY DEF Passed, Good, Within
<1> QED BY <1>1 DEF Sound

(* A session nobody works for is as sound as before.                         *)
LEMMA KeptHolds ==
  ASSUME NEW q \in Sessions, Kept(q), Grows, Same(q)
  PROVE Kept(q)'
<1>1. Sound(rec[q], validated', target') /\ Sound(mem[q], validated', target')
  BY SoundGrows DEF Kept, Grows
<1>2. Sound(rec[q], validated, target)' /\ Sound(mem[q], validated, target)'
  BY <1>1 DEF Same, Sound, Passed, Good, Within
<1>3. Bundle(q)'
  BY WithinTransitive DEF Kept, Bundle, Evidence, Same, Grows, ResultKept
<1> QED BY <1>2, <1>3 DEF Kept, Settled, Same, Described, Ahead

LEMMA IdleHolds ==
  ASSUME NEW q \in Sessions, Session(q), Grows, Same(q), pc[q] = "idle"
  PROVE Session(q)'
<1>1. Kept(q)' BY KeptHolds DEF Session
<1>2. Running(q)' BY DEF Running, Same
<1> QED BY <1>1, <1>2 DEF Session

LEMMA BesideHolds ==
  ASSUME NEW q \in Sessions, Session(q), Grows, Same(q), staging' = staging,
         canonical'.index = canonical.index,
         canonical'.merge = "none" => canonical.merge = "none"
  PROVE Session(q)'
<1>1. Kept(q)' BY KeptHolds DEF Session
<1>2. Based(q)' <=> Based(q) BY DEF Based, Same, Within
<1>3. /\ AtPrepare(q)' <=> AtPrepare(q)
      /\ AtMerge(q)' <=> AtMerge(q)
      /\ AtLocal(q)' <=> AtLocal(q)
      /\ AtReconcile(q)' <=> AtReconcile(q)
  BY <1>2 DEF AtPrepare, AtMerge, AtLocal, AtReconcile, Same, Ahead, Within
<1>4. AtValidate(q) => AtValidate(q)' BY <1>2 DEF AtValidate, Same, Worktree, Head
<1>5. AtStage(q) => AtStage(q)' BY DEF AtStage, Same, Passed, Within, Grows
<1>6. Worktree(mem[q], q).index \in validated => (Worktree(mem[q], q).index \in validated)'
  BY DEF Worktree, Same, Grows
<1>7. Running(q)' BY <1>3, <1>4, <1>5, <1>6 DEF Session, Running, Same, Passed, Grows
<1> QED BY <1>1, <1>7 DEF Session

LEMMA AuditHolds ==
  ASSUME Audited, Grows, audit' = audit
  PROVE Audited'
<1>1. ASSUME NEW s \in DOMAIN audit.copies
      PROVE Sound(audit.copies[s], validated', target')
  BY SoundGrows DEF Audited, Grows
<1>2. ASSUME NEW s \in DOMAIN audit.copies
      PROVE Sound(audit'.copies[s], validated', target')
  BY <1>1
<1> QED BY <1>2 DEF Audited, Grows, Sound, Passed, Good, Within

LEMMA StepKeeps ==
  ASSUME NEW s \in Sessions, IInv, Step(s)
  PROVE IInv'
<1>1. \A q \in Sessions : Session(q)' BY IdleHolds DEF Step, IInv
<1>2. Audited' BY AuditHolds DEF Step, IInv
<1> QED BY <1>1, <1>2 DEF IInv, Step

LEMMA BesideKeeps ==
  ASSUME NEW s \in Sessions, IInv, Beside(s)
  PROVE IInv'
<1>1. Grows BY WithinReflexive DEF Grows, Beside, branches
<1>2. \A q \in Sessions : Session(q)' BY <1>1, BesideHolds DEF Beside, IInv, branches
<1>3. Audited' BY <1>1, AuditHolds DEF Beside, IInv
<1> QED BY <1>2, <1>3 DEF IInv, Beside

------------------------------------------------------------------------------
(* Commits, records and how commands change them                             *)

LEMMA Commits ==
  /\ Start \in Commit
  /\ \A s \in Sessions : Source(s) \in Commit
BY DEF Start, Source, Commit, Node, Change

LEMMA NewCommits ==
  ASSUME NEW s \in Sessions, NEW a \in Commit, NEW b \in Commit, NEW tree \in SUBSET Change,
         made \in [Sessions -> 0 .. MaxCommits], made[s] < MaxCommits
  PROVE /\ NewCommit(s, a, b, tree) \in Commit
        /\ Within(a, NewCommit(s, a, b, tree)) /\ Within(b, NewCommit(s, a, b, tree))
        /\ NewCommit(s, a, b, tree).tree = tree
<1>1. made[s] + 1 \in 1 .. MaxCommits BY IntegrationAssumption
<1>2. <<s, made[s] + 1>> \in Node BY <1>1 DEF Node
<1>3. a.hist \subseteq Node /\ b.hist \subseteq Node BY DEF Commit
<1> QED BY <1>2, <1>3 DEF NewCommit, Commit, Within

LEMMA MadeGrows ==
  ASSUME NEW s \in Sessions, made \in [Sessions -> 0 .. MaxCommits], made[s] < MaxCommits
  PROVE [made EXCEPT ![s] = @ + 1] \in [Sessions -> 0 .. MaxCommits]
<1>1. made[s] + 1 \in 0 .. MaxCommits BY IntegrationAssumption
<1> QED BY <1>1

(* The parts of the type invariant that commands use together.               *)
Copies == rec \in [Sessions -> Record] /\ mem \in [Sessions -> Record]
          /\ behind \in [Sessions -> BOOLEAN]
Locked == /\ pc \in [Sessions -> Steps] /\ lock \in Sessions \cup {None}
          /\ \A s \in Sessions : pc[s] # "idle" <=> lock = s

LEMMA OnlyOne ==
  ASSUME Locked, NEW s \in Sessions, pc[s] # "idle" \/ lock = None
  PROVE \A q \in Sessions \ {s} : pc[q] = "idle"
BY IntegrationAssumption DEF Locked

Untouched(s) == \A q \in Sessions \ {s} : rec'[q] = rec[q] /\ mem'[q] = mem[q]

LEMMA Saves ==
  ASSUME NEW s \in Sessions, NEW r \in Record, Copies, Save(s, r)
  PROVE Copies' /\ rec'[s] = r /\ mem'[s] = r /\ Untouched(s)
BY DEF Copies, Save, Untouched

LEMMA Keeps ==
  ASSUME NEW s \in Sessions, NEW r \in Record, Copies, Keep(s, r)
  PROVE /\ rec' \in [Sessions -> Record] /\ mem' \in [Sessions -> Record]
        /\ rec'[s] = rec[s] /\ mem'[s] = r /\ Untouched(s)
BY DEF Copies, Keep, Untouched

LEMMA Goes ==
  ASSUME NEW s \in Sessions, NEW step \in Steps \ {"idle"}, Locked, pc[s] # "idle",
         Go(s, step), UNCHANGED lock
  PROVE Locked' /\ pc'[s] = step /\ \A q \in Sessions \ {s} : pc'[q] = pc[q] /\ pc[q] = "idle"
BY OnlyOne DEF Locked, Go

LEMMA Leaves ==
  ASSUME NEW s \in Sessions, Locked, pc[s] # "idle", Leave(s)
  PROVE Locked' /\ pc'[s] = "idle" /\ \A q \in Sessions \ {s} : pc'[q] = pc[q] /\ pc[q] = "idle"
<1>1. pc'[s] = "idle" /\ \A q \in Sessions \ {s} : pc'[q] = pc[q] /\ pc[q] = "idle"
  BY OnlyOne DEF Locked, Leave, Go
<1>2. pc' \in [Sessions -> Steps] BY DEF Locked, Leave, Go, Steps
<1> QED BY <1>1, <1>2, IntegrationAssumption DEF Locked, Leave

Failed(r) == [r EXCEPT !.status = IF @ = "promotion_pending" THEN @ ELSE "review"]

LEMMA FailedRecord ==
  ASSUME NEW r \in Record
  PROVE /\ Failed(r) \in Record
        /\ Failed(r).status \in {"review", "promotion_pending"}
        /\ Failed(r).status = "promotion_pending" => r.status = "promotion_pending"
        /\ Failed(r).phase = r.phase /\ Failed(r).integrated = r.integrated
        /\ Failed(r).local = r.local /\ Failed(r).where = r.where
        /\ Failed(r).expected = r.expected /\ Failed(r).conflictHead = r.conflictHead
        /\ Failed(r).awaiting = r.awaiting /\ Failed(r).failed = r.failed
BY DEF Failed, Record

LEMMA FailedSound ==
  ASSUME NEW r \in Record, NEW V, NEW t, Sound(r, V, t)
  PROVE Sound(Failed(r), V, t)
BY FailedRecord DEF Sound

LEMMA Fails ==
  ASSUME NEW s \in Sessions, NEW r \in Record, Copies, Locked, pc[s] # "idle", Fail(s, r)
  PROVE /\ Copies' /\ Locked' /\ pc'[s] = "idle"
        /\ rec'[s] = Failed(r) /\ mem'[s] = Failed(r)
        /\ \A q \in Sessions \ {s} : /\ rec'[q] = rec[q] /\ mem'[q] = mem[q]
                                     /\ pc'[q] = pc[q] /\ pc[q] = "idle"
<1>1. Save(s, Failed(r)) /\ Leave(s) BY DEF Fail, Failed
<1>2. Failed(r) \in Record BY FailedRecord
<1>3. Copies' /\ rec'[s] = Failed(r) /\ mem'[s] = Failed(r) /\ Untouched(s) BY <1>1, <1>2, Saves
<1>4. Locked' /\ pc'[s] = "idle" /\ \A q \in Sessions \ {s} : pc'[q] = pc[q] /\ pc[q] = "idle"
  BY <1>1, Leaves
<1> QED BY <1>3, <1>4 DEF Untouched

(* Worktrees                                                                 *)

LEMMA MergesInto ==
  ASSUME NEW head \in Commit, NEW other \in Commit
  PROVE /\ \A w \in CanonicalTree : MergeInto(w, head, other) \in CanonicalTree
        /\ \A w \in DetachedTree : /\ MergeInto(w, head, other) \in DetachedTree
                                   /\ MergeInto(w, head, other).head = w.head
                                   /\ MergeInto(w, head, other).kind = w.kind
        /\ \A w \in CanonicalTree \cup DetachedTree :
             /\ MergeInto(w, head, other).merge = "none" =>
                  MergeInto(w, head, other).index = head.tree
             /\ MergeInto(w, head, other).index \in SUBSET Change
<1>1. head.tree \in SUBSET Change /\ other.tree \in SUBSET Change BY DEF Commit
<1>2. (IF Within(other, head) THEN head.tree ELSE head.tree \cup other.tree) \in SUBSET Change
  BY <1>1
<1>3. (IF Within(other, head) THEN "none"
       ELSE IF Clashing(head, other) THEN "open" ELSE "staged") \in Merges
  BY DEF Merges
<1> QED BY <1>2, <1>3 DEF MergeInto, CanonicalTree, DetachedTree

LEMMA FreshTrees ==
  ASSUME NEW head \in Commit
  PROVE Fresh(head) \in DetachedTree /\ Fresh(head).head = head /\ Fresh(head).merge = "none"
        /\ Fresh(head).index = head.tree /\ Fresh(head).kind = "recovery"
BY DEF Fresh, DetachedTree, Commit, Merges

(* A session's worktree and the commit it stands on.                         *)
LEMMA Worktrees ==
  ASSUME TypeOK, NEW s \in Sessions, NEW r \in Record
  PROVE /\ Head(r, s) \in Commit
        /\ Worktree(r, s).index \in SUBSET Change /\ Worktree(r, s).merge \in Merges
        /\ Worktree(r, s) \in CanonicalTree \cup DetachedTree
        /\ r.where = "canonical" => Worktree(r, s) = canonical /\ Head(r, s) = staging
        /\ r.where \notin {"none", "canonical"} =>
             Worktree(r, s) = detached[s] /\ Head(r, s) = detached[s].head
BY DEF TypeOK, Head, Worktree, CanonicalTree, DetachedTree

LEMMA Snapshots ==
  ASSUME NEW m \in Manifest, NEW head \in Commit, NEW tree \in SUBSET Change
  PROVE /\ WithTree(m, head, tree) \in Manifest /\ WithTree(m, head, tree).local = m.local
        /\ ~WithTree(m, head, tree).empty
BY DEF Manifest, WithTree, Snapshot

LEMMA Recoveries ==
  ASSUME NEW m \in Manifest, NEW l \in Recovery
  PROVE WithLocal(m, l) \in Manifest /\ WithLocal(m, l).local = l /\ ~WithLocal(m, l).empty
BY DEF Manifest, WithLocal

(* The type invariant in the parts that actions change.                      *)
LEMMA Types ==
  TypeOK <=> /\ target \in Commit /\ staging \in Commit
             /\ canonical \in CanonicalTree /\ detached \in [Sessions -> DetachedTree]
             /\ Copies /\ Locked
             /\ advanced \in [Sessions -> BOOLEAN] /\ manifest \in [Sessions -> Manifest]
             /\ made \in [Sessions -> 0 .. MaxCommits] /\ crashes \in 0 .. MaxCrashes
             /\ validated \in SUBSET SUBSET Change
BY DEF TypeOK, CanonicalTree, DetachedTree, Copies, Locked

------------------------------------------------------------------------------
(* How the parts of a step make up the step                                  *)

Typed == /\ target \in Commit /\ staging \in Commit
         /\ canonical \in CanonicalTree /\ detached \in [Sessions -> DetachedTree]
         /\ advanced \in [Sessions -> BOOLEAN] /\ manifest \in [Sessions -> Manifest]
         /\ made \in [Sessions -> 0 .. MaxCommits] /\ crashes \in 0 .. MaxCrashes
         /\ validated \in SUBSET SUBSET Change

(* What the step does to branches, worktrees and bundles.                    *)
Frame(s) ==
  /\ Typed' /\ Grows /\ Tested /\ audit' = audit
  /\ \A q \in Sessions \ {s} : manifest'[q] = manifest[q] /\ detached'[q] = detached[q]
  /\ Evidence(s)' /\ Settled(s)'

LEMMA Composes ==
  ASSUME NEW s \in Sessions, IInv, Frame(s), Copies', Locked',
         \A q \in Sessions \ {s} : /\ rec'[q] = rec[q] /\ mem'[q] = mem[q]
                                   /\ pc'[q] = pc[q] /\ pc[q] = "idle",
         Sound(rec'[s], validated', target'), Sound(mem'[s], validated', target'),
         Described(rec'[s], manifest'[s]), Described(mem'[s], manifest'[s]),
         manifest'[s].local \in Recovery => rec'[s].status # "ready" /\ mem'[s].status # "ready",
         Ahead(rec'[s], detached'[s]), Ahead(mem'[s], detached'[s]),
         Running(s)'
  PROVE Step(s)
<1>1. TypeOK' BY Types DEF Frame, Typed, TypeOK, CanonicalTree, DetachedTree, Copies, Locked
<1>2. Sound(rec[s], validated, target)' /\ Sound(mem[s], validated, target)'
  BY DEF Sound, Passed, Good, Within
<1>3. Bundle(s)' BY DEF Bundle, Frame
<1>4. Kept(s)' BY <1>2, <1>3 DEF Kept, Frame, Described, Ahead, Within
<1> QED BY <1>1, <1>4 DEF Step, Session, Frame, Same

(* The command throws.                                                       *)
LEMMA Ends ==
  ASSUME NEW s \in Sessions, IInv, pc[s] # "idle", NEW r \in Record, Fail(s, r), Frame(s),
         Sound(r, validated', target'), Described(r, manifest'[s])
  PROVE Step(s)
<1>1. Copies /\ Locked BY Types DEF IInv
<1>2. /\ Copies' /\ Locked' /\ pc'[s] = "idle"
      /\ rec'[s] = Failed(r) /\ mem'[s] = Failed(r)
      /\ \A q \in Sessions \ {s} : /\ rec'[q] = rec[q] /\ mem'[q] = mem[q]
                                   /\ pc'[q] = pc[q] /\ pc[q] = "idle"
  BY <1>1, Fails
<1>3. Sound(Failed(r), validated', target') BY FailedSound
<1>4. /\ Described(Failed(r), manifest'[s]) /\ Failed(r).status # "ready"
      /\ Ahead(Failed(r), detached'[s])
  BY FailedRecord DEF Described, Ahead
<1>5. Running(s)' BY <1>2 DEF Running
<1> QED BY <1>2, <1>3, <1>4, <1>5, Composes

(* The command saves a record and goes on.                                   *)
LEMMA SavesAndGoes ==
  ASSUME NEW s \in Sessions, IInv, pc[s] # "idle", NEW r \in Record, Save(s, r),
         NEW step \in Steps \ {"idle"}, Go(s, step), UNCHANGED lock, Frame(s),
         Sound(r, validated', target'), Described(r, manifest'[s]),
         manifest'[s].local \in Recovery => r.status # "ready",
         Ahead(r, detached'[s]),
         Running(s)'
  PROVE Step(s)
<1>1. Copies /\ Locked BY Types DEF IInv
<1>2. Copies' /\ rec'[s] = r /\ mem'[s] = r /\ Untouched(s) BY <1>1, Saves
<1>3. Locked' /\ \A q \in Sessions \ {s} : pc'[q] = pc[q] /\ pc[q] = "idle" BY <1>1, Goes
<1> QED BY <1>2, <1>3, Composes DEF Untouched

(* The command saves a record and ends.                                      *)
LEMMA SavesAndLeaves ==
  ASSUME NEW s \in Sessions, IInv, pc[s] # "idle", NEW r \in Record, Save(s, r), Leave(s), Frame(s),
         Sound(r, validated', target'), Described(r, manifest'[s]),
         manifest'[s].local \in Recovery => r.status # "ready",
         Ahead(r, detached'[s])
  PROVE Step(s)
<1>1. Copies /\ Locked BY Types DEF IInv
<1>2. Copies' /\ rec'[s] = r /\ mem'[s] = r /\ Untouched(s) BY <1>1, Saves
<1>3. Locked' /\ pc'[s] = "idle" /\ \A q \in Sessions \ {s} : pc'[q] = pc[q] /\ pc[q] = "idle"
  BY <1>1, Leaves
<1>4. Running(s)' BY <1>3 DEF Running
<1> QED BY <1>2, <1>3, <1>4, Composes DEF Untouched

(* The command changes at most its copy, and goes on.                        *)
LEMMA KeepsAndGoes ==
  ASSUME NEW s \in Sessions, IInv, pc[s] # "idle", NEW r \in Record, rec' = rec,
         mem' = [mem EXCEPT ![s] = r], behind' \in [Sessions -> BOOLEAN],
         NEW step \in Steps \ {"idle"}, Go(s, step), UNCHANGED lock, Frame(s),
         Sound(r, validated', target'), Described(r, manifest'[s]),
         Described(rec[s], manifest'[s]),
         manifest'[s].local \in Recovery => r.status # "ready" /\ rec[s].status # "ready",
         Ahead(rec[s], detached'[s]), Ahead(r, detached'[s]),
         Running(s)'
  PROVE Step(s)
<1>1. Copies /\ Locked BY Types DEF IInv
<1>2. Copies' /\ rec'[s] = rec[s] /\ mem'[s] = r /\ Untouched(s)
  BY <1>1 DEF Copies, Untouched
<1>3. Locked' /\ \A q \in Sessions \ {s} : pc'[q] = pc[q] /\ pc[q] = "idle" BY <1>1, Goes
<1>4. Sound(rec[s], validated', target') BY SoundGrows DEF IInv, Session, Kept, Frame, Grows
<1> QED BY <1>2, <1>3, <1>4, Composes DEF Untouched

(* Branches, worktrees and bundles stay.                                     *)
LEMMA FrameStays ==
  ASSUME NEW s \in Sessions, IInv, UNCHANGED <<target, staging, canonical, detached, advanced,
         manifest, made, crashes, validated, audit>>
  PROVE Frame(s)
<1>1. Typed BY Types DEF IInv, Typed
<1>2. Typed' BY <1>1 DEF Typed
<1>3. Evidence(s)' /\ Settled(s)' BY DEF IInv, Session, Kept, Bundle, Evidence, Settled, ResultKept, Within
<1> QED BY <1>2, <1>3, WithinReflexive DEF Frame, Grows, Tested

(* What an action of a session starts from.                                  *)
LEMMA Known ==
  ASSUME IInv, NEW s \in Sessions
  PROVE /\ TypeOK /\ Typed /\ Copies /\ Locked
        /\ rec[s] \in Record /\ mem[s] \in Record /\ manifest[s] \in Manifest
        /\ detached[s] \in DetachedTree
        /\ Kept(s) /\ Running(s)
        /\ Sound(rec[s], validated, target) /\ Sound(mem[s], validated, target)
        /\ Described(rec[s], manifest[s]) /\ Described(mem[s], manifest[s])
        /\ Bundle(s) /\ Evidence(s) /\ Settled(s)
        /\ Ahead(rec[s], detached[s]) /\ Ahead(mem[s], detached[s])
BY Types DEF IInv, Session, Kept, Bundle, Typed, Copies

------------------------------------------------------------------------------
(* Commands that stop                                                        *)

LEMMA Stopping ==
  ASSUME NEW s \in Sessions, IInv, pc[s] # "idle", NEW r \in Record, Fail(s, r),
         UNCHANGED <<target, staging, canonical, detached, advanced, manifest,
                     made, crashes, validated, audit>>,
         Sound(r, validated, target), Described(r, manifest[s])
  PROVE Step(s)
<1>1. Frame(s) BY FrameStays
<1>2. Sound(r, validated', target') /\ Described(r, manifest'[s]) OBVIOUS
<1> QED BY <1>1, <1>2, Ends

LEMMA StopsAsItWas ==
  ASSUME NEW s \in Sessions, IInv, pc[s] # "idle", Fail(s, mem[s]),
         UNCHANGED <<branches, trees, advanced, manifest, rest>>
  PROVE Step(s)
BY Known, Stopping DEF branches, trees, rest

LEMMA StopSteps ==
  ASSUME NEW s \in Sessions, IInv,
         \/ NestedFails(s) \/ MergeBreaks(s) \/ CommitFails(s) \/ CheckFails(s)
         \/ ReconstructStops(s) \/ LocalRefuses(s)
  PROVE Step(s)
<1>1. pc[s] # "idle" /\ Fail(s, mem[s]) /\ UNCHANGED <<branches, trees, advanced, manifest, rest>>
  BY DEF NestedFails, MergeBreaks, CommitFails, CheckFails, ReconstructStops, LocalRefuses, Tests
<1> QED BY <1>1, StopsAsItWas

LEMMA ValidationFailsSteps ==
  ASSUME NEW s \in Sessions, IInv, ValidationFails(s)
  PROVE Step(s)
<1>1. /\ pc[s] # "idle" /\ UNCHANGED <<branches, trees, advanced, manifest, rest>>
      /\ \E f : Fail(s, [mem[s] EXCEPT !.failed = f]) /\ f \in BOOLEAN
  <2>1. mem[s].failed \in BOOLEAN BY Known DEF Record
  <2>2. ((NoUnstagedChanges(Worktree(mem[s], s)) /\ mem[s].phase = "local_target")
         \/ mem[s].failed) \in BOOLEAN
    BY <2>1
  <2> QED BY <2>1, <2>2 DEF ValidationFails
<1>2. PICK f : Fail(s, [mem[s] EXCEPT !.failed = f]) /\ f \in BOOLEAN BY <1>1
<1> DEFINE r == [mem[s] EXCEPT !.failed = f]
<1>3. /\ r \in Record /\ r.phase = mem[s].phase /\ r.status = mem[s].status
      /\ r.integrated = mem[s].integrated /\ r.local = mem[s].local
  BY <1>2, Known DEF Record
<1>4. Fail(s, r) BY <1>2
<1> HIDE DEF r
<1>5. Sound(r, validated, target) /\ Described(r, manifest[s])
  BY <1>3, Known DEF Sound, Described
<1> QED BY <1>1, <1>3, <1>4, <1>5, Stopping DEF branches, trees, rest

LEMMA PromotionBlockedSteps ==
  ASSUME NEW s \in Sessions, IInv, PromotionBlocked(s)
  PROVE Step(s)
<1> DEFINE r == [mem[s] EXCEPT !.status = "promotion_pending", !.phase = "promotion"]
<1>1. /\ r \in Record /\ r.phase = "promotion" /\ r.status = "promotion_pending"
      /\ r.integrated = mem[s].integrated /\ r.local = mem[s].local
  BY Known DEF Record
<1>2. Save(s, r) BY DEF PromotionBlocked
<1> HIDE DEF r
<1>3. pc[s] = "promote" /\ Leave(s) BY DEF PromotionBlocked
<1>4. Passed(mem[s].integrated, validated) BY <1>3, Known DEF Running
<1>5. Frame(s) BY FrameStays DEF PromotionBlocked, branches, trees, rest
<1>6. Sound(r, validated', target') /\ Described(r, manifest'[s])
  BY <1>1, <1>4, Known DEF Sound, Described, Passed, Good, PromotionBlocked, branches, rest
<1>7. Ahead(r, detached'[s]) BY <1>1 DEF Ahead
<1> QED BY <1>1, <1>2, <1>3, <1>5, <1>6, <1>7, SavesAndLeaves

LEMMA SucceedSteps ==
  ASSUME NEW s \in Sessions, IInv, Succeed(s)
  PROVE Step(s)
<1> DEFINE r == [mem[s] EXCEPT !.status = "succeeded", !.phase = "none"]
<1>1. /\ r \in Record /\ r.phase = "none" /\ r.status = "succeeded"
      /\ r.integrated = mem[s].integrated /\ r.local = mem[s].local
  BY Known DEF Record
<1>2. Save(s, r) BY DEF Succeed
<1> HIDE DEF r
<1>3. pc[s] = "archived" /\ Leave(s) BY DEF Succeed
<1>4. Good(mem[s].integrated, validated, target) BY <1>3, Known DEF Running, Sound
<1>5. Frame(s) BY FrameStays DEF Succeed, branches, trees, rest
<1>6. Sound(r, validated', target') /\ Described(r, manifest'[s])
  BY <1>1, <1>4, Known DEF Sound, Described, Succeed, branches, rest
<1>7. Ahead(r, detached'[s]) BY <1>1 DEF Ahead
<1> QED BY <1>1, <1>2, <1>3, <1>5, <1>6, <1>7, SavesAndLeaves

LEMMA PrepareRefusedSteps ==
  ASSUME NEW s \in Sessions, IInv, PrepareRefused(s)
  PROVE Step(s)
<1>1. /\ pc[s] = "prepare" /\ Save(s, mem[s]) /\ Leave(s)
      /\ UNCHANGED <<target, staging, detached, advanced, manifest, made, crashes, validated, audit>>
  BY DEF PrepareRefused, branches, rest
<1>2. canonical' \in CanonicalTree
  BY Known DEF PrepareRefused, Typed, CanonicalTree, Commit
<1>3. Typed' BY <1>1, <1>2, Known DEF Typed
<1>4. Evidence(s)' /\ Settled(s)'
  BY <1>1, Known DEF Evidence, Settled, ResultKept, Within
<1>5. Frame(s) BY <1>1, <1>3, <1>4, WithinReflexive DEF Frame, Grows, Tested
<1>6. manifest[s].local \in Recovery => mem[s].status # "ready" BY Known DEF Bundle
<1> QED BY <1>1, <1>5, <1>6, Known, SavesAndLeaves

------------------------------------------------------------------------------
(* Records that say where the promotion stands                               *)

(* A record with a new phase, saved by a command that goes on.               *)
LEMMA NewPhase ==
  ASSUME NEW s \in Sessions, IInv, pc[s] # "idle", NEW r \in Record, Save(s, r),
         NEW step \in Steps \ {"idle"}, Go(s, step), UNCHANGED lock,
         UNCHANGED <<branches, trees, advanced, manifest, rest>>,
         r.status = mem[s].status, r.where = mem[s].where, r.conflictHead = mem[s].conflictHead,
         r.integrated = mem[s].integrated, r.local = mem[s].local,
         \/ r.phase \in {"promotion", "post_integration", "pull_request"}
              /\ Passed(r.integrated, validated)
         \/ r.phase = "pull_request" /\ Good(r.integrated, validated, target),
         Running(s)'
  PROVE Step(s)
<1>1. Frame(s) BY FrameStays DEF branches, trees, rest
<1>2. Sound(r, validated', target') /\ Described(r, manifest'[s])
  BY Known DEF Sound, Described, Passed, Good, branches, rest
<1>3. Ahead(r, detached'[s]) BY Known DEF Ahead, trees
<1>4. manifest'[s].local \in Recovery => r.status # "ready" BY Known DEF Bundle
<1> QED BY <1>1, <1>2, <1>3, <1>4, SavesAndGoes

LEMMA RecordStagedSteps ==
  ASSUME NEW s \in Sessions, IInv, RecordStaged(s)
  PROVE Step(s)
<1> DEFINE r == [mem[s] EXCEPT !.awaiting = FALSE, !.phase = "promotion"]
<1>1. /\ r \in Record /\ r.phase = "promotion" /\ r.status = mem[s].status /\ r.where = mem[s].where
      /\ r.integrated = mem[s].integrated /\ r.local = mem[s].local
      /\ r.conflictHead = mem[s].conflictHead
  BY Known DEF Record
<1>2. Save(s, r) BY DEF RecordStaged
<1> HIDE DEF r
<1>3. /\ pc[s] = "staged" /\ Go(s, "promote")
      /\ UNCHANGED <<branches, trees, advanced, manifest, lock, rest>>
  BY DEF RecordStaged
<1>4. Passed(mem[s].integrated, validated) BY <1>3, Known DEF Running
<1>5. pc'[s] = "promote" /\ mem'[s] = r
  BY <1>1, <1>2, <1>3, Known, Saves, Goes DEF Steps
<1>6. Running(s)' BY <1>1, <1>3, <1>4, <1>5 DEF Running, Passed, rest
<1> QED BY <1>1, <1>2, <1>3, <1>4, <1>6, NewPhase DEF Steps

LEMMA RecordPromotedSteps ==
  ASSUME NEW s \in Sessions, IInv, RecordPromoted(s)
  PROVE Step(s)
<1> DEFINE phase == IF advanced[s] THEN "post_integration" ELSE "pull_request"
           step == IF advanced[s] THEN "post" ELSE "finish"
           r == [mem[s] EXCEPT !.phase = phase]
<1>1. /\ r \in Record /\ r.phase = phase /\ r.status = mem[s].status /\ r.where = mem[s].where
      /\ r.integrated = mem[s].integrated /\ r.local = mem[s].local
      /\ r.conflictHead = mem[s].conflictHead
  BY Known DEF Record
<1>2. Save(s, r) BY DEF RecordPromoted
<1> HIDE DEF r
<1>3. /\ pc[s] = "promoted" /\ Go(s, step)
      /\ UNCHANGED <<branches, trees, advanced, manifest, lock, rest>>
  BY DEF RecordPromoted
<1>4. Passed(mem[s].integrated, validated) BY <1>3, Known DEF Running
<1>5. pc'[s] = step /\ mem'[s] = r
  BY <1>1, <1>2, <1>3, Known, Saves, Goes DEF Steps
<1>6. Running(s)' BY <1>1, <1>5 DEF Running
<1> QED BY <1>1, <1>2, <1>3, <1>4, <1>6, NewPhase DEF Steps

LEMMA PostIntegrationSteps ==
  ASSUME NEW s \in Sessions, IInv, PostIntegrationPasses(s)
  PROVE Step(s)
<1> DEFINE r == [mem[s] EXCEPT !.phase = "pull_request"]
<1>1. /\ r \in Record /\ r.phase = "pull_request" /\ r.status = mem[s].status
      /\ r.where = mem[s].where /\ r.integrated = mem[s].integrated /\ r.local = mem[s].local
      /\ r.conflictHead = mem[s].conflictHead
  BY Known DEF Record
<1>2. Save(s, r) BY DEF PostIntegrationPasses
<1> HIDE DEF r
<1>3. /\ pc[s] = "post" /\ Go(s, "finish")
      /\ UNCHANGED <<branches, trees, advanced, manifest, lock, rest>>
  BY DEF PostIntegrationPasses
<1>4. Passed(mem[s].integrated, validated) BY <1>3, Known DEF Running, Sound
<1>5. pc'[s] = "finish" /\ mem'[s] = r
  BY <1>1, <1>2, <1>3, Known, Saves, Goes DEF Steps
<1>6. Running(s)' BY <1>1, <1>5 DEF Running
<1> QED BY <1>1, <1>2, <1>3, <1>4, <1>6, NewPhase DEF Steps

LEMMA ArchiveSteps ==
  ASSUME NEW s \in Sessions, IInv, Archive(s)
  PROVE Step(s)
<1>1. /\ pc[s] = "finish" /\ Go(s, "archived") /\ Append(s, manifest[s])
      /\ UNCHANGED <<branches, trees, rec, mem, advanced, lock, rest>>
  BY DEF Archive
<1>2. manifest' = manifest BY <1>1, Known DEF Append, Typed
<1>3. Frame(s) BY <1>1, <1>2, FrameStays DEF branches, trees, rest
<1>4. mem' = [mem EXCEPT ![s] = mem[s]] /\ behind' \in [Sessions -> BOOLEAN]
  BY <1>1, Known DEF Append, Copies
<1>5. pc'[s] = "archived" BY <1>1, Known, Goes DEF Steps
<1>6. Running(s)' BY <1>1, <1>5, Known DEF Running
<1>7. Sound(mem[s], validated', target') BY <1>1, Known DEF branches, rest
<1>8. Bundle(s) /\ Described(mem[s], manifest'[s]) /\ Described(rec[s], manifest'[s])
      /\ Ahead(rec[s], detached'[s]) /\ Ahead(mem[s], detached'[s])
  BY <1>1, <1>2, Known DEF trees
<1> QED BY <1>1, <1>2, <1>3, <1>4, <1>6, <1>7, <1>8, Known, KeepsAndGoes DEF Bundle, Steps

(* The target becomes the validated result, which has what it had.           *)
LEMMA PromoteSteps ==
  ASSUME NEW s \in Sessions, IInv, Promote(s)
  PROVE Step(s)
<1>1. /\ pc[s] = "promote" /\ Go(s, "promoted") /\ target' = mem[s].integrated
      /\ Promotable(mem[s].integrated, mem[s].expected)
      /\ UNCHANGED <<staging, trees, rec, mem, advanced, evidence, lock, rest>>
  BY DEF Promote
<1>2. Passed(mem[s].integrated, validated) BY <1>1, Known DEF Running
<1>3. Within(target, target') /\ Tested
  BY <1>1, <1>2, WithinReflexive DEF Promotable, Tested, Passed
<1>4. Typed' BY <1>1, <1>2, Known DEF Typed, Passed, trees, evidence, rest
<1>5. Evidence(s)' /\ Settled(s)'
  BY <1>1, Known DEF Evidence, Settled, ResultKept, Within, trees, evidence, rest
<1>6. Frame(s) BY <1>1, <1>3, <1>4, <1>5, WithinReflexive DEF Frame, Grows, trees, evidence, rest
<1>7. mem' = [mem EXCEPT ![s] = mem[s]] /\ behind' \in [Sessions -> BOOLEAN] /\ rec' = rec
  BY <1>1, Known DEF evidence, Copies
<1>8. pc'[s] = "promoted" /\ mem'[s] = mem[s] BY <1>1, Known, Goes DEF Steps
<1>9. Running(s)' BY <1>1, <1>2, <1>8 DEF Running, Passed, rest
<1>10. Sound(mem[s], validated', target') BY <1>3, <1>1, Known, SoundGrows DEF rest
<1>11. /\ Bundle(s) /\ Described(mem[s], manifest'[s]) /\ Described(rec[s], manifest'[s])
       /\ Ahead(rec[s], detached'[s]) /\ Ahead(mem[s], detached'[s]) /\ manifest' = manifest
  BY <1>1, Known DEF trees, evidence
<1> QED BY <1>1, <1>6, <1>7, <1>9, <1>10, <1>11, Known, KeepsAndGoes DEF Bundle, Steps

------------------------------------------------------------------------------
(* Commands that start and die                                               *)

LEMMA Enters ==
  ASSUME NEW s \in Sessions, NEW step \in Steps \ {"idle"}, Locked, lock = None,
         Go(s, step), lock' = s
  PROVE Locked' /\ pc'[s] = step /\ \A q \in Sessions \ {s} : pc'[q] = pc[q] /\ pc[q] = "idle"
<1>1. \A q \in Sessions : pc[q] = "idle" BY IntegrationAssumption DEF Locked
<1>2. pc' \in [Sessions -> Steps] /\ pc'[s] = step /\ \A q \in Sessions \ {s} : pc'[q] = pc[q]
  BY DEF Locked, Go
<1> QED BY <1>1, <1>2 DEF Locked

LEMMA BeginSteps ==
  ASSUME NEW s \in Sessions, IInv, Begin(s)
  PROVE Step(s)
<1> DEFINE place == IF rec[s].where # "none" THEN rec[s].where
                    ELSE IF canonical.there /\ ~Clean(canonical, staging)
                         THEN "isolated" ELSE "canonical"
           r == [rec[s] EXCEPT !.expected = target, !.where = place]
<1>1. /\ pc[s] = "idle" /\ lock = None /\ rec[s].status = "ready" /\ lock' = s /\ Go(s, "prepare")
      /\ UNCHANGED <<branches, trees, advanced, rest>>
      /\ manifest' = IF manifest[s].base = None
                     THEN [manifest EXCEPT ![s].base = staging] ELSE manifest
  BY DEF Begin
<1>2. target \in Commit /\ staging \in Commit BY Known DEF Typed
<1>3. /\ r \in Record /\ r.expected = target /\ r.where = place /\ r.status = "ready"
      /\ r.phase = rec[s].phase /\ r.integrated = rec[s].integrated /\ r.local = rec[s].local
      /\ r.conflictHead = rec[s].conflictHead
  BY <1>1, <1>2, Known DEF Record
<1>4. Save(s, r) BY DEF Begin
<1> HIDE DEF r
<1>5. place \in {"canonical", "isolated"} /\ Ahead(r, detached[s])
  BY <1>1, <1>3, Known DEF Ahead
<1> HIDE DEF place
<1>6. /\ manifest' \in [Sessions -> Manifest] /\ manifest'[s].local = manifest[s].local
      /\ manifest'[s].empty = manifest[s].empty
      /\ \A q \in Sessions \ {s} : manifest'[q] = manifest[q]
  BY <1>1, <1>2, Known DEF Manifest, Typed
<1>7. Typed' BY <1>1, <1>6, Known DEF Typed, branches, trees, rest
<1>8. Evidence(s)' /\ Settled(s)'
  BY <1>1, <1>6, Known DEF Evidence, Settled, ResultKept, Within, branches, trees, rest
<1>9. Frame(s)
  BY <1>1, <1>6, <1>7, <1>8, WithinReflexive DEF Frame, Grows, Tested, branches, trees, rest
<1>10. Copies' /\ rec'[s] = r /\ mem'[s] = r /\ Untouched(s) BY <1>3, <1>4, Known, Saves
<1>11. /\ Locked' /\ pc'[s] = "prepare"
       /\ \A q \in Sessions \ {s} : pc'[q] = pc[q] /\ pc[q] = "idle"
  BY <1>1, Known, Enters DEF Steps
<1>12. Sound(r, validated', target')
  BY <1>1, <1>3, Known DEF Sound, branches, rest
<1>13. Described(r, manifest'[s]) BY <1>3, <1>6, Known DEF Described
<1>14. manifest'[s].local \notin Recovery BY <1>1, <1>6, Known DEF Bundle
<1>15. Running(s)' BY <1>2, <1>3, <1>5, <1>10, <1>11 DEF Running, AtPrepare
<1>16. Ahead(r, detached'[s]) BY <1>1, <1>5 DEF trees
<1> QED BY <1>9, <1>10, <1>11, <1>12, <1>13, <1>14, <1>15, <1>16, Composes DEF Untouched

LEMMA ResumeSteps ==
  ASSUME NEW s \in Sessions, IInv, Resume(s)
  PROVE Step(s)
<1> DEFINE r == Verified(s)
           step == IF TargetMoved(r) THEN "local" ELSE "reconstruct"
<1>1. /\ pc[s] = "idle" /\ lock = None /\ lock' = s /\ Go(s, step) /\ Keep(s, r)
      /\ rec[s].status \in {"review", "promotion_pending"} /\ Verifiable(s)
      /\ UNCHANGED <<branches, trees, advanced, evidence, rest>>
  BY DEF Resume
<1>2. behind[s] => manifest[s].local \in Recovery
  BY <1>1, Known DEF Verifiable, Manifest
<1>3. /\ r \in Record /\ r.status = rec[s].status /\ r.integrated = rec[s].integrated
      /\ ~behind[s] => r = rec[s]
      /\ behind[s] => r.local = manifest[s].local /\ r.phase = "local_target"
  BY <1>2, Known DEF Verified, Record
<1> HIDE DEF r
<1>4. Sound(r, validated, target) /\ Described(r, manifest[s])
  BY <1>2, <1>3, Known DEF Sound, Described
<1>5. Ahead(r, detached[s]) BY <1>1, <1>3 DEF Ahead
<1>6. Frame(s) BY <1>1, FrameStays DEF branches, trees, evidence, rest
<1>7. Copies' /\ rec'[s] = rec[s] /\ mem'[s] = r /\ Untouched(s)
  BY <1>1, <1>3, Known, Keeps DEF Copies, evidence
<1>8. /\ Locked' /\ pc'[s] = step /\ \A q \in Sessions \ {s} : pc'[q] = pc[q] /\ pc[q] = "idle"
  BY <1>1, Known, Enters DEF Steps
<1>9. TargetMoved(r) => AtLocal(s)'
  BY <1>1, <1>3, <1>7 DEF TargetMoved, AtLocal, Record
<1>10. ~TargetMoved(r) => r.phase # "local_target" BY DEF TargetMoved
<1>11. Running(s)' BY <1>1, <1>3, <1>7, <1>8, <1>9, <1>10 DEF Running
<1>12. UNCHANGED <<manifest, detached, target, validated>>
  BY <1>1 DEF branches, trees, evidence, rest
<1>13. rec[s].status # "ready" /\ r.status # "ready" BY <1>1, <1>3
<1> HIDE DEF step
<1> QED BY <1>4, <1>5, <1>6, <1>7, <1>8, <1>11, <1>12, <1>13, Known, Composes DEF Untouched

LEMMA CrashSteps ==
  ASSUME NEW s \in Sessions, IInv, Crash(s)
  PROVE Step(s)
<1>1. /\ pc[s] # "idle" /\ crashes < MaxCrashes /\ crashes' = crashes + 1
      /\ Leave(s) /\ mem' = [mem EXCEPT ![s] = rec[s]]
      /\ UNCHANGED <<branches, trees, rec, advanced, evidence, made, audit, validated>>
  BY DEF Crash
<1>2. crashes' \in 0 .. MaxCrashes BY <1>1, Known, IntegrationAssumption DEF Typed
<1>3. Typed' BY <1>1, <1>2, Known DEF Typed, branches, trees, evidence
<1>4. Evidence(s)' /\ Settled(s)'
  BY <1>1, Known DEF Evidence, Settled, ResultKept, Within, branches, trees, evidence
<1>5. Frame(s)
  BY <1>1, <1>3, <1>4, WithinReflexive DEF Frame, Grows, Tested, branches, trees, evidence
<1>6. Copies' /\ rec'[s] = rec[s] /\ mem'[s] = rec[s] /\ Untouched(s)
  BY <1>1, Known DEF Copies, Untouched, evidence
<1>7. /\ Locked' /\ pc'[s] = "idle"
      /\ \A q \in Sessions \ {s} : pc'[q] = pc[q] /\ pc[q] = "idle"
  BY <1>1, Known, Leaves
<1>8. Running(s)' BY <1>7 DEF Running
<1>9. UNCHANGED <<manifest, detached, target, validated>>
  BY <1>1 DEF branches, trees, evidence
<1> QED BY <1>5, <1>6, <1>7, <1>8, <1>9, Known, Composes DEF Untouched, Bundle

------------------------------------------------------------------------------
(* integrate: worktrees, merge, validation, commit                           *)

(* A session that is ready is not in the recovery of a local target.         *)
LEMMA ReadyIsFresh ==
  ASSUME IInv, NEW s \in Sessions, mem[s].status = "ready"
  PROVE manifest[s].local \notin Recovery /\ mem[s].phase # "local_target"
BY Known DEF Bundle, Described

LEMMA PrepareCanonicalSteps ==
  ASSUME NEW s \in Sessions, IInv, PrepareCanonical(s)
  PROVE Step(s)
<1>1. /\ pc[s] = "prepare" /\ mem[s].where = "canonical" /\ Within(staging, mem[s].expected)
      /\ staging' = mem[s].expected /\ Go(s, "merge")
      /\ UNCHANGED <<target, detached, rec, mem, advanced, evidence, lock, rest>>
  BY DEF PrepareCanonical
<1>2. mem[s].status = "ready" /\ mem[s].expected \in Commit BY <1>1, Known DEF Running, AtPrepare
<1>3. mem[s].expected.tree \in SUBSET Change BY <1>2 DEF Commit
<1>4. canonical' \in CanonicalTree
  BY <1>3, Known DEF PrepareCanonical, Typed, CanonicalTree
<1>5. Typed' BY <1>1, <1>2, <1>4, Known DEF Typed, evidence, rest
<1>6. Evidence(s)' /\ Settled(s)'
  BY <1>1, <1>2, Known DEF Evidence, Settled, ResultKept, Within, evidence, rest
<1>7. Frame(s) BY <1>1, <1>5, <1>6, WithinReflexive DEF Frame, Grows, Tested, evidence, rest
<1>8. /\ mem' = [mem EXCEPT ![s] = mem[s]] /\ behind' \in [Sessions -> BOOLEAN] /\ rec' = rec
      /\ UNCHANGED <<manifest, detached, target, validated>>
  BY <1>1, Known DEF evidence, rest, Copies
<1>9. pc'[s] = "merge" BY <1>1, Known, Goes DEF Steps
<1>10. Running(s)' BY <1>1, <1>2, <1>8, <1>9, ReadyIsFresh DEF Running, AtMerge, Based
<1> QED BY <1>1, <1>7, <1>8, <1>10, Known, KeepsAndGoes DEF Bundle, Steps

LEMMA PrepareIsolatedSteps ==
  ASSUME NEW s \in Sessions, IInv, PrepareIsolated(s)
  PROVE Step(s)
<1>1. /\ pc[s] = "prepare" /\ mem[s].where = "isolated" /\ Go(s, "merge")
      /\ UNCHANGED <<branches, canonical, advanced, manifest, lock, rest>>
  BY DEF PrepareIsolated
<1>2. mem[s].status = "ready" /\ mem[s].expected \in Commit BY <1>1, Known DEF Running, AtPrepare
<1>3. manifest[s].local \notin Recovery /\ mem[s].phase # "local_target" BY <1>2, ReadyIsFresh
<1>4. pc'[s] = "merge" BY <1>1, Known, Goes DEF Steps
<1>5. staging \in Commit /\ staging.tree \in SUBSET Change /\ mem[s].expected.tree \in SUBSET Change
  BY <1>2, Known DEF Typed, Commit
<1>6. ASSUME NEW d \in DetachedTree, detached' = [detached EXCEPT ![s] = d],
             d.merge = "none", d.index = d.head.tree
      PROVE Frame(s)
  <2>1. Typed' BY <1>1, <1>6, Known DEF Typed, branches, rest
  <2>2. detached'[s] = d BY <1>6, Known DEF Typed
  <2>3. Evidence(s)' /\ Settled(s)' BY <1>1, <1>3, <1>6, <2>2 DEF Evidence, Settled
  <2> QED BY <1>1, <1>6, <2>1, <2>3, WithinReflexive, Known
          DEF Frame, Grows, Tested, branches, rest, Typed
<1>7. CASE detached[s].kind = "none"
  <2> DEFINE d == [kind |-> "isolated", head |-> staging, index |-> staging.tree,
                   merge |-> "none", stray |-> FALSE]
             r == [mem[s] EXCEPT !.conflictHead = staging]
  <2>1. /\ d \in DetachedTree /\ d.merge = "none" /\ d.index = d.head.tree /\ d.head = staging
    BY <1>5 DEF DetachedTree, Merges
  <2>2. detached' = [detached EXCEPT ![s] = d] /\ Save(s, r) BY <1>7 DEF PrepareIsolated
  <2>3. /\ r \in Record /\ r.phase = mem[s].phase /\ r.status = mem[s].status
        /\ r.integrated = mem[s].integrated /\ r.local = mem[s].local
        /\ r.where = "isolated" /\ r.conflictHead = staging
    BY <1>1, <1>5, Known DEF Record
  <2> HIDE DEF d, r
  <2>4. detached'[s] = d /\ mem'[s] = r BY <2>2, <2>3, Known, Saves DEF Typed
  <2>5. Sound(r, validated', target') /\ Described(r, manifest'[s])
    BY <1>1, <2>3, Known DEF Sound, Described, branches, rest
  <2>6. Ahead(r, detached'[s]) BY <2>1, <2>3, <2>4, WithinReflexive DEF Ahead
  <2>7. Running(s)'
    BY <1>2, <1>3, <1>4, <2>1, <2>3, <2>4, WithinReflexive DEF Running, AtMerge, Based, Within
  <2>8. Frame(s) BY <1>6, <2>1, <2>2
  <2> QED BY <1>1, <1>3, <2>2, <2>3, <2>5, <2>6, <2>7, <2>8, SavesAndGoes DEF Steps
<1>8. CASE detached[s].kind # "none"
  <2> DEFINE d == [detached[s] EXCEPT !.head = mem[s].expected, !.index = mem[s].expected.tree]
  <2>1. /\ Aligned(detached[s], detached[s].head, mem[s]) /\ UNCHANGED <<rec, mem, behind>>
        /\ detached' = [detached EXCEPT ![s] = d]
    BY <1>8, Known DEF PrepareIsolated, DetachedTree
  <2>2. /\ d \in DetachedTree /\ d.merge = "none" /\ d.index = d.head.tree
        /\ d.head = mem[s].expected /\ d.kind = detached[s].kind
        /\ Within(detached[s].head, d.head)
    BY <1>2, <1>5, <2>1, Known DEF DetachedTree, Aligned
  <2> HIDE DEF d
  <2>3. detached'[s] = d BY <2>1, Known DEF Typed
  <2>4. Ahead(mem[s], detached'[s]) /\ Ahead(rec[s], detached'[s])
    BY <1>8, <2>2, <2>3, Known, WithinTransitive DEF Ahead
  <2>5. /\ mem' = [mem EXCEPT ![s] = mem[s]] /\ behind' \in [Sessions -> BOOLEAN] /\ rec' = rec
        /\ mem' = mem /\ UNCHANGED <<manifest, target, validated>>
    BY <1>1, <2>1, Known DEF branches, rest, Copies
  <2>6. Within(mem[s].conflictHead, d.head) BY <1>2, <1>8, <2>2, <2>3, <2>4 DEF Ahead
  <2>7. Running(s)'
    BY <1>1, <1>2, <1>3, <1>4, <2>3, <2>5, <2>6 DEF Running, AtMerge, Based, Within
  <2>8. Frame(s) BY <1>6, <2>1, <2>2
  <2> QED BY <1>1, <2>4, <2>5, <2>7, <2>8, Known, KeepsAndGoes DEF Bundle, Steps
<1> QED BY <1>7, <1>8

(* Staging is the new commit, which nothing selected has to validate.        *)
LEMMA BypassSteps ==
  ASSUME NEW s \in Sessions, IInv, BypassWorktree(s)
  PROVE Step(s)
<1> DEFINE from == mem[s].expected
           new == NewCommit(s, from, Source(s), from.tree \cup {s})
           commit == IF Within(from, Source(s)) THEN Source(s) ELSE new
           r == [mem[s] EXCEPT !.integrated = commit, !.awaiting = FALSE]
           m == [manifest[s] EXCEPT !.empty = FALSE]
<1>1. /\ pc[s] = "prepare" /\ Within(staging, from)
      /\ Within(from, Source(s)) \/ made[s] < MaxCommits
      /\ canonical' = [canonical EXCEPT !.there = FALSE] /\ staging' = commit
      /\ made' = IF commit = Source(s) THEN made ELSE [made EXCEPT ![s] = @ + 1]
      /\ validated' = validated \cup {commit.tree} /\ Keep(s, r) /\ Append(s, m)
      /\ advanced' = [advanced EXCEPT ![s] = TRUE] /\ Go(s, "staged")
      /\ UNCHANGED <<target, detached, lock, audit, crashes>>
  BY DEF BypassWorktree
<1>2. mem[s].status = "ready" /\ from \in Commit BY <1>1, Known DEF Running, AtPrepare
<1>3. manifest[s].local \notin Recovery /\ mem[s].phase # "local_target" BY <1>2, ReadyIsFresh
<1>4. from.tree \cup {s} \in SUBSET Change BY <1>2 DEF Commit, Change
<1>5. made[s] < MaxCommits => new \in Commit /\ Within(from, new)
  BY <1>2, <1>4, Commits, NewCommits, Known DEF Typed
<1>6. commit \in Commit /\ Within(from, commit) BY <1>1, <1>5, Commits
<1>7. made' \in [Sessions -> 0 .. MaxCommits] BY <1>1, MadeGrows, Known DEF Typed
<1> HIDE DEF commit, new
<1>8. Passed(commit, validated') /\ validated \subseteq validated'
      /\ validated' \in SUBSET SUBSET Change
  BY <1>1, <1>6, Known DEF Passed, Commit, Typed
<1>9. /\ r \in Record /\ r.phase = mem[s].phase /\ r.status = "ready" /\ r.integrated = commit
      /\ r.local = mem[s].local /\ r.where = mem[s].where /\ r.conflictHead = mem[s].conflictHead
  BY <1>2, <1>6, Known DEF Record
<1>10. m \in Manifest /\ m.local = manifest[s].local BY Known DEF Manifest
<1> HIDE DEF r, m
<1>11. Within(staging, staging') BY <1>1, <1>6, WithinTransitive
<1>12. Typed' BY <1>1, <1>6, <1>7, <1>8, <1>10, Known DEF Typed, Append, CanonicalTree
<1>13. manifest'[s] = m /\ \A q \in Sessions \ {s} : manifest'[q] = manifest[q]
  BY <1>1, Known DEF Append, Typed
<1>14. Evidence(s)' /\ Settled(s)'
  BY <1>1, <1>3, <1>10, <1>13, Known DEF Evidence, Settled
<1>15. Frame(s)
  BY <1>1, <1>8, <1>11, <1>12, <1>13, <1>14, WithinReflexive DEF Frame, Grows, Tested
<1>16. Sound(mem[s], validated', target') BY <1>1, <1>8, Known, SoundGrows, WithinReflexive
<1>17. Sound(r, validated', target') BY <1>8, <1>9, <1>16 DEF Sound, Good, Passed
<1>18. /\ mem' = [mem EXCEPT ![s] = r] /\ rec' = rec /\ behind' \in [Sessions -> BOOLEAN]
  BY <1>1, Known DEF Keep, Append, Copies
<1>19. pc'[s] = "staged" /\ mem'[s] = r BY <1>1, <1>18, Known, Goes DEF Steps, Copies
<1>20. Running(s)' BY <1>8, <1>9, <1>19 DEF Running, Passed
<1>21. Described(r, manifest'[s]) /\ Described(rec[s], manifest'[s])
  BY <1>3, <1>9, <1>10, <1>13, Known DEF Described
<1>22. Ahead(mem[s], detached[s]) /\ Ahead(rec[s], detached[s]) /\ detached' = detached
  BY <1>1, Known
<1>23. Ahead(r, detached'[s]) /\ Ahead(rec[s], detached'[s])
  BY <1>2, <1>9, <1>22 DEF Ahead
<1> QED BY <1>1, <1>3, <1>9, <1>10, <1>13, <1>15, <1>17, <1>18, <1>20, <1>21, <1>23,
       KeepsAndGoes DEF Steps

(* A ready session's worktree after a merge in it.                           *)
LEMMA SetsWorktree ==
  ASSUME NEW s \in Sessions, IInv, mem[s].status = "ready",
         mem[s].where \in {"canonical", "isolated"}, NEW w, SetWorktree(s, w),
         mem[s].where = "canonical" => w \in CanonicalTree,
         mem[s].where = "isolated" =>
           w \in DetachedTree /\ w.head = detached[s].head /\ w.kind = detached[s].kind,
         w.merge = "none" => w.index = Head(mem[s], s).tree, staging' = staging
  PROVE /\ canonical' \in CanonicalTree /\ detached' \in [Sessions -> DetachedTree]
        /\ \A q \in Sessions \ {s} : detached'[q] = detached[q]
        /\ detached'[s].head = detached[s].head /\ detached'[s].kind = detached[s].kind
        /\ Settled(s)'
        /\ \A r \in Record : r.where = mem[s].where =>
             Worktree(r, s)' = w /\ Head(r, s)' = Head(mem[s], s)
<1>1. CASE mem[s].where = "canonical"
  <2>1. canonical' = w /\ detached' = detached BY <1>1 DEF SetWorktree
  <2> QED BY <1>1, <2>1, Known DEF Typed, Settled, Worktree, Head
<1>2. CASE mem[s].where = "isolated"
  <2>1. detached' = [detached EXCEPT ![s] = w] /\ canonical' = canonical
    BY <1>2 DEF SetWorktree
  <2>2. detached'[s] = w /\ \A q \in Sessions \ {s} : detached'[q] = detached[q]
    BY <2>1, Known DEF Typed
  <2>3. detached' \in [Sessions -> DetachedTree] BY <1>2, <2>1, Known DEF Typed
  <2>4. Head(mem[s], s) = detached[s].head BY <1>2 DEF Head
  <2>5. Settled(s)' BY <1>2, <2>2, <2>4 DEF Settled
  <2>6. ASSUME NEW r \in Record, r.where = mem[s].where
        PROVE Worktree(r, s)' = w /\ Head(r, s)' = Head(mem[s], s)
    BY <1>2, <2>2, <2>4, <2>6 DEF Worktree, Head
  <2> QED BY <1>2, <2>1, <2>2, <2>3, <2>5, <2>6, Known DEF Typed
<1> QED BY <1>1, <1>2

(* The bundle of a ready session with another snapshot.                      *)
LEMMA ReadyFrame ==
  ASSUME NEW s \in Sessions, IInv, mem[s].status = "ready",
         NEW m \in Manifest, m.local = manifest[s].local, manifest' = [manifest EXCEPT ![s] = m],
         canonical' \in CanonicalTree, detached' \in [Sessions -> DetachedTree],
         \A q \in Sessions \ {s} : detached'[q] = detached[q], Settled(s)',
         UNCHANGED <<branches, advanced, rest>>
  PROVE Frame(s) /\ manifest'[s] = m /\ m.local \notin Recovery
<1>1. manifest'[s] = m /\ \A q \in Sessions \ {s} : manifest'[q] = manifest[q]
  BY Known DEF Typed
<1>2. m.local \notin Recovery BY ReadyIsFresh
<1>3. Evidence(s)' BY <1>1, <1>2 DEF Evidence
<1>4. Typed' BY Known DEF Typed, branches, rest
<1> QED BY <1>1, <1>2, <1>3, <1>4, WithinReflexive DEF Frame, Grows, Tested, branches, rest

LEMMA MergeTree ==
  ASSUME IInv, NEW s \in Sessions, AtMerge(s)
  PROVE LET w == MergeInto(Worktree(mem[s], s), Head(mem[s], s), Source(s))
        IN /\ mem[s].where = "canonical" => w \in CanonicalTree
           /\ mem[s].where = "isolated" =>
                w \in DetachedTree /\ w.head = detached[s].head /\ w.kind = detached[s].kind
           /\ w.merge = "none" => w.index = Head(mem[s], s).tree
           /\ w.index \in SUBSET Change /\ Head(mem[s], s) \in Commit
<1>1. Head(mem[s], s) \in Commit /\ Worktree(mem[s], s) \in CanonicalTree \cup DetachedTree
  BY Known, Worktrees
<1>2. /\ mem[s].where = "canonical" => Worktree(mem[s], s) \in CanonicalTree
      /\ mem[s].where = "isolated" => /\ Worktree(mem[s], s) \in DetachedTree
                                      /\ Worktree(mem[s], s) = detached[s]
  BY Known, Worktrees DEF Typed
<1> QED BY <1>1, <1>2, Commits, MergesInto

LEMMA MergeSteps ==
  ASSUME NEW s \in Sessions, IInv, Merge(s)
  PROVE Step(s)
<1> DEFINE head == Head(mem[s], s)
           w == MergeInto(Worktree(mem[s], s), head, Source(s))
           m == WithTree(manifest[s], head, w.index)
<1>1. /\ pc[s] = "merge" /\ SetWorktree(s, w) /\ Append(s, m) /\ Go(s, "validate")
      /\ UNCHANGED <<branches, rec, mem, advanced, lock, rest>>
  BY DEF Merge
<1>2. AtMerge(s) BY <1>1, Known DEF Running
<1>3. /\ mem[s].where = "canonical" => w \in CanonicalTree
      /\ mem[s].where = "isolated" =>
           w \in DetachedTree /\ w.head = detached[s].head /\ w.kind = detached[s].kind
      /\ w.merge = "none" => w.index = head.tree
      /\ w.index \in SUBSET Change /\ head \in Commit
  BY <1>2, MergeTree
<1>4. m \in Manifest /\ m.local = manifest[s].local BY <1>3, Known, Snapshots
<1> HIDE DEF w, m
<1>5. /\ mem[s].status = "ready" /\ mem[s].where \in {"canonical", "isolated"}
      /\ mem[s].phase # "local_target" /\ Based(s)
  BY <1>2, ReadyIsFresh DEF AtMerge
<1>6. /\ canonical' \in CanonicalTree /\ detached' \in [Sessions -> DetachedTree]
      /\ \A q \in Sessions \ {s} : detached'[q] = detached[q]
      /\ detached'[s].head = detached[s].head /\ detached'[s].kind = detached[s].kind
      /\ Settled(s)' /\ Worktree(mem[s], s)' = w /\ Head(mem[s], s)' = head
  <2>1. mem' = mem /\ staging' = staging BY <1>1 DEF branches
  <2>2. \A r \in Record : r.where = mem[s].where =>
          Worktree(r, s)' = w /\ Head(r, s)' = Head(mem[s], s)
    BY <1>1, <1>3, <1>5, <2>1, SetsWorktree
  <2>3. Worktree(mem[s], s)' = w /\ Head(mem[s], s)' = head
    BY <2>1, <2>2, Known DEF Worktree, Head
  <2> QED BY <1>1, <1>3, <1>5, <2>1, <2>3, SetsWorktree
<1>7. Frame(s) /\ manifest'[s] = m /\ m.local \notin Recovery
  BY <1>1, <1>4, <1>5, <1>6, ReadyFrame DEF Append
<1>8. /\ mem' = [mem EXCEPT ![s] = mem[s]] /\ rec' = rec /\ behind' \in [Sessions -> BOOLEAN]
      /\ mem' = mem
  BY <1>1, Known DEF Append, Copies
<1>9. pc'[s] = "validate" BY <1>1, Known, Goes DEF Steps
<1>10. Based(s)' BY <1>5, <1>6, <1>8 DEF Based, Within
<1>11. Running(s)' BY <1>3, <1>5, <1>6, <1>8, <1>9, <1>10 DEF Running, AtValidate
<1>12. /\ Sound(mem[s], validated', target')
       /\ Described(mem[s], manifest'[s]) /\ Described(rec[s], manifest'[s])
  BY <1>1, <1>4, <1>7, Known DEF Described, branches, rest
<1>13. Ahead(mem[s], detached'[s]) /\ Ahead(rec[s], detached'[s])
  BY <1>6, Known DEF Ahead
<1> QED BY <1>1, <1>7, <1>8, <1>11, <1>12, <1>13, Known, KeepsAndGoes DEF Steps

LEMMA MergeConflictsSteps ==
  ASSUME NEW s \in Sessions, IInv, MergeConflicts(s)
  PROVE Step(s)
<1> DEFINE head == Head(mem[s], s)
           w == MergeInto(Worktree(mem[s], s), head, Source(s))
           r == [mem[s] EXCEPT !.awaiting = TRUE, !.conflictHead = head]
           m == [manifest[s] EXCEPT !.empty = FALSE]
<1>1. /\ pc[s] = "merge" /\ SetWorktree(s, w)
      /\ manifest' = [manifest EXCEPT ![s].empty = FALSE]
      /\ \/ Save(s, r) /\ Go(s, "nested") /\ UNCHANGED lock
         \/ Fail(s, r)
      /\ UNCHANGED <<branches, advanced, rest>>
  BY DEF MergeConflicts
<1>2. AtMerge(s) BY <1>1, Known DEF Running
<1>3. /\ mem[s].where = "canonical" => w \in CanonicalTree
      /\ mem[s].where = "isolated" =>
           w \in DetachedTree /\ w.head = detached[s].head /\ w.kind = detached[s].kind
      /\ w.merge = "none" => w.index = head.tree
      /\ head \in Commit
  BY <1>2, MergeTree
<1> HIDE DEF w
<1>4. /\ mem[s].status = "ready" /\ mem[s].where \in {"canonical", "isolated"}
      /\ mem[s].phase # "local_target"
  BY <1>2, ReadyIsFresh DEF AtMerge
<1>5. m \in Manifest /\ m.local = manifest[s].local /\ manifest' = [manifest EXCEPT ![s] = m]
  BY <1>1, Known DEF Manifest
<1>6. /\ r \in Record /\ r.phase = mem[s].phase /\ r.status = "ready"
      /\ r.integrated = mem[s].integrated /\ r.local = mem[s].local
      /\ r.where = mem[s].where /\ r.conflictHead = head
  BY <1>3, <1>4, Known DEF Record
<1> HIDE DEF m, r
<1>7. staging' = staging BY <1>1 DEF branches
<1>8. /\ canonical' \in CanonicalTree /\ detached' \in [Sessions -> DetachedTree]
      /\ \A q \in Sessions \ {s} : detached'[q] = detached[q]
      /\ detached'[s].head = detached[s].head /\ detached'[s].kind = detached[s].kind
      /\ Settled(s)'
  BY <1>1, <1>3, <1>4, <1>7, SetsWorktree
<1>9. Frame(s) /\ manifest'[s] = m /\ m.local \notin Recovery
  BY <1>1, <1>4, <1>5, <1>8, ReadyFrame
<1>10. Sound(r, validated', target') /\ Described(r, manifest'[s])
  BY <1>1, <1>4, <1>5, <1>6, <1>9, Known DEF Sound, Described, branches, rest
<1>11. mem[s].where = "isolated" => head = detached'[s].head
  BY <1>8 DEF Head
<1>12. Ahead(r, detached'[s])
  BY <1>4, <1>6, <1>8, <1>11, Known, WithinReflexive DEF Ahead
<1>13. CASE Fail(s, r) BY <1>1, <1>6, <1>9, <1>10, <1>13, Ends
<1>14. CASE Save(s, r) /\ Go(s, "nested") /\ UNCHANGED lock
  <2>1. pc'[s] = "nested" /\ mem'[s] = r BY <1>1, <1>6, <1>14, Known, Goes, Saves DEF Steps
  <2>2. Running(s)'
    BY <1>4, <1>6, <1>11, <2>1, WithinReflexive DEF Running, AtMerge, Based, Within
  <2> QED BY <1>1, <1>6, <1>9, <1>10, <1>12, <1>14, <2>2, SavesAndGoes DEF Steps
<1> QED BY <1>1, <1>13, <1>14

LEMMA StagedTrees ==
  /\ \A x \in CanonicalTree : LET w == [x EXCEPT !.merge = "staged"] IN
       w \in CanonicalTree /\ w.merge = "staged" /\ w.index \in SUBSET Change
  /\ \A x \in DetachedTree : LET w == [x EXCEPT !.merge = "staged"] IN
       /\ w \in DetachedTree /\ w.merge = "staged" /\ w.index \in SUBSET Change
       /\ w.head = x.head /\ w.kind = x.kind
BY DEF CanonicalTree, DetachedTree, Merges

LEMMA NestedResolvesSteps ==
  ASSUME NEW s \in Sessions, IInv, NestedResolves(s)
  PROVE Step(s)
<1> DEFINE head == Head(mem[s], s)
           w == [Worktree(mem[s], s) EXCEPT !.merge = "staged"]
           m == WithTree(manifest[s], head, w.index)
<1>1. /\ pc[s] = "nested" /\ SetWorktree(s, w) /\ Append(s, m) /\ Go(s, "validate")
      /\ UNCHANGED <<branches, rec, mem, advanced, lock, rest>>
  BY DEF NestedResolves
<1>2. AtMerge(s) BY <1>1, Known DEF Running
<1>3. mem[s].where = "canonical" =>
        w \in CanonicalTree /\ w.merge = "staged" /\ w.index \in SUBSET Change
  BY Known, Worktrees, StagedTrees DEF Typed
<1>4. mem[s].where = "isolated" =>
        /\ w \in DetachedTree /\ w.head = detached[s].head /\ w.kind = detached[s].kind
        /\ w.merge = "staged" /\ w.index \in SUBSET Change
  BY Known, Worktrees, StagedTrees
<1>5. /\ mem[s].status = "ready" /\ mem[s].where \in {"canonical", "isolated"}
      /\ mem[s].phase # "local_target" /\ Based(s)
  BY <1>2, ReadyIsFresh DEF AtMerge
<1>6. w.merge # "none" /\ w.index \in SUBSET Change /\ head \in Commit
  BY <1>3, <1>4, <1>5, Known, Worktrees
<1>7. m \in Manifest /\ m.local = manifest[s].local BY <1>6, Known, Snapshots
<1> HIDE DEF w, m
<1>8. /\ canonical' \in CanonicalTree /\ detached' \in [Sessions -> DetachedTree]
      /\ \A q \in Sessions \ {s} : detached'[q] = detached[q]
      /\ detached'[s].head = detached[s].head /\ detached'[s].kind = detached[s].kind
      /\ Settled(s)' /\ Worktree(mem[s], s)' = w /\ Head(mem[s], s)' = head
  <2>1. mem' = mem /\ staging' = staging BY <1>1 DEF branches
  <2>2. \A r \in Record : r.where = mem[s].where =>
          Worktree(r, s)' = w /\ Head(r, s)' = Head(mem[s], s)
    BY <1>1, <1>3, <1>4, <1>5, <1>6, <2>1, SetsWorktree
  <2>3. Worktree(mem[s], s)' = w /\ Head(mem[s], s)' = head
    BY <2>1, <2>2, Known DEF Worktree, Head
  <2> QED BY <1>1, <1>3, <1>4, <1>5, <1>6, <2>1, <2>3, SetsWorktree
<1>9. Frame(s) /\ manifest'[s] = m /\ m.local \notin Recovery
  BY <1>1, <1>5, <1>7, <1>8, ReadyFrame DEF Append
<1>10. /\ mem' = [mem EXCEPT ![s] = mem[s]] /\ rec' = rec /\ behind' \in [Sessions -> BOOLEAN]
       /\ mem' = mem
  BY <1>1, Known DEF Append, Copies
<1>11. pc'[s] = "validate" BY <1>1, Known, Goes DEF Steps
<1>12. Based(s)' BY <1>5, <1>8, <1>10 DEF Based, Within
<1>13. Running(s)' BY <1>5, <1>6, <1>8, <1>10, <1>11, <1>12 DEF Running, AtValidate
<1>14. /\ Sound(mem[s], validated', target')
       /\ Described(mem[s], manifest'[s]) /\ Described(rec[s], manifest'[s])
  BY <1>1, <1>7, <1>9, Known DEF Described, branches, rest
<1>15. Ahead(mem[s], detached'[s]) /\ Ahead(rec[s], detached'[s])
  BY <1>8, Known DEF Ahead
<1> QED BY <1>1, <1>9, <1>10, <1>13, <1>14, <1>15, Known, KeepsAndGoes DEF Steps

(* The tree in the index is written down as validated.                       *)
LEMMA ValidationPassesSteps ==
  ASSUME NEW s \in Sessions, IInv, ValidationPasses(s)
  PROVE Step(s)
<1> DEFINE w == Worktree(mem[s], s)
           m == WithTree(manifest[s], Head(mem[s], s), w.index)
           r == [mem[s] EXCEPT !.failed = FALSE]
<1>1. /\ pc[s] = "validate" /\ validated' = validated \cup {w.index} /\ Append(s, m)
      /\ Keep(s, r) /\ Go(s, "commit")
      /\ UNCHANGED <<branches, trees, advanced, lock, made, audit, crashes>>
  BY DEF ValidationPasses
<1>2. AtValidate(s) BY <1>1, Known DEF Running
<1>3. w.index \in SUBSET Change /\ Head(mem[s], s) \in Commit BY Known, Worktrees
<1>4. /\ m \in Manifest /\ m.local = manifest[s].local /\ ~m.empty
  BY <1>3, Known, Snapshots
<1>5. /\ r \in Record /\ r.phase = mem[s].phase /\ r.status = mem[s].status
      /\ r.integrated = mem[s].integrated /\ r.local = mem[s].local /\ r.where = mem[s].where
      /\ r.conflictHead = mem[s].conflictHead
  BY Known DEF Record
<1>6. Worktree(r, s) = w /\ Head(r, s) = Head(mem[s], s) BY <1>5 DEF Worktree, Head
<1> HIDE DEF m, r
<1>7. /\ mem' = [mem EXCEPT ![s] = r] /\ rec' = rec /\ behind' \in [Sessions -> BOOLEAN]
  BY <1>1, Known DEF Keep, Append, Copies
<1>8. mem'[s] = r /\ pc'[s] = "commit" BY <1>1, <1>7, Known, Goes DEF Steps, Copies
<1>9. manifest'[s] = m /\ \A q \in Sessions \ {s} : manifest'[q] = manifest[q]
  BY <1>1, Known DEF Append, Typed
<1>10. validated' \in SUBSET SUBSET Change /\ validated \subseteq validated'
  BY <1>1, <1>3, Known DEF Typed
<1>11. Typed' BY <1>1, <1>4, <1>10, Known DEF Typed, Append, branches, trees
<1>12. Evidence(s)' /\ Settled(s)'
  BY <1>1, <1>4, <1>9, <1>10, Known DEF Evidence, Settled, ResultKept, Within, branches, trees
<1>13. Frame(s)
  BY <1>1, <1>9, <1>10, <1>11, <1>12, WithinReflexive DEF Frame, Grows, Tested, branches, trees
<1>14. Sound(r, validated', target')
  <2>1. Sound(mem[s], validated', target')
    BY <1>1, <1>10, Known, SoundGrows, WithinReflexive DEF branches
  <2> QED BY <1>5, <2>1 DEF Sound
<1>15. /\ Described(r, manifest'[s]) /\ Described(rec[s], manifest'[s])
       /\ Ahead(r, detached'[s]) /\ Ahead(rec[s], detached'[s])
  BY <1>1, <1>4, <1>5, <1>9, Known DEF Described, Ahead, trees
<1>16. UNCHANGED <<canonical, detached, staging>> BY <1>1 DEF trees, branches
<1>17. Worktree(mem[s], s)' = w /\ Head(mem[s], s)' = Head(mem[s], s)
  BY <1>6, <1>8, <1>16 DEF Worktree, Head
<1>18. Based(s)' BY <1>2, <1>5, <1>8, <1>16 DEF AtValidate, Based, Within
<1>19. AtValidate(s)' BY <1>2, <1>5, <1>8, <1>17, <1>18 DEF AtValidate
<1>20. Running(s)' BY <1>1, <1>8, <1>17, <1>19 DEF Running
<1>21. manifest'[s].local \in Recovery => r.status # "ready" /\ rec[s].status # "ready"
  BY <1>4, <1>5, <1>9, Known DEF Bundle
<1> QED BY <1>1, <1>5, <1>7, <1>13, <1>14, <1>15, <1>20, <1>21, KeepsAndGoes DEF Steps

(* What is committed: the validated tree, on top of the worktree's commit.   *)
CommitParts(s, result) ==
  /\ result \in Commit /\ Passed(result, validated) /\ Within(Head(mem[s], s), result)
  /\ Worktree(mem[s], s).merge # "none" => result.tree = Worktree(mem[s], s).index
  /\ Worktree(mem[s], s).merge = "none" => result = Head(mem[s], s)

LEMMA Committing ==
  ASSUME IInv, NEW s \in Sessions, pc[s] = "commit",
         Worktree(mem[s], s).merge # "none" => made[s] < MaxCommits
  PROVE LET other == IF mem[s].phase = "local_target" THEN mem[s].local.target ELSE Source(s)
            result == IF Worktree(mem[s], s).merge # "none"
                      THEN NewCommit(s, Head(mem[s], s), other, Worktree(mem[s], s).index)
                      ELSE Head(mem[s], s)
        IN CommitParts(s, result)
<1> DEFINE other == IF mem[s].phase = "local_target" THEN mem[s].local.target ELSE Source(s)
           w == Worktree(mem[s], s)
           head == Head(mem[s], s)
<1>1. AtValidate(s) /\ w.index \in validated BY Known DEF Running
<1>2. head \in Commit /\ w.index \in SUBSET Change BY Known, Worktrees
<1>3. other \in Commit
  <2>1. mem[s].phase = "local_target" => mem[s].local \in Recovery BY Known DEF Described
  <2> QED BY <2>1, Commits DEF Recovery
<1>4. CASE w.merge # "none"
  <2> DEFINE new == NewCommit(s, head, other, w.index)
  <2>1. new \in Commit /\ Within(head, new) /\ new.tree = w.index
    BY <1>2, <1>3, <1>4, Known, NewCommits DEF Typed
  <2> HIDE DEF new
  <2>2. CommitParts(s, new) BY <1>1, <1>4, <2>1 DEF CommitParts, Passed
  <2> QED BY <1>4, <2>2 DEF new
<1>5. CASE w.merge = "none"
  <2>1. CommitParts(s, head)
    BY <1>1, <1>2, <1>5, WithinReflexive DEF CommitParts, Passed, AtValidate
  <2> QED BY <1>5, <2>1
<1> QED BY <1>4, <1>5

LEMMA CommitMade ==
  ASSUME NEW s \in Sessions, IInv, CommitMerge(s)
  PROVE made' \in [Sessions -> 0 .. MaxCommits]
<1>1. /\ Worktree(mem[s], s).merge # "none" => made[s] < MaxCommits
      /\ made' = IF Worktree(mem[s], s).merge # "none" THEN [made EXCEPT ![s] = @ + 1] ELSE made
  BY DEF CommitMerge
<1> QED BY <1>1, MadeGrows, Known DEF Typed

(* On the staging branch itself.                                             *)
LEMMA CommitCanonicalSteps ==
  ASSUME NEW s \in Sessions, IInv, CommitMerge(s), mem[s].where = "canonical"
  PROVE Step(s)
<1> DEFINE w == Worktree(mem[s], s)
           head == Head(mem[s], s)
           other == IF mem[s].phase = "local_target" THEN mem[s].local.target ELSE Source(s)
           merging == w.merge # "none"
           result == IF merging THEN NewCommit(s, head, other, w.index) ELSE head
           r == [mem[s] EXCEPT !.integrated = result]
<1>1. /\ pc[s] = "commit" /\ merging => made[s] < MaxCommits
      /\ advanced' = [advanced EXCEPT ![s] = merging \/ mem[s].phase = "local_target"]
      /\ staging' = result /\ canonical' = [canonical EXCEPT !.merge = "none"]
      /\ UNCHANGED <<detached, target, lock, audit, crashes, validated>>
      /\ Go(s, "staged")
  BY DEF CommitMerge
<1>2. AtValidate(s) BY <1>1, Known DEF Running, CommitMerge
<1>3. mem[s].phase # "local_target" BY <1>2 DEF AtValidate, Based
<1>4. Keep(s, r) /\ Append(s, manifest[s]) BY <1>3 DEF CommitMerge
<1>5. CommitParts(s, result) BY <1>1, Committing DEF CommitMerge
<1> HIDE DEF result
<1>6. head = staging BY DEF Head
<1>7. Within(staging, staging') BY <1>1, <1>5, <1>6 DEF CommitParts
<1>8. /\ r \in Record /\ r.phase = mem[s].phase /\ r.status = mem[s].status
      /\ r.integrated = result /\ r.local = mem[s].local /\ r.where = mem[s].where
      /\ r.conflictHead = mem[s].conflictHead
  BY <1>5, Known DEF Record, CommitParts
<1> HIDE DEF r
<1>9. /\ manifest' = manifest /\ mem' = [mem EXCEPT ![s] = r] /\ rec' = rec
      /\ behind' \in [Sessions -> BOOLEAN]
  BY <1>4, Known DEF Keep, Append, Typed, Copies
<1>10. canonical' \in CanonicalTree BY <1>1, Known DEF Typed, CanonicalTree, Merges
<1>11. advanced' \in [Sessions -> BOOLEAN] BY <1>1, Known DEF Typed
<1>12. Typed' BY <1>1, <1>5, <1>9, <1>10, <1>11, Known, CommitMade DEF Typed, CommitParts
<1>13. Evidence(s)' /\ Settled(s)'
  BY <1>1, <1>7, <1>9, Known DEF Evidence, Settled, ResultKept, Within
<1>14. Frame(s) BY <1>1, <1>7, <1>9, <1>12, <1>13, WithinReflexive DEF Frame, Grows, Tested
<1>15. Sound(r, validated', target')
  BY <1>1, <1>5, <1>8, Known DEF Sound, CommitParts, Passed, Good
<1>16. mem'[s] = r /\ pc'[s] = "staged" BY <1>1, <1>9, Known, Goes DEF Steps, Copies, CommitMerge
<1>17. Running(s)' BY <1>1, <1>5, <1>8, <1>16 DEF Running, CommitParts, Passed
<1>18. /\ Described(r, manifest'[s]) /\ Described(rec[s], manifest'[s])
       /\ Ahead(r, detached'[s]) /\ Ahead(rec[s], detached'[s])
  BY <1>1, <1>8, <1>9, Known DEF Described, Ahead
<1>19. pc[s] # "idle" BY <1>1 DEF CommitMerge
<1> QED BY <1>1, <1>8, <1>9, <1>14, <1>15, <1>17, <1>18, <1>19, Known, KeepsAndGoes
        DEF Steps, Bundle

(* In a detached worktree, whose commit staging gets afterwards.             *)
LEMMA CommitDetachedSteps ==
  ASSUME NEW s \in Sessions, IInv, CommitMerge(s), mem[s].where # "canonical"
  PROVE Step(s)
<1> DEFINE w == Worktree(mem[s], s)
           head == Head(mem[s], s)
           other == IF mem[s].phase = "local_target" THEN mem[s].local.target ELSE Source(s)
           merging == w.merge # "none"
           result == IF merging THEN NewCommit(s, head, other, w.index) ELSE head
           r == [mem[s] EXCEPT !.integrated = result]
           d == [detached[s] EXCEPT !.head = result, !.merge = "none"]
<1>1. /\ pc[s] = "commit"
      /\ merging => made[s] < MaxCommits
      /\ advanced' = [advanced EXCEPT ![s] = merging \/ mem[s].phase = "local_target"]
      /\ detached' = [detached EXCEPT ![s].head = result, ![s].merge = "none"]
      /\ UNCHANGED <<staging, canonical, target, lock, audit, crashes, validated>>
      /\ Go(s, "stage")
  BY DEF CommitMerge
<1>2. AtValidate(s) BY <1>1, Known DEF Running
<1>3. CommitParts(s, result) BY <1>1, Committing
<1>4. IF mem[s].phase = "local_target"
      THEN LET kept == [r EXCEPT !.local.result = result] IN
           Save(s, kept) /\ manifest' = [manifest EXCEPT ![s] = WithLocal(manifest[s], kept.local)]
      ELSE Keep(s, r) /\ Append(s, manifest[s])
  BY Known DEF CommitMerge, Typed
<1>5. w = detached[s] /\ head = detached[s].head
  BY <1>2, Known, Worktrees DEF AtValidate
<1>6. detached' = [detached EXCEPT ![s] = d] BY <1>1, Known DEF Typed, DetachedTree
<1>7. /\ d \in DetachedTree /\ d.head = result /\ d.merge = "none" /\ d.kind = detached[s].kind
      /\ d.index = detached[s].index
  BY <1>3, Known DEF DetachedTree, Merges, CommitParts
<1>8. d.index = d.head.tree
  BY <1>2, <1>3, <1>5, <1>7 DEF CommitParts, AtValidate
<1> HIDE DEF result, d
<1>9. /\ r \in Record /\ r.phase = mem[s].phase /\ r.status = mem[s].status
      /\ r.integrated = result /\ r.local = mem[s].local /\ r.where = mem[s].where
      /\ r.conflictHead = mem[s].conflictHead
  BY <1>3, Known DEF Record, CommitParts
<1>10. detached'[s] = d /\ \A q \in Sessions \ {s} : detached'[q] = detached[q]
  BY <1>6, Known DEF Typed
<1>11. Within(detached[s].head, d.head) BY <1>3, <1>5, <1>7 DEF CommitParts
<1>12. Ahead(rec[s], d) /\ Ahead(mem[s], d)
  BY <1>7, <1>11, Known, WithinTransitive DEF Ahead
<1>13. Settled(s)' BY <1>8, <1>10 DEF Settled
<1>14. advanced' \in [Sessions -> BOOLEAN] /\ detached' \in [Sessions -> DetachedTree]
  BY <1>1, <1>6, <1>7, Known DEF Typed
<1>15. ASSUME manifest' \in [Sessions -> Manifest], Evidence(s)',
              \A q \in Sessions \ {s} : manifest'[q] = manifest[q]
       PROVE Frame(s)
  <2>1. Typed' BY <1>1, <1>14, <1>15, Known, CommitMade DEF Typed
  <2> QED BY <1>1, <1>10, <1>13, <1>15, <2>1, WithinReflexive DEF Frame, Grows, Tested
<1>16. pc'[s] = "stage" BY <1>1, Known, Goes DEF Steps
<1>17. Passed(result, validated') BY <1>1, <1>3 DEF CommitParts
<1>18. CASE mem[s].phase = "local_target"
  <2> DEFINE l == [mem[s].local EXCEPT !.result = result]
             k == [r EXCEPT !.local = l]
             m == WithLocal(manifest[s], l)
  <2>1. /\ mem[s].local \in Recovery /\ mem[s].local = manifest[s].local
        /\ mem[s].status # "ready"
    BY <1>18, Known DEF Described, Bundle
  <2>2. l \in Recovery /\ l.result = result /\ l.before = mem[s].local.before
    BY <1>3, <2>1 DEF Recovery, CommitParts
  <2>3. k = [r EXCEPT !.local.result = result] /\ k.local = l
    BY <1>9 DEF Record
  <2>4. Save(s, k) /\ manifest' = [manifest EXCEPT ![s] = m]
    BY <1>4, <1>18, <2>3
  <2>5. /\ k \in Record /\ k.phase = "local_target" /\ k.status = mem[s].status
        /\ k.integrated = result
    BY <1>9, <1>18, <2>2 DEF Record
  <2>6. m \in Manifest /\ m.local = l /\ ~m.empty BY <2>2, Known, Recoveries
  <2> HIDE DEF l, k, m
  <2>7. manifest'[s] = m /\ \A q \in Sessions \ {s} : manifest'[q] = manifest[q]
    BY <2>4, Known DEF Typed
  <2>8. Within(mem[s].local.before, result)
    BY <1>2, <1>3, <1>5, <1>18, WithinTransitive DEF AtValidate, Based, CommitParts
  <2>9. ResultKept(l, validated') BY <1>17, <2>2, <2>8 DEF ResultKept, Passed
  <2>10. Within(l.before, staging) BY <2>1, <2>2, Known DEF Evidence
  <2>11. Evidence(s)'
    BY <1>1, <1>7, <1>10, <2>2, <2>6, <2>7, <2>8, <2>9, <2>10 DEF Evidence, ResultKept, Within
  <2>12. manifest' \in [Sessions -> Manifest] BY <2>4, <2>6, Known DEF Typed
  <2>13. Frame(s) BY <1>15, <2>7, <2>11, <2>12
  <2>14. Sound(k, validated', target')
    BY <1>17, <2>5 DEF Sound, Good, Passed
  <2>15. Described(k, manifest'[s]) /\ Ahead(k, detached'[s]) /\ k.status # "ready"
    BY <2>1, <2>2, <2>3, <2>5, <2>6, <2>7 DEF Described, Ahead
  <2>16. mem'[s] = k BY <2>4, <2>5, Known, Saves
  <2>17. AtStage(s)' BY <1>17, <2>2, <2>3, <2>5, <2>8, <2>16 DEF AtStage, Within, Passed
  <2>18. Running(s)' BY <1>16, <2>17 DEF Running
  <2> QED BY <1>1, <2>4, <2>5, <2>13, <2>14, <2>15, <2>18, SavesAndGoes DEF Steps
<1>19. CASE mem[s].phase # "local_target"
  <2>1. /\ manifest' = manifest /\ mem' = [mem EXCEPT ![s] = r] /\ rec' = rec
        /\ behind' \in [Sessions -> BOOLEAN]
    BY <1>4, <1>19, Known DEF Keep, Append, Typed, Copies
  <2>2. mem'[s] = r BY <2>1, Known DEF Copies
  <2> HIDE DEF r
  <2>3. Evidence(s)'
    BY <1>1, <1>7, <1>10, <1>11, <2>1, Known DEF Evidence, ResultKept, Within
  <2>4. Frame(s) BY <1>15, <2>1, <2>3, Known DEF Typed
  <2>5. Sound(mem[s], validated', target') BY <1>1, Known
  <2>6. Sound(r, validated', target') BY <1>9, <1>17, <2>5 DEF Sound, Good, Passed
  <2>7. Described(r, manifest'[s]) /\ Described(rec[s], manifest'[s])
    BY <1>9, <1>19, <2>1, Known DEF Described
  <2>8. Ahead(r, detached'[s]) /\ Ahead(rec[s], detached'[s])
    BY <1>9, <1>10, <1>12 DEF Ahead
  <2>9. Within(mem[s].conflictHead, result)
    BY <1>2, <1>3, <1>5, <1>19, WithinTransitive DEF AtValidate, Based, CommitParts
  <2>10. AtStage(s)' BY <1>9, <1>17, <1>19, <2>2, <2>9 DEF AtStage, Within, Passed
  <2>11. Running(s)' BY <1>16, <2>10 DEF Running
  <2>12. manifest'[s].local \in Recovery => r.status # "ready" /\ rec[s].status # "ready"
    BY <1>9, <2>1, Known DEF Bundle
  <2> QED BY <1>1, <1>9, <2>1, <2>4, <2>6, <2>7, <2>8, <2>11, <2>12, KeepsAndGoes DEF Steps
<1> QED BY <1>18, <1>19

LEMMA AdvanceStagingSteps ==
  ASSUME NEW s \in Sessions, IInv, AdvanceStaging(s)
  PROVE Step(s)
<1> DEFINE expected == IF mem[s].phase = "local_target" THEN mem[s].local.before
                       ELSE mem[s].conflictHead
<1>1. /\ pc[s] = "stage" /\ UNCHANGED <<target, trees, advanced, manifest, rest>>
      /\ \/ /\ staging = expected /\ staging' = mem[s].integrated /\ Go(s, "staged")
            /\ UNCHANGED <<rec, mem, behind, lock>>
         \/ Fail(s, mem[s]) /\ UNCHANGED staging
  BY DEF AdvanceStaging
<1>2. AtStage(s) BY <1>1, Known DEF Running
<1>3. CASE Fail(s, mem[s]) /\ UNCHANGED staging
  BY <1>1, <1>3, StopsAsItWas DEF branches
<1>4. CASE /\ staging = expected /\ staging' = mem[s].integrated /\ Go(s, "staged")
           /\ UNCHANGED <<rec, mem, behind, lock>>
  <2>1. Within(staging, staging') /\ Passed(staging', validated)
    BY <1>2, <1>4 DEF AtStage
  <2>2. Typed' BY <1>1, <2>1, Known DEF Typed, Passed, trees, rest
  <2>3. Evidence(s)' /\ Settled(s)'
    BY <1>1, <2>1, Known DEF Evidence, Settled, ResultKept, Within, trees, rest
  <2>4. Frame(s) BY <1>1, <2>1, <2>2, <2>3, WithinReflexive DEF Frame, Grows, Tested, trees, rest
  <2>5. /\ mem' = [mem EXCEPT ![s] = mem[s]] /\ rec' = rec /\ behind' \in [Sessions -> BOOLEAN]
        /\ UNCHANGED <<manifest, detached, target, validated, mem>>
    BY <1>1, <1>4, Known DEF Copies, trees, rest
  <2>6. pc'[s] = "staged" BY <1>1, <1>4, Known, Goes DEF Steps
  <2>7. Running(s)' BY <1>2, <2>5, <2>6 DEF Running, AtStage, Passed
  <2> QED BY <1>1, <1>4, <2>4, <2>5, <2>7, Known, KeepsAndGoes DEF Bundle, Steps
<1> QED BY <1>1, <1>3, <1>4

------------------------------------------------------------------------------
(* resume: reconstruction                                                    *)

LEMMA ImportedManifest ==
  ASSUME IInv, NEW s \in Sessions
  PROVE /\ Imported(s) \in Manifest /\ Imported(s).local = manifest[s].local
        /\ Imported(s).empty => manifest[s].empty /\ Imported(s) = manifest[s]
<1>1. Head(mem[s], s) \in Commit /\ Worktree(mem[s], s).index \in SUBSET Change
  BY Known, Worktrees
<1> QED BY <1>1, Known, Snapshots DEF Imported

(* The reconstructed worktree: on the commit, with a tree or a merge.        *)
LEMMA ReconstructedTree ==
  ASSUME NEW s \in Sessions, NEW m \in Manifest, NEW head \in Commit
  PROVE LET w == IF Remerges(m) THEN MergeInto(Fresh(head), head, Source(s))
                 ELSE Reread(m.merged.tree, head)
        IN /\ w \in DetachedTree /\ w.head = head
           /\ w.merge = "none" => w.index = head.tree
<1>1. CASE Remerges(m) BY <1>1, Commits, FreshTrees, MergesInto
<1>2. CASE ~Remerges(m)
  <2>1. m.merged.tree \in SUBSET Change BY <1>2 DEF Remerges, Manifest, Snapshot
  <2> DEFINE t == m.merged.tree
             b == Adding \cap (head.tree \ t) # {}
             f == Fresh(head)
             w == [f EXCEPT !.index = t, !.merge = "staged", !.stray = b]
  <2>2. Reread(t, head) = w BY DEF Reread
  <2>3. b \in BOOLEAN OBVIOUS
  <2>4. f \in DetachedTree /\ f.head = head BY FreshTrees
  <2> HIDE DEF b, f
  <2>5. w \in DetachedTree /\ w.head = head /\ w.merge = "staged"
    BY <2>1, <2>3, <2>4 DEF DetachedTree, Merges
  <2> HIDE DEF w
  <2> QED BY <1>2, <2>2, <2>5
<1> QED BY <1>1, <1>2

LEMMA ReconstructSteps ==
  ASSUME NEW s \in Sessions, IInv, Reconstruct(s)
  PROVE Step(s)
<1> DEFINE m == Imported(s)
           head == IF m.empty THEN target ELSE staging
           w == IF Remerges(m) THEN MergeInto(Fresh(head), head, Source(s))
                ELSE Reread(m.merged.tree, head)
           expected == IF m.empty \/ (m.merged # None /\ Remerges(m)) THEN target
                       ELSE mem[s].expected
           r == [mem[s] EXCEPT !.where = "recovery", !.conflictHead = head,
                   !.expected = expected, !.awaiting = @ \/ w.merge = "open"]
           n == IF m.empty /\ w.merge # "open" THEN WithTree(m, head, w.index)
                ELSE [m EXCEPT !.empty = FALSE]
<1>1. /\ pc[s] = "reconstruct" /\ Reconstructible(m) /\ staging' = head
      /\ detached' = [detached EXCEPT ![s] = w] /\ manifest' = [manifest EXCEPT ![s] = n]
      /\ UNCHANGED <<target, canonical, rest>>
  BY DEF Reconstruct
<1>2. Continue(s, r, w)
  <2>1. expected = IF m.empty \/ (m.merged # None /\ Remerges(m)) THEN target
                   ELSE mem[s].expected
    OBVIOUS
  <2> QED BY Known DEF Reconstruct, Record
<1>3. mem[s].status # "ready" /\ rec[s].status # "ready" /\ mem[s].phase # "local_target"
  BY <1>1, Known DEF Running
<1>4. /\ m \in Manifest /\ m.local = manifest[s].local
      /\ m.empty => manifest[s].empty
  BY ImportedManifest
<1> HIDE DEF m
<1>5. head \in Commit /\ Within(staging, head) /\ (~m.empty => head = staging)
  BY <1>1, Known, WithinReflexive DEF Typed, Reconstructible
<1>6. expected \in Commit \cup {None} BY Known DEF Typed, Record
<1> HIDE DEF head, expected
<1>7. w \in DetachedTree /\ w.head = head /\ (w.merge = "none" => w.index = head.tree)
  BY <1>4, <1>5, ReconstructedTree
<1> HIDE DEF w
<1>8. n \in Manifest /\ n.local = manifest[s].local /\ ~n.empty
  <2>1. w.index \in SUBSET Change BY <1>7 DEF DetachedTree
  <2>2. CASE m.empty /\ w.merge # "open" BY <1>4, <1>5, <2>1, <2>2, Snapshots
  <2>3. CASE ~(m.empty /\ w.merge # "open") BY <1>4, <2>3 DEF Manifest
  <2> QED BY <2>2, <2>3
<1>9. /\ r \in Record /\ r.phase = mem[s].phase /\ r.status = mem[s].status
      /\ r.integrated = mem[s].integrated /\ r.local = mem[s].local
      /\ r.where = "recovery" /\ r.conflictHead = head
  <2>1. (mem[s].awaiting \/ w.merge = "open") \in BOOLEAN OBVIOUS
  <2> QED BY <1>5, <1>6, <2>1, Known DEF Record
<1> HIDE DEF n, r
<1>10. /\ manifest'[s] = n /\ detached'[s] = w
       /\ \A q \in Sessions \ {s} : manifest'[q] = manifest[q] /\ detached'[q] = detached[q]
  BY <1>1, Known DEF Typed
<1>11. advanced' \in [Sessions -> BOOLEAN] BY <1>2, Known DEF Continue, Typed
<1>12. Typed' BY <1>1, <1>5, <1>7, <1>8, <1>11, Known DEF Typed, rest
<1>13. Evidence(s)'
  <2>1. manifest[s].local \in Recovery => head = staging
    BY <1>4, <1>5, Known DEF Evidence
  <2> QED BY <1>1, <1>5, <1>7, <1>8, <1>10, <2>1, Known DEF Evidence, ResultKept, Within, rest
<1>14. Settled(s)' BY <1>7, <1>10 DEF Settled
<1>15. Frame(s)
  BY <1>1, <1>5, <1>10, <1>12, <1>13, <1>14, WithinReflexive DEF Frame, Grows, Tested, rest
<1>16. Sound(r, validated', target') BY <1>1, <1>9, Known DEF Sound, rest
<1>17. Described(r, manifest'[s]) /\ Ahead(r, detached'[s]) /\ r.status # "ready"
  BY <1>3, <1>9 DEF Described, Ahead
<1>18. CASE r.phase = "pull_request"
  <2>1. Save(s, r) /\ Go(s, "finish") /\ UNCHANGED lock BY <1>2, <1>18 DEF Continue
  <2>2. pc'[s] = "finish" /\ mem'[s] = r BY <1>1, <1>9, <2>1, Known, Saves, Goes DEF Steps
  <2>3. Running(s)' BY <1>18, <2>2 DEF Running
  <2> QED BY <1>1, <1>9, <1>15, <1>16, <1>17, <2>1, <2>3, SavesAndGoes DEF Steps
<1>19. CASE r.phase \in {"promotion", "post_integration"}
  <2> DEFINE p == [r EXCEPT !.phase = "promotion"]
  <2>1. Save(s, p) /\ Go(s, "promote") /\ UNCHANGED lock BY <1>2, <1>19 DEF Continue
  <2>2. /\ p \in Record /\ p.phase = "promotion" /\ p.status = r.status
        /\ p.integrated = r.integrated /\ p.local = r.local
    BY <1>9 DEF Record
  <2> HIDE DEF p
  <2>3. Passed(p.integrated, validated') BY <1>16, <1>19, <2>2 DEF Sound
  <2>4. Sound(p, validated', target') BY <2>2, <2>3 DEF Sound, Good, Passed
  <2>5. Described(p, manifest'[s]) /\ Ahead(p, detached'[s]) /\ p.status # "ready"
    BY <1>17, <2>2 DEF Described, Ahead
  <2>6. pc'[s] = "promote" /\ mem'[s] = p BY <1>1, <2>1, <2>2, Known, Saves, Goes DEF Steps
  <2>7. Running(s)' BY <2>3, <2>6 DEF Running, Passed
  <2> QED BY <1>1, <1>15, <2>1, <2>2, <2>4, <2>5, <2>7, SavesAndGoes DEF Steps
<1>20. CASE r.phase \notin {"pull_request", "promotion", "post_integration"}
  <2>1. \/ Save(s, r) /\ Go(s, "validate") /\ UNCHANGED lock
        \/ Fail(s, r)
    BY <1>2, <1>20 DEF Continue
  <2>2. CASE Fail(s, r) BY <1>1, <1>9, <1>15, <1>16, <1>17, <2>2, Ends
  <2>3. CASE Save(s, r) /\ Go(s, "validate") /\ UNCHANGED lock
    <3>1. pc'[s] = "validate" /\ mem'[s] = r
      BY <1>1, <1>9, <2>3, Known, Saves, Goes DEF Steps
    <3>2. Based(s)' BY <1>3, <1>7, <1>9, <1>10, <3>1, WithinReflexive DEF Based, Within
    <3>3. Worktree(mem[s], s)' = w /\ Head(mem[s], s)' = head
      BY <1>7, <1>9, <1>10, <3>1 DEF Worktree, Head
    <3>4. AtValidate(s)' BY <1>7, <1>9, <3>1, <3>2, <3>3 DEF AtValidate
    <3>5. Running(s)' BY <3>1, <3>4 DEF Running
    <3> QED BY <1>1, <1>9, <1>15, <1>16, <1>17, <2>3, <3>5, SavesAndGoes DEF Steps
  <2> QED BY <2>1, <2>2, <2>3
<1> QED BY <1>18, <1>19, <1>20

LEMMA ReconstructDivergesSteps ==
  ASSUME NEW s \in Sessions, IInv, ReconstructDiverges(s)
  PROVE Step(s)
<1> DEFINE m == Imported(s)
           w == Fresh(staging)
           r == [mem[s] EXCEPT !.where = "recovery", !.conflictHead = staging]
<1>1. /\ pc[s] = "reconstruct" /\ ~manifest[s].empty
      /\ manifest' = [manifest EXCEPT ![s] = m] /\ detached' = [detached EXCEPT ![s] = w]
      /\ Fail(s, r) /\ UNCHANGED <<branches, canonical, advanced, rest>>
  BY DEF ReconstructDiverges
<1>2. /\ m \in Manifest /\ m.local = manifest[s].local /\ (m.empty => manifest[s].empty)
  BY ImportedManifest
<1>3. staging \in Commit BY Known DEF Typed
<1>4. w \in DetachedTree /\ w.head = staging /\ w.merge = "none" /\ w.index = staging.tree
  BY <1>3, FreshTrees
<1>5. /\ r \in Record /\ r.phase = mem[s].phase /\ r.status = mem[s].status
      /\ r.integrated = mem[s].integrated /\ r.local = mem[s].local
  BY <1>3, Known DEF Record
<1> HIDE DEF m, w, r
<1>6. /\ manifest'[s] = m /\ detached'[s] = w
      /\ \A q \in Sessions \ {s} : manifest'[q] = manifest[q] /\ detached'[q] = detached[q]
  BY <1>1, Known DEF Typed
<1>7. Typed' BY <1>1, <1>2, <1>4, Known DEF Typed, branches, rest
<1>8. Evidence(s)' /\ Settled(s)'
  BY <1>1, <1>2, <1>4, <1>6, Known DEF Evidence, Settled, ResultKept, Within, branches, rest
<1>9. Frame(s)
  BY <1>1, <1>6, <1>7, <1>8, WithinReflexive DEF Frame, Grows, Tested, branches, rest
<1>10. Sound(r, validated', target') /\ Described(r, manifest'[s])
  BY <1>1, <1>2, <1>5, <1>6, Known DEF Sound, Described, branches, rest
<1> QED BY <1>1, <1>5, <1>9, <1>10, Ends

------------------------------------------------------------------------------
(* reconcileLocalTarget                                                      *)

(* The recovery that a command works on is the one in the bundle.            *)
LEMMA InRecovery ==
  ASSUME IInv, NEW s \in Sessions, mem[s].phase = "local_target"
  PROVE /\ mem[s].local \in Recovery /\ mem[s].local = manifest[s].local
        /\ mem[s].status # "ready"
        /\ ~manifest[s].empty /\ ResultKept(mem[s].local, validated)
        /\ Within(mem[s].local.before, staging)
        /\ /\ mem[s].local.result = None
           /\ detached[s].merge # "none" \/ mem[s].local.resolved # None
           => Within(mem[s].local.before, detached[s].head)
BY Known DEF Described, Bundle, Evidence

LEMMA LocalLandedSteps ==
  ASSUME NEW s \in Sessions, IInv, LocalLanded(s)
  PROVE Step(s)
<1> DEFINE l == mem[s].local
           r == [mem[s] EXCEPT !.integrated = l.base, !.expected = l.target,
                   !.local = None, !.awaiting = FALSE, !.failed = FALSE, !.phase = "pull_request"]
<1>1. /\ pc[s] = "local" /\ Landed(mem[s]) /\ Go(s, "finish")
      /\ UNCHANGED <<branches, trees, advanced, manifest, lock, rest>>
  BY DEF LocalLanded
<1>2. Save(s, r) BY DEF LocalLanded
<1>3. mem[s].phase = "local_target" /\ Within(l.base, target)
  BY <1>1 DEF Landed, StagingMoved
<1>4. l \in Recovery /\ mem[s].status # "ready" BY <1>3, InRecovery
<1>5. l.base \in Commit /\ l.target \in Commit BY <1>4 DEF Recovery
<1>6. /\ r \in Record /\ r.phase = "pull_request" /\ r.status = mem[s].status
      /\ r.integrated = l.base
  BY <1>5, Known DEF Record
<1> HIDE DEF r
<1>7. Frame(s) BY <1>1, FrameStays DEF branches, trees, rest
<1>8. Sound(r, validated', target')
  BY <1>1, <1>3, <1>5, <1>6 DEF Sound, Good, branches, rest
<1>9. Described(r, manifest'[s]) /\ Ahead(r, detached'[s]) /\ r.status # "ready"
  BY <1>4, <1>6 DEF Described, Ahead
<1>10. pc'[s] = "finish" /\ mem'[s] = r BY <1>1, <1>2, <1>6, Known, Saves, Goes DEF Steps
<1>11. Running(s)' BY <1>6, <1>10 DEF Running
<1> QED BY <1>1, <1>2, <1>6, <1>7, <1>8, <1>9, <1>11, SavesAndGoes DEF Steps

LEMMA LocalOpensSteps ==
  ASSUME NEW s \in Sessions, IInv, LocalOpens(s)
  PROVE Step(s)
<1> DEFINE again == Restarts(mem[s])
           base == IF again THEN mem[s].local.base ELSE mem[s].integrated
           from == IF again THEN mem[s].local.target ELSE mem[s].expected
           st == [base |-> base, target |-> target, before |-> staging,
                  resolved |-> None, result |-> None]
           m == WithLocal(manifest[s], st)
           w == [Fresh(base) EXCEPT !.kind = "local"]
           r == [mem[s] EXCEPT !.status = "review", !.phase = "local_target", !.local = st,
                   !.integrated = base, !.expected = from, !.where = "local",
                   !.conflictHead = base, !.awaiting = @ /\ ~again, !.failed = @ /\ ~again]
<1>1. /\ pc[s] = "local" /\ Opens(mem[s]) /\ Go(s, "reconcile")
      /\ manifest' = [manifest EXCEPT ![s] = m] /\ detached' = [detached EXCEPT ![s] = w]
      /\ UNCHANGED <<branches, canonical, advanced, lock, rest>>
  BY Known DEF LocalOpens, Typed
<1>2. Save(s, r) BY DEF LocalOpens
<1>3. AtLocal(s) BY <1>1, Known DEF Running
<1>4. again => mem[s].local \in Recovery
  BY InRecovery DEF Restarts, StagingMoved
<1>5. ~again => mem[s].integrated \in Commit BY <1>1, <1>3 DEF Opens, AtLocal
<1>6. base \in Commit /\ from \in Commit \cup {None}
  BY <1>4, <1>5, Known DEF Recovery, Record
<1>7. staging \in Commit /\ target \in Commit BY Known DEF Typed
<1> HIDE DEF base, from
<1>8. /\ st \in Recovery /\ st.before = staging /\ st.result = None /\ st.resolved = None
  BY <1>6, <1>7 DEF Recovery
<1> HIDE DEF st
<1>9. m \in Manifest /\ m.local = st /\ ~m.empty BY <1>8, Known, Recoveries
<1>10. Fresh(base) \in DetachedTree /\ Fresh(base).head = base /\ Fresh(base).merge = "none"
       /\ Fresh(base).index = base.tree
  BY <1>6, FreshTrees
<1>11. w \in DetachedTree /\ w.head = base /\ w.merge = "none" /\ w.index = base.tree
  BY <1>10 DEF DetachedTree
<1>12. /\ r \in Record /\ r.phase = "local_target" /\ r.status = "review" /\ r.local = st
       /\ r.where = "local"
  <2> DEFINE waits == mem[s].awaiting /\ ~again
             fails == mem[s].failed /\ ~again
             x == [mem[s] EXCEPT !.status = "review", !.phase = "local_target", !.local = st,
                     !.integrated = base, !.expected = from, !.where = "local",
                     !.conflictHead = base, !.awaiting = waits, !.failed = fails]
  <2>1. waits \in BOOLEAN /\ fails \in BOOLEAN OBVIOUS
  <2>2. mem[s] \in Record BY Known
  <2>3. r = x BY <2>2 DEF Record
  <2> HIDE DEF r, waits, fails
  <2>4. /\ x \in Record /\ x.phase = "local_target" /\ x.status = "review" /\ x.local = st
        /\ x.where = "local"
    BY <1>6, <1>8, <2>1, <2>2 DEF Record
  <2> QED BY <2>3, <2>4
<1> HIDE DEF m, w, r
<1>13. /\ manifest'[s] = m /\ detached'[s] = w
       /\ \A q \in Sessions \ {s} : manifest'[q] = manifest[q] /\ detached'[q] = detached[q]
  BY <1>1, Known DEF Typed
<1>14. Typed' BY <1>1, <1>9, <1>11, Known DEF Typed, branches, rest
<1>15. staging' = staging /\ Within(st.before, staging) BY <1>1, <1>8, WithinReflexive DEF branches
<1>16. Evidence(s)' /\ Settled(s)'
  BY <1>8, <1>9, <1>11, <1>13, <1>15 DEF Evidence, Settled, ResultKept, Within
<1>17. Frame(s)
  BY <1>1, <1>13, <1>14, <1>16, WithinReflexive DEF Frame, Grows, Tested, branches, rest
<1>18. Sound(r, validated', target') /\ Described(r, manifest'[s]) /\ Ahead(r, detached'[s])
  BY <1>8, <1>9, <1>12, <1>13 DEF Sound, Described, Ahead
<1>19. pc'[s] = "reconcile" /\ mem'[s] = r /\ rec'[s] = r
  BY <1>1, <1>2, <1>12, Known, Saves, Goes DEF Steps
<1>20. Running(s)' BY <1>8, <1>12, <1>15, <1>19 DEF Running, AtReconcile, AtLocal
<1> QED BY <1>1, <1>2, <1>12, <1>17, <1>18, <1>20, SavesAndGoes DEF Steps

LEMMA LocalContinuesSteps ==
  ASSUME NEW s \in Sessions, IInv, LocalContinues(s)
  PROVE Step(s)
<1> DEFINE r == [mem[s] EXCEPT !.where = "local", !.conflictHead = mem[s].local.base]
<1>1. /\ pc[s] = "local" /\ mem[s].phase = "local_target" /\ ~StagingMoved(mem[s])
      /\ Go(s, "reconcile") /\ Save(s, r)
      /\ UNCHANGED <<branches, trees, advanced, manifest, lock, rest>>
  BY DEF LocalContinues
<1>2. mem[s].local \in Recovery /\ mem[s].status # "ready" BY <1>1, InRecovery
<1>3. /\ r \in Record /\ r.phase = "local_target" /\ r.status = mem[s].status
      /\ r.integrated = mem[s].integrated /\ r.local = mem[s].local /\ r.where = "local"
  BY <1>1, <1>2, Known DEF Record, Recovery
<1> HIDE DEF r
<1>4. Frame(s) BY <1>1, FrameStays DEF branches, trees, rest
<1>5. Sound(r, validated', target') /\ Described(r, manifest'[s]) /\ Ahead(r, detached'[s])
  BY <1>1, <1>2, <1>3, Known DEF Sound, Described, Ahead, branches, rest
<1>6. pc'[s] = "reconcile" /\ mem'[s] = r /\ rec'[s] = r
  BY <1>1, <1>3, Known, Saves, Goes DEF Steps
<1>7. staging' \in {r.local.before, r.local.result} BY <1>1, <1>3 DEF StagingMoved, branches
<1>8. Running(s)' BY <1>2, <1>3, <1>6, <1>7 DEF Running, AtReconcile, AtLocal
<1> QED BY <1>1, <1>2, <1>3, <1>4, <1>5, <1>8, SavesAndGoes DEF Steps

LEMMA LocalResultSteps ==
  ASSUME NEW s \in Sessions, IInv, LocalResult(s)
  PROVE Step(s)
<1> DEFINE l == mem[s].local
           r == [mem[s] EXCEPT !.integrated = l.result, !.expected = l.target,
                   !.awaiting = FALSE, !.failed = FALSE, !.phase = "promotion"]
<1>1. /\ pc[s] = "reconcile" /\ l.result # None /\ staging' = l.result
      /\ Save(s, r) /\ advanced' = [advanced EXCEPT ![s] = TRUE] /\ Go(s, "promote")
      /\ UNCHANGED <<target, trees, manifest, lock, rest>>
  BY DEF LocalResult
<1>2. AtReconcile(s) BY <1>1, Known DEF Running
<1>3. l \in Recovery /\ mem[s].status # "ready" /\ ResultKept(l, validated)
  BY <1>2, InRecovery DEF AtReconcile
<1>4. l.result \in Commit /\ l.target \in Commit BY <1>1, <1>3 DEF Recovery
<1>5. Passed(l.result, validated) /\ Within(l.before, l.result)
  BY <1>1, <1>3, <1>4 DEF ResultKept, Passed
<1>6. Within(staging, staging')
  BY <1>1, <1>2, <1>5, WithinReflexive DEF AtReconcile
<1>7. /\ r \in Record /\ r.phase = "promotion" /\ r.status = mem[s].status
      /\ r.integrated = l.result
  BY <1>4, Known DEF Record
<1> HIDE DEF r
<1>8. Typed' BY <1>1, <1>4, Known DEF Typed, trees, rest
<1>9. Evidence(s)' /\ Settled(s)'
  BY <1>1, <1>6, Known DEF Evidence, Settled, ResultKept, Within, trees, rest
<1>10. Frame(s) BY <1>1, <1>6, <1>8, <1>9, WithinReflexive DEF Frame, Grows, Tested, trees, rest
<1>11. Sound(r, validated', target') BY <1>1, <1>5, <1>7 DEF Sound, Good, Passed, rest
<1>12. Described(r, manifest'[s]) /\ Ahead(r, detached'[s]) /\ r.status # "ready"
  BY <1>3, <1>7 DEF Described, Ahead
<1>13. pc'[s] = "promote" /\ mem'[s] = r BY <1>1, <1>7, Known, Saves, Goes DEF Steps
<1>14. Running(s)' BY <1>1, <1>5, <1>7, <1>13 DEF Running, Passed, rest
<1> QED BY <1>1, <1>7, <1>10, <1>11, <1>12, <1>14, SavesAndGoes DEF Steps

(* A recovery that is described anew, in a worktree that holds it.           *)
LEMMA LocalFrame ==
  ASSUME NEW s \in Sessions, IInv, mem[s].phase = "local_target", mem[s].local.result = None,
         NEW st \in Recovery, st.before = mem[s].local.before, st.result = None,
         NEW w \in DetachedTree, detached' = [detached EXCEPT ![s] = w],
         w.merge = "none" => w.index = w.head.tree,
         w.merge # "none" \/ st.resolved # None => Within(st.before, w.head),
         manifest' = [manifest EXCEPT ![s] = WithLocal(manifest[s], st)],
         UNCHANGED <<branches, canonical, advanced, rest>>
  PROVE Frame(s) /\ manifest'[s].local = st /\ detached'[s] = w
<1> DEFINE m == WithLocal(manifest[s], st)
<1>1. m \in Manifest /\ m.local = st /\ ~m.empty BY Known, Recoveries
<1> HIDE DEF m
<1>2. /\ manifest'[s] = m /\ detached'[s] = w
      /\ \A q \in Sessions \ {s} : manifest'[q] = manifest[q] /\ detached'[q] = detached[q]
  BY Known DEF Typed, m
<1>3. manifest' \in [Sessions -> Manifest] BY <1>1, Known DEF Typed, m
<1>4. Typed' BY <1>3, Known DEF Typed, branches, rest
<1>5. staging' = staging /\ Within(st.before, staging) BY InRecovery DEF branches
<1>6. Evidence(s)' /\ Settled(s)'
  BY <1>1, <1>2, <1>5 DEF Evidence, Settled, ResultKept, Within
<1> QED BY <1>1, <1>2, <1>4, <1>6, WithinReflexive DEF Frame, Grows, Tested, branches, rest

LEMMA LocalMergesSteps ==
  ASSUME NEW s \in Sessions, IInv, LocalMerges(s)
  PROVE Step(s)
<1> DEFINE l == mem[s].local
           begun == detached[s].merge # "none"
           base == IF begun THEN l.base ELSE l.before
           w == IF begun THEN detached[s]
                ELSE [MergeInto(Fresh(base), base, l.target) EXCEPT !.kind = "local"]
           resolved == IF w.merge = "open" THEN None ELSE w.index
           st == [l EXCEPT !.base = base, !.resolved = resolved]
           opened == [mem[s] EXCEPT !.local = st, !.conflictHead = base]
           waiting == [opened EXCEPT !.awaiting = TRUE]
           going == [opened EXCEPT !.expected = st.target]
<1>1. /\ pc[s] = "reconcile" /\ l.result = None
      /\ detached' = [detached EXCEPT ![s] = w]
      /\ manifest' = [manifest EXCEPT ![s] = WithLocal(manifest[s], st)]
      /\ \/ Fail(s, waiting)
         \/ Save(s, going) /\ Go(s, "validate") /\ UNCHANGED lock
      /\ UNCHANGED <<branches, canonical, advanced, rest>>
  BY Known DEF LocalMerges, Typed
<1>2. AtReconcile(s) BY <1>1, Known DEF Running
<1>3. mem[s].phase = "local_target" /\ mem[s].where = "local" BY <1>2 DEF AtReconcile
<1>4. /\ l \in Recovery /\ mem[s].status # "ready"
      /\ begun => Within(l.before, detached[s].head)
  BY <1>1, <1>3, InRecovery
<1>5. l.base \in Commit /\ l.before \in Commit /\ l.target \in Commit BY <1>4 DEF Recovery
<1>6. base \in Commit BY <1>5
<1>7. /\ w \in DetachedTree /\ Within(l.before, w.head)
      /\ w.merge = "none" => w.index = w.head.tree
  <2>1. CASE begun BY <1>4, <2>1, Known DEF Settled
  <2>2. CASE ~begun
    <3> DEFINE x == MergeInto(Fresh(base), base, l.target)
    <3>1. /\ x \in DetachedTree /\ x.head = base /\ (x.merge = "none" => x.index = base.tree)
      BY <1>5, <1>6, FreshTrees, MergesInto
    <3> HIDE DEF x
    <3>2. /\ [x EXCEPT !.kind = "local"] \in DetachedTree
          /\ [x EXCEPT !.kind = "local"].head = base
          /\ [x EXCEPT !.kind = "local"].merge = x.merge
          /\ [x EXCEPT !.kind = "local"].index = x.index
      BY <3>1 DEF DetachedTree
    <3>3. w = [x EXCEPT !.kind = "local"] /\ base = l.before BY <2>2 DEF x
    <3> HIDE DEF w, base
    <3> QED BY <3>1, <3>2, <3>3, WithinReflexive
  <2> QED BY <2>1, <2>2
<1> HIDE DEF w, base
<1>8. resolved \in (SUBSET Change) \cup {None} BY <1>7 DEF DetachedTree
<1> HIDE DEF resolved
<1>9. /\ st \in Recovery /\ st.before = l.before /\ st.result = None
  BY <1>1, <1>4, <1>6, <1>8 DEF Recovery
<1>10. st.target \in Commit BY <1>9 DEF Recovery
<1> HIDE DEF st
<1>11. /\ opened \in Record /\ opened.phase = "local_target" /\ opened.status = mem[s].status
       /\ opened.integrated = mem[s].integrated /\ opened.local = st /\ opened.where = "local"
  BY <1>3, <1>6, <1>9, Known DEF Record
<1> HIDE DEF opened
<1>12. /\ waiting \in Record /\ waiting.phase = "local_target" /\ waiting.status = mem[s].status
       /\ waiting.integrated = mem[s].integrated /\ waiting.local = st
  BY <1>11 DEF Record
<1>13. /\ going \in Record /\ going.phase = "local_target" /\ going.status = mem[s].status
       /\ going.integrated = mem[s].integrated /\ going.local = st /\ going.where = "local"
  BY <1>10, <1>11 DEF Record
<1> HIDE DEF waiting, going
<1>14. Frame(s) /\ manifest'[s].local = st /\ detached'[s] = w
  BY <1>1, <1>3, <1>7, <1>9, LocalFrame
<1>15. ASSUME NEW r \in Record, r.phase = "local_target", r.status = mem[s].status,
              r.integrated = mem[s].integrated, r.local = st
       PROVE Sound(r, validated', target') /\ Described(r, manifest'[s])
             /\ Ahead(r, detached'[s]) /\ r.status # "ready"
  BY <1>1, <1>4, <1>9, <1>14, <1>15, Known DEF Sound, Described, Ahead, branches, rest
<1>16. CASE Fail(s, waiting)
  BY <1>1, <1>12, <1>14, <1>15, <1>16, Ends
<1>17. CASE Save(s, going) /\ Go(s, "validate") /\ UNCHANGED lock
  <2>1. pc'[s] = "validate" /\ mem'[s] = going
    BY <1>1, <1>13, <1>17, Known, Saves, Goes DEF Steps
  <2>2. Based(s)' BY <1>7, <1>9, <1>13, <1>14, <2>1 DEF Based, Within
  <2>3. Worktree(mem[s], s)' = w /\ Head(mem[s], s)' = w.head
    BY <1>13, <1>14, <2>1 DEF Worktree, Head
  <2>4. AtValidate(s)' BY <1>7, <1>13, <2>1, <2>2, <2>3 DEF AtValidate
  <2>5. Running(s)' BY <2>1, <2>4 DEF Running
  <2> QED BY <1>1, <1>13, <1>14, <1>15, <1>17, <2>5, SavesAndGoes DEF Steps
<1> QED BY <1>1, <1>16, <1>17

LEMMA LocalRetriesSteps ==
  ASSUME NEW s \in Sessions, IInv, LocalRetries(s)
  PROVE Step(s)
<1> DEFINE l == mem[s].local
           r == [mem[s] EXCEPT !.expected = l.target]
<1>1. /\ pc[s] = "reconcile" /\ l.result = None /\ l.resolved # None
      /\ Keep(s, r) /\ Go(s, "validate")
      /\ UNCHANGED <<branches, trees, advanced, evidence, lock, rest>>
  BY DEF LocalRetries, Tests
<1>2. AtReconcile(s) BY <1>1, Known DEF Running
<1>3. mem[s].phase = "local_target" /\ mem[s].where = "local" BY <1>2 DEF AtReconcile
<1>4. l \in Recovery /\ mem[s].status # "ready" /\ Within(l.before, detached[s].head)
  BY <1>1, <1>3, InRecovery
<1>5. l.target \in Commit BY <1>4 DEF Recovery
<1>6. /\ r \in Record /\ r.phase = "local_target" /\ r.status = mem[s].status
      /\ r.integrated = mem[s].integrated /\ r.local = l /\ r.where = "local"
  BY <1>3, <1>5, Known DEF Record
<1> HIDE DEF r
<1>7. Frame(s) BY <1>1, FrameStays DEF branches, trees, evidence, rest
<1>8. /\ mem' = [mem EXCEPT ![s] = r] /\ rec' = rec /\ behind' \in [Sessions -> BOOLEAN]
      /\ UNCHANGED <<manifest, detached, target, validated>>
  BY <1>1, Known DEF Keep, Copies, branches, trees, evidence, rest
<1>9. Sound(r, validated', target') /\ Described(r, manifest'[s]) /\ Ahead(r, detached'[s])
  BY <1>3, <1>4, <1>6, <1>8, Known DEF Sound, Described, Ahead
<1>10. mem'[s] = r /\ pc'[s] = "validate" BY <1>1, <1>8, Known, Goes DEF Steps, Copies
<1>11. Based(s)' BY <1>1, <1>4, <1>6, <1>8, <1>10 DEF Based, Within
<1>12. Worktree(mem[s], s)' = detached[s] /\ Head(mem[s], s)' = detached[s].head
  BY <1>6, <1>8, <1>10 DEF Worktree, Head
<1>13. AtValidate(s)' BY <1>6, <1>10, <1>11, <1>12, Known DEF AtValidate, Settled
<1>14. Running(s)' BY <1>10, <1>13 DEF Running
<1>15. /\ Described(rec[s], manifest'[s]) /\ Ahead(rec[s], detached'[s])
       /\ r.status # "ready" /\ (manifest'[s].local \in Recovery => rec[s].status # "ready")
  BY <1>4, <1>6, <1>8, Known DEF Bundle
<1> QED BY <1>1, <1>6, <1>7, <1>8, <1>9, <1>14, <1>15, KeepsAndGoes DEF Steps

LEMMA LocalAcceptsSteps ==
  ASSUME NEW s \in Sessions, IInv, LocalAccepts(s)
  PROVE Step(s)
<1> DEFINE l == mem[s].local
           st == [l EXCEPT !.resolved = detached[s].index]
           r == [mem[s] EXCEPT !.local = st, !.expected = st.target]
<1>1. /\ pc[s] = "reconcile" /\ l.result = None /\ l.resolved # None
      /\ manifest' = [manifest EXCEPT ![s] = WithLocal(manifest[s], st)]
      /\ Save(s, r) /\ Go(s, "validate")
      /\ UNCHANGED <<branches, trees, advanced, lock, rest>>
  BY Known DEF LocalAccepts, Tests, Typed
<1>2. AtReconcile(s) BY <1>1, Known DEF Running
<1>3. mem[s].phase = "local_target" /\ mem[s].where = "local" BY <1>2 DEF AtReconcile
<1>4. l \in Recovery /\ mem[s].status # "ready" /\ Within(l.before, detached[s].head)
  BY <1>1, <1>3, InRecovery
<1>5. detached[s] \in DetachedTree /\ detached[s].index \in SUBSET Change
  BY Known DEF DetachedTree
<1>6. st \in Recovery /\ st.before = l.before /\ st.result = None
  BY <1>1, <1>4, <1>5 DEF Recovery
<1>7. st.target \in Commit BY <1>6 DEF Recovery
<1> HIDE DEF st
<1>8. /\ r \in Record /\ r.phase = "local_target" /\ r.status = mem[s].status
      /\ r.integrated = mem[s].integrated /\ r.local = st /\ r.where = "local"
  BY <1>3, <1>6, <1>7, Known DEF Record
<1> HIDE DEF r
<1>9. detached' = [detached EXCEPT ![s] = detached[s]] /\ UNCHANGED <<branches, canonical, advanced, rest>>
  BY <1>1, Known DEF trees, Typed
<1>10. detached[s].merge = "none" => detached[s].index = detached[s].head.tree
  BY Known DEF Settled
<1>11. Frame(s) /\ manifest'[s].local = st /\ detached'[s] = detached[s]
  BY <1>1, <1>3, <1>4, <1>5, <1>6, <1>9, <1>10, LocalFrame
<1>12. Sound(r, validated', target') /\ Described(r, manifest'[s]) /\ Ahead(r, detached'[s])
  BY <1>1, <1>4, <1>6, <1>8, <1>11, Known DEF Sound, Described, Ahead, branches, rest
<1>13. mem'[s] = r /\ pc'[s] = "validate" BY <1>1, <1>8, Known, Saves, Goes DEF Steps
<1>14. Based(s)' BY <1>4, <1>6, <1>8, <1>11, <1>13 DEF Based, Within
<1>15. Worktree(mem[s], s)' = detached[s] /\ Head(mem[s], s)' = detached[s].head
  BY <1>8, <1>11, <1>13 DEF Worktree, Head
<1>16. AtValidate(s)' BY <1>8, <1>10, <1>13, <1>14, <1>15 DEF AtValidate
<1>17. Running(s)' BY <1>13, <1>16 DEF Running
<1> QED BY <1>1, <1>4, <1>8, <1>11, <1>12, <1>17, SavesAndGoes DEF Steps

------------------------------------------------------------------------------
(* Steps that need no lock                                                   *)

LEMMA RecoverOrphanBeside ==
  ASSUME NEW s \in Sessions, IInv, RecoverOrphan(s)
  PROVE Beside(s)
<1> DEFINE r == [rec[s] EXCEPT !.status = "review", !.awaiting = TRUE, !.conflictHead = staging]
<1>1. /\ pc[s] = "idle" /\ rec[s].status = "ready"
      /\ rec' = [rec EXCEPT ![s] = r] /\ mem' = [mem EXCEPT ![s] = r]
      /\ UNCHANGED <<branches, trees, pc, advanced, evidence, lock, rest>>
  BY DEF RecoverOrphan
<1>2. staging \in Commit BY Known DEF Typed
<1>3. /\ r \in Record /\ r.status = "review" /\ r.phase = rec[s].phase
      /\ r.integrated = rec[s].integrated /\ r.local = rec[s].local
  BY <1>2, Known DEF Record
<1> HIDE DEF r
<1>4. Copies' /\ rec'[s] = r /\ mem'[s] = r /\ Untouched(s)
  BY <1>1, <1>3, Known DEF Copies, Untouched, evidence
<1>5. Typed' BY <1>1, Known DEF Typed, branches, trees, evidence, rest
<1>6. Locked' BY <1>1, Known DEF Locked
<1>7. TypeOK' BY <1>4, <1>5, <1>6 DEF Typed, TypeOK, CanonicalTree, DetachedTree, Copies, Locked
<1>8. Sound(r, validated, target) /\ Described(r, manifest[s]) /\ Ahead(r, detached[s])
  BY <1>3, Known DEF Sound, Described, Ahead
<1>9. Kept(s)'
  BY <1>1, <1>3, <1>4, <1>8, Known
     DEF Kept, Bundle, Evidence, Settled, Sound, Passed, Good, Described, Ahead, ResultKept, Within,
         branches, trees, evidence, rest
<1>10. Running(s)' BY <1>1 DEF Running
<1> QED BY <1>1, <1>4, <1>7, <1>9, <1>10
        DEF Beside, Session, Same, Untouched, branches, trees, evidence, rest

(* An agent stages or corrects something in a worktree.                      *)
LEMMA TreeBeside ==
  ASSUME NEW s \in Sessions, IInv, pc[s] = "idle",
         canonical' \in CanonicalTree, canonical'.index = canonical.index,
         canonical'.merge = "none" => canonical.merge = "none",
         NEW w \in DetachedTree, detached' = [detached EXCEPT ![s] = w],
         w.head = detached[s].head, w.kind = detached[s].kind,
         w.merge # "none" => detached[s].merge # "none",
         w.merge = "none" => w.index = w.head.tree,
         UNCHANGED <<branches, rec, mem, pc, advanced, evidence, lock, rest>>
  PROVE Beside(s)
<1>1. detached'[s] = w /\ \A q \in Sessions \ {s} : detached'[q] = detached[q]
  BY Known DEF Typed
<1>2. detached' \in [Sessions -> DetachedTree] BY Known DEF Typed
<1>3. Typed' BY <1>2, Known DEF Typed, branches, evidence, rest
<1>4. Copies' /\ Locked' BY Known DEF Copies, Locked, evidence
<1>5. TypeOK' BY <1>3, <1>4 DEF Typed, TypeOK, CanonicalTree, DetachedTree, Copies, Locked
<1>6. Ahead(rec[s], w) /\ Ahead(mem[s], w) BY Known DEF Ahead
<1>7. Bundle(s)' BY <1>1, Known DEF Bundle, Evidence, ResultKept, Within, branches, evidence, rest
<1>8. Sound(rec[s], validated, target)' /\ Sound(mem[s], validated, target)'
  BY Known DEF Sound, Passed, Good, Within, branches, rest
<1>9. Kept(s)' BY <1>1, <1>6, <1>7, <1>8, Known DEF Kept, Settled, Described, Ahead, Within, evidence
<1>10. Running(s)' BY DEF Running
<1> QED BY <1>1, <1>5, <1>9, <1>10 DEF Beside, Session, Same, branches, evidence, rest

LEMMA ResolveBeside ==
  ASSUME NEW s \in Sessions, IInv, Resolve(s)
  PROVE Beside(s)
<1>1. /\ pc[s] = "idle" /\ Worktree(rec[s], s).merge = "open"
      /\ UNCHANGED <<branches, rec, mem, pc, advanced, evidence, lock, rest>>
  BY DEF Resolve
<1>2. CASE rec[s].where \in {"none", "canonical"}
  <2>1. canonical' = [canonical EXCEPT !.merge = "staged"] /\ detached' = detached
    BY <1>2 DEF Resolve
  <2>2. /\ canonical' \in CanonicalTree /\ canonical'.index = canonical.index
        /\ canonical'.merge = "staged"
    BY <2>1, Known DEF Typed, CanonicalTree, Merges
  <2>3. detached' = [detached EXCEPT ![s] = detached[s]] BY <2>1, Known DEF Typed
  <2> QED BY <1>1, <2>2, <2>3, Known, TreeBeside DEF Settled
<1>3. CASE rec[s].where \notin {"none", "canonical"}
  <2> DEFINE w == [detached[s] EXCEPT !.merge = "staged"]
  <2>1. canonical' = canonical /\ detached' = [detached EXCEPT ![s] = w]
    BY <1>3, Known DEF Resolve, Typed
  <2>2. detached[s].merge = "open" BY <1>1, <1>3 DEF Worktree
  <2>3. /\ w \in DetachedTree /\ w.head = detached[s].head /\ w.kind = detached[s].kind
        /\ w.merge = "staged"
    BY Known, StagedTrees
  <2> HIDE DEF w
  <2>4. canonical' \in CanonicalTree BY <2>1, Known DEF Typed
  <2> QED BY <1>1, <2>1, <2>2, <2>3, <2>4, TreeBeside
<1> QED BY <1>2, <1>3

LEMMA CorrectBeside ==
  ASSUME NEW s \in Sessions, NEW f \in Fixes, IInv, Correct(s, f)
  PROVE Beside(s)
<1> DEFINE w == [detached[s] EXCEPT !.index = detached[s].index \cup {f}]
<1>1. /\ pc[s] = "idle" /\ detached[s].merge = "staged" /\ canonical' = canonical
      /\ detached' = [detached EXCEPT ![s] = w]
      /\ UNCHANGED <<branches, rec, mem, pc, advanced, evidence, lock, rest>>
  BY Known DEF Correct, Typed, DetachedTree
<1>2. f \in Change BY DEF Change
<1>3. detached[s].index \cup {f} \in SUBSET Change BY <1>2, Known DEF DetachedTree
<1>4. /\ w \in DetachedTree /\ w.head = detached[s].head /\ w.kind = detached[s].kind
      /\ w.merge = "staged"
  BY <1>1, <1>3, Known DEF DetachedTree
<1> HIDE DEF w
<1>5. canonical' \in CanonicalTree BY <1>1, Known DEF Typed
<1> QED BY <1>1, <1>4, <1>5, TreeBeside

------------------------------------------------------------------------------
(* Users, and reconcile --apply                                              *)

(* Nothing of any session changes, and the target at most goes on.           *)
LEMMA Elsewhere ==
  ASSUME IInv, Within(target, target'), target' \in Commit,
         UNCHANGED <<staging, trees, rec, mem, pc, advanced, evidence, lock,
                     made, crashes, validated>>
  PROVE TypeOK' /\ Grows /\ \A q \in Sessions : Session(q)'
<1>1. TypeOK' BY DEF IInv, TypeOK, trees, evidence
<1>2. Grows BY WithinReflexive DEF Grows
<1>3. ASSUME NEW q \in Sessions PROVE Session(q)'
  BY <1>2, BesideHolds DEF IInv, Same, trees, evidence
<1> QED BY <1>1, <1>2, <1>3

LEMMA UserCommitsKeeps ==
  ASSUME NEW u \in Users, IInv, UserCommits(u)
  PROVE IInv' /\ Grows
<1>1. /\ target' = [hist |-> target.hist \cup {u}, tree |-> target.tree \cup {u}]
      /\ UNCHANGED <<staging, trees, rec, mem, pc, advanced, evidence, lock, rest>>
  BY DEF UserCommits
<1>2. target \in Commit BY DEF IInv, TypeOK
<1>3. target' \in Commit BY <1>1, <1>2 DEF Commit, Node, Change
<1>4. Within(target, target') BY <1>1 DEF Within
<1>5. TypeOK' /\ Grows /\ \A q \in Sessions : Session(q)'
  BY <1>1, <1>3, <1>4, Elsewhere DEF rest
<1>6. Audited' BY <1>1, <1>5, AuditHolds DEF IInv, rest
<1> QED BY <1>5, <1>6 DEF IInv

(* What reconcile wants to put on the target is staging, the validated       *)
(* result of a session that says it is done.                                 *)
LEMMA AuditReadKeeps ==
  ASSUME IInv, AuditRead
  PROVE IInv' /\ Grows
<1>1. /\ Within(target, staging)
      /\ \E s \in Missing : rec[s].integrated = staging
      /\ audit' = [step |-> "promote", target |-> target, staging |-> staging,
                   copies |-> [s \in Missing |-> rec[s]]]
      /\ UNCHANGED <<branches, trees, rec, mem, pc, advanced, evidence, lock,
                     made, crashes, validated>>
  BY DEF AuditRead
<1>2. target \in Commit /\ staging \in Commit BY DEF IInv, TypeOK
<1>3. TypeOK' /\ Grows /\ \A q \in Sessions : Session(q)'
  BY <1>1, <1>2, WithinReflexive, Elsewhere DEF branches
<1>4. ASSUME NEW s \in Missing
      PROVE /\ s \in Sessions /\ rec[s] \in Record
            /\ rec[s].status \in {"succeeded", "promotion_pending"}
            /\ rec[s].integrated \in Commit /\ rec[s].integrated # None
            /\ ~Within(rec[s].integrated, target)
            /\ Sound(rec[s], validated, target)
  <2>1. s \in Sessions BY DEF Missing
  <2> QED BY <2>1, Known DEF Missing, Record
<1>5. staging.tree \in validated BY <1>1, <1>4 DEF Sound, Good
<1>6. \A s \in Missing : Sound(rec[s], validated', target')
  BY <1>1, <1>4 DEF branches
<1>7. ASSUME NEW s \in DOMAIN audit'.copies
      PROVE /\ audit'.copies[s] \in Record
            /\ audit'.copies[s].status \in {"succeeded", "promotion_pending"}
            /\ audit'.copies[s].integrated \in Commit
            /\ Sound(audit'.copies[s], validated', target')
  BY <1>1, <1>4, <1>6
<1>8. DOMAIN audit'.copies \subseteq Sessions BY <1>1, <1>4
<1>9. Audited'
  BY <1>1, <1>2, <1>5, <1>7, <1>8 DEF Audited, branches, Sound, Passed, Good, Within
<1> QED BY <1>3, <1>9 DEF IInv

LEMMA AuditPromotesKeeps ==
  ASSUME IInv, AuditPromotes
  PROVE IInv' /\ Grows /\ Tested
<1>1. /\ audit.step = "promote" /\ target \in {audit.staging, audit.target}
      /\ target' = audit.staging /\ audit' = [audit EXCEPT !.step = "save"]
      /\ UNCHANGED <<staging, trees, rec, mem, pc, advanced, evidence, lock,
                     made, crashes, validated>>
  BY DEF AuditPromotes
<1>2. /\ audit.staging \in Commit /\ Within(audit.target, audit.staging)
      /\ audit.staging.tree \in validated
  BY <1>1 DEF IInv, Audited
<1>3. Within(target, target') BY <1>1, <1>2, WithinReflexive
<1>4. TypeOK' /\ Grows /\ \A q \in Sessions : Session(q)' BY <1>1, <1>2, <1>3, Elsewhere
<1>5. audit' = [step |-> "save", target |-> audit.target, staging |-> audit.staging,
                copies |-> audit.copies]
  BY <1>1 DEF IInv, Audited
<1>6. ASSUME NEW s \in DOMAIN audit.copies
      PROVE Sound(audit.copies[s], validated', target')
  BY <1>4, SoundGrows DEF IInv, Audited, Grows
<1>7. Audited'
  BY <1>1, <1>5, <1>6 DEF IInv, Audited, Sound, Passed, Good, Within
<1> QED BY <1>1, <1>2, <1>4, <1>7 DEF IInv, Tested

LEMMA AuditBlockedKeeps ==
  ASSUME IInv, AuditBlocked
  PROVE IInv' /\ Grows
<1>1. /\ audit' = [audit EXCEPT !.step = "done"]
      /\ UNCHANGED <<branches, trees, rec, mem, pc, advanced, evidence, lock,
                     made, crashes, validated>>
  BY DEF AuditBlocked
<1>2. target \in Commit BY DEF IInv, TypeOK
<1>3. TypeOK' /\ Grows /\ \A q \in Sessions : Session(q)'
  BY <1>1, <1>2, WithinReflexive, Elsewhere DEF branches
<1>4. audit' = [step |-> "done", target |-> audit.target, staging |-> audit.staging,
                copies |-> audit.copies]
  BY <1>1 DEF IInv, Audited
<1>5. Audited'
  BY <1>1, <1>4 DEF IInv, Audited, Sound, Passed, Good, Within, branches
<1> QED BY <1>3, <1>5 DEF IInv

(* The copy it saves is older than the record it replaces, and still true.   *)
LEMMA AuditSavesKeeps ==
  ASSUME NEW s \in Sessions, IInv, AuditSaves(s)
  PROVE IInv' /\ Grows
<1> DEFINE c == audit.copies[s]
           r == [c EXCEPT !.status = "succeeded", !.phase = "none"]
           left == DOMAIN audit.copies \ {s}
           copies == [q \in left |-> audit.copies[q]]
<1>1. /\ s \in DOMAIN audit.copies /\ rec' = [rec EXCEPT ![s] = r]
      /\ audit' = [audit EXCEPT !.copies = copies, !.step = IF left = {} THEN "done" ELSE "save"]
      /\ UNCHANGED <<branches, trees, mem, pc, advanced, evidence, lock,
                     made, crashes, validated>>
  BY DEF AuditSaves
<1>2. /\ c \in Record /\ c.status \in {"succeeded", "promotion_pending"}
      /\ c.integrated \in Commit /\ Sound(c, validated, target)
  BY <1>1 DEF IInv, Audited
<1>3. /\ r \in Record /\ r.status = "succeeded" /\ r.phase = "none"
      /\ r.integrated = c.integrated
  BY <1>2 DEF Record
<1> HIDE DEF r
<1>4. Sound(r, validated, target)
  <2>1. c.integrated # None => Good(c.integrated, validated, target) BY <1>2 DEF Sound
  <2> QED BY <1>3, <2>1 DEF Sound
<1>5. TypeOK' BY <1>1, <1>3 DEF IInv, TypeOK, branches, trees, evidence
<1>6. Grows BY <1>1, WithinReflexive DEF Grows, branches
<1>7. rec'[s] = r /\ \A q \in Sessions \ {s} : rec'[q] = rec[q]
  BY <1>1, Known DEF Copies
<1>8. ASSUME NEW q \in Sessions \ {s} PROVE Session(q)'
  BY <1>1, <1>6, <1>7, BesideHolds DEF IInv, Same, branches, trees, evidence
<1>9. Kept(s)'
  <2>1. Sound(rec[s], validated, target)' /\ Sound(mem[s], validated, target)'
    BY <1>1, <1>4, <1>7, Known DEF Sound, Passed, Good, Within, branches
  <2>2. Bundle(s)'
    BY <1>1, <1>3, <1>7, Known
       DEF Bundle, Evidence, ResultKept, Within, branches, trees, evidence
  <2>3. /\ Described(r, manifest[s]) /\ Described(mem[s], manifest[s])
        /\ Ahead(r, detached[s]) /\ Ahead(mem[s], detached[s]) /\ Settled(s)
    BY <1>3, Known DEF Described, Ahead
  <2> QED BY <1>1, <1>7, <2>1, <2>2, <2>3
          DEF Kept, Described, Ahead, Settled, Within, trees, evidence
<1>10. Running(s)'
  <2>1. Running(s) /\ UNCHANGED <<staging, canonical, detached, mem, pc, validated>>
    BY <1>1, Known DEF branches, trees
  <2>2. Based(s)' <=> Based(s) BY <2>1 DEF Based, Within
  <2>3. AtValidate(s)' <=> AtValidate(s) BY <2>1, <2>2 DEF AtValidate, Worktree, Head
  <2>4. AtMerge(s)' <=> AtMerge(s) BY <2>1, <2>2 DEF AtMerge
  <2>5. AtStage(s)' <=> AtStage(s) BY <2>1 DEF AtStage, Passed, Within
  <2>6. AtPrepare(s)' <=> AtPrepare(s) BY <2>1 DEF AtPrepare
  <2>7. AtLocal(s) => AtLocal(s)' BY <1>3, <1>7, <2>1 DEF AtLocal
  <2>8. AtReconcile(s) => AtReconcile(s)' BY <2>1, <2>7 DEF AtReconcile
  <2>9. Worktree(mem[s], s)' = Worktree(mem[s], s) BY <2>1 DEF Worktree
  <2> QED BY <1>3, <1>7, <2>1, <2>3, <2>4, <2>5, <2>6, <2>7, <2>8, <2>9 DEF Running, Passed
<1>11. \A q \in Sessions : Session(q)' BY <1>8, <1>9, <1>10 DEF Session
<1>12. /\ audit' = [step |-> audit'.step, target |-> audit.target, staging |-> audit.staging,
                    copies |-> copies]
       /\ audit'.step \in {"done", "save"}
  BY <1>1 DEF IInv, Audited
<1>13. Audited'
  BY <1>1, <1>12 DEF IInv, Audited, Sound, Passed, Good, Within, branches
<1> QED BY <1>5, <1>6, <1>11, <1>13 DEF IInv

------------------------------------------------------------------------------
(* The inductive invariant holds                                             *)

LEMMA InitIInv == Init => IInv
<1> SUFFICES ASSUME Init PROVE IInv OBVIOUS
<1>1. Start \in Commit /\ Start.tree = {} BY Commits DEF Start
<1>2. FreshRecord \in Record BY DEF FreshRecord, Record
<1>3. TypeOK
  <2>1. /\ target \in Commit /\ staging \in Commit
        /\ canonical \in CanonicalTree /\ detached \in [Sessions -> DetachedTree]
    BY <1>1 DEF Init, CanonicalTree, DetachedTree, Merges
  <2>2. Copies BY <1>2 DEF Init, Copies
  <2>3. Locked BY IntegrationAssumption DEF Init, Locked, Steps
  <2>4. /\ advanced \in [Sessions -> BOOLEAN] /\ manifest \in [Sessions -> Manifest]
        /\ validated \in SUBSET SUBSET Change
    BY DEF Init, Manifest
  <2>5. made \in [Sessions -> 0 .. MaxCommits] /\ crashes \in 0 .. MaxCrashes
    BY IntegrationAssumption DEF Init
  <2> QED BY <2>1, <2>2, <2>3, <2>4, <2>5, Types
<1>4. ASSUME NEW s \in Sessions PROVE Session(s)
  <2>1. /\ rec[s] = FreshRecord /\ mem[s] = FreshRecord /\ pc[s] = "idle"
        /\ detached[s].kind = "none" /\ detached[s].merge = "none"
        /\ detached[s].index = {} /\ detached[s].head = Start
        /\ manifest[s].local = None
    BY DEF Init
  <2>2. Sound(FreshRecord, validated, target) /\ Described(FreshRecord, manifest[s])
        /\ Ahead(FreshRecord, detached[s])
    BY <2>1 DEF FreshRecord, Sound, Described, Ahead
  <2>3. Bundle(s) BY <2>1, NoneIsNoRecord DEF Bundle, Evidence
  <2>4. Settled(s) BY <1>1, <2>1 DEF Settled
  <2>5. Running(s) BY <2>1 DEF Running
  <2> QED BY <2>1, <2>2, <2>3, <2>4, <2>5 DEF Session, Kept
<1>5. Audited BY <1>1 DEF Init, Audited
<1> QED BY <1>3, <1>4, <1>5 DEF IInv

LEMMA IntegrateSteps ==
  ASSUME NEW s \in Sessions, IInv, Integrate(s)
  PROVE Step(s)
<1>1. CASE \/ NestedFails(s) \/ MergeBreaks(s) \/ CommitFails(s) \/ CheckFails(s)
  BY <1>1, StopSteps
<1>2. CASE \/ Begin(s) \/ PrepareCanonical(s) \/ PrepareIsolated(s) \/ PrepareRefused(s)
           \/ BypassWorktree(s)
  BY <1>2, BeginSteps, PrepareCanonicalSteps, PrepareIsolatedSteps, PrepareRefusedSteps,
     BypassSteps
<1>3. CASE Merge(s) \/ MergeConflicts(s) \/ NestedResolves(s) \/ ValidationPasses(s)
           \/ ValidationFails(s) \/ CommitMerge(s) \/ AdvanceStaging(s)
  BY <1>3, MergeSteps, MergeConflictsSteps, NestedResolvesSteps, ValidationPassesSteps,
     ValidationFailsSteps, CommitCanonicalSteps, CommitDetachedSteps, AdvanceStagingSteps
<1>4. CASE RecordStaged(s) \/ Promote(s) \/ PromotionBlocked(s) \/ RecordPromoted(s)
           \/ PostIntegrationPasses(s) \/ Archive(s) \/ Succeed(s)
  BY <1>4, RecordStagedSteps, PromoteSteps, PromotionBlockedSteps, RecordPromotedSteps,
     PostIntegrationSteps, ArchiveSteps, SucceedSteps
<1> QED BY <1>1, <1>2, <1>3, <1>4 DEF Integrate

LEMMA ContinueSteps ==
  ASSUME NEW s \in Sessions, IInv, Continues(s), ~RecoverOrphan(s)
  PROVE Step(s)
<1>1. CASE ReconstructStops(s) \/ LocalRefuses(s) BY <1>1, StopSteps
<1>2. CASE Resume(s) \/ Reconstruct(s) \/ ReconstructDiverges(s) \/ LocalLanded(s) \/ LocalOpens(s)
  BY <1>2, ResumeSteps, ReconstructSteps, ReconstructDivergesSteps, LocalLandedSteps,
     LocalOpensSteps
<1>3. CASE LocalContinues(s) \/ LocalResult(s) \/ LocalMerges(s) \/ LocalRetries(s)
           \/ LocalAccepts(s)
  BY <1>3, LocalContinuesSteps, LocalResultSteps, LocalMergesSteps, LocalRetriesSteps,
     LocalAcceptsSteps
<1> QED BY <1>1, <1>2, <1>3 DEF Continues

(* Every step keeps the invariant and the branches' commits, and what it     *)
(* puts on the target is a user's commit or a validated tree.                *)
UserGrows == \E u \in Users : u \in target'.hist \ target.hist /\ target'.tree = target.tree \cup {u}

LEMMA NextKeeps ==
  ASSUME IInv, [Next]_vars
  PROVE IInv' /\ Grows /\ (Tested \/ UserGrows)
<1>1. CASE UNCHANGED vars
  <2>1. target \in Commit BY DEF IInv, TypeOK
  <2>2. TypeOK' /\ Grows /\ \A q \in Sessions : Session(q)'
    BY <1>1, <2>1, WithinReflexive, Elsewhere DEF vars, trees, evidence
  <2>3. Audited' BY <1>1, <2>2, AuditHolds DEF IInv, vars
  <2> QED BY <1>1, <2>2, <2>3 DEF IInv, Tested, vars
<1>2. ASSUME NEW s \in Sessions, Integrate(s) \/ Continues(s) \/ Resolve(s) \/ Crash(s)
      PROVE IInv' /\ Grows /\ (Tested \/ UserGrows)
  <2>1. Step(s) \/ Beside(s)
    BY <1>2, IntegrateSteps, ContinueSteps, RecoverOrphanBeside, ResolveBeside, CrashSteps
  <2>2. CASE Step(s) BY <2>2, StepKeeps DEF Step
  <2>3. CASE Beside(s)
    BY <2>3, BesideKeeps, WithinReflexive DEF Beside, Grows, Tested, branches
  <2> QED BY <2>1, <2>2, <2>3
<1>3. ASSUME NEW s \in Sessions, NEW f \in Fixes, Correct(s, f)
      PROVE IInv' /\ Grows /\ (Tested \/ UserGrows)
  <2>1. Beside(s) BY <1>3, CorrectBeside
  <2> QED BY <2>1, BesideKeeps, WithinReflexive DEF Beside, Grows, Tested, branches
<1>4. ASSUME NEW u \in Users, UserCommits(u)
      PROVE IInv' /\ Grows /\ (Tested \/ UserGrows)
  BY <1>4, UserCommitsKeeps DEF UserCommits, UserGrows
<1>5. CASE Audit
  <2>1. CASE AuditPromotes BY <2>1, AuditPromotesKeeps
  <2>2. CASE AuditRead BY <2>2, AuditReadKeeps DEF AuditRead, Tested, branches
  <2>3. CASE AuditBlocked BY <2>3, AuditBlockedKeeps DEF AuditBlocked, Tested, branches
  <2>4. ASSUME NEW s \in Sessions, AuditSaves(s)
        PROVE IInv' /\ Grows /\ (Tested \/ UserGrows)
    BY <2>4, AuditSavesKeeps DEF AuditSaves, Tested, branches
  <2> QED BY <1>5, <2>1, <2>2, <2>3, <2>4 DEF Audit
<1> QED BY <1>1, <1>2, <1>3, <1>4, <1>5 DEF Next

(* What branches, records, worktrees, commands and reconcile say of each     *)
(* other (IInv) holds at every step, whatever dies and whoever commits.      *)
THEOREM Invariant == Spec => []IInv
<1>1. Init => IInv BY InitIInv
<1>2. IInv /\ [Next]_vars => IInv' BY NextKeeps
<1> QED BY <1>1, <1>2, PTL DEF Spec

(* Every variable keeps its type, and the lock is held exactly while the     *)
(* command of its session runs, whatever dies.                               *)
THEOREM TypeCorrect == Spec => []TypeOK
<1>1. IInv => TypeOK BY DEF IInv
<1> QED BY <1>1, Invariant, PTL

(* Whatever dies, moves, waits or is put back by reconcile --apply, the tree *)
(* that promotion, direct integration, local recovery or reconcile puts on   *)
(* the target has passed integration validation as it is.                    *)
THEOREM OnlyValidatedPromoted == Spec => PromotesValidated
<1>1. IInv /\ [Next]_vars =>
        [\/ target' = target
         \/ \E u \in Users : u \in target'.hist \ target.hist /\ target'.tree = target.tree \cup {u}
         \/ target'.tree \in validated]_vars
  BY NextKeeps DEF Tested, UserGrows
<1> QED BY <1>1, Invariant, PTL DEF Spec, PromotesValidated

(* Neither branch ever loses a commit.                                       *)
THEOREM NoCommitLost == Spec => HistoryKept
<1>1. IInv /\ [Next]_vars => [Within(target, target') /\ Within(staging, staging')]_vars
  BY NextKeeps DEF Grows
<1> QED BY <1>1, Invariant, PTL DEF Spec, HistoryKept

------------------------------------------------------------------------------
(* Who owns what staging has and the target has not, as long as no command   *)
(* dies and no operator runs reconcile --apply: both leave it without.       *)

(* Where staging must be for the result of a command to advance it.          *)
Goal(r) == IF r.phase = "local_target" THEN r.local.before ELSE r.conflictHead

(* A record of g as the result that waits: in a recovery, as what the        *)
(* recovery starts from or has come to.                                      *)
Owns(r, g) ==
  r.integrated = g /\ (r.phase = "local_target" => g \in {r.local.base, r.local.result})
Owner(q) == rec[q].status \in {"review", "promotion_pending"} /\ Owns(rec[q], staging)
Foreign(s) == Within(staging, target) \/ \E q \in Sessions \ {s} : Owner(q)
Has(r, t) == r.phase = "pull_request" => Within(r.integrated, t)

(* Who owns staging while the command of s is at each of its steps.          *)
Owed(s) ==
  /\ pc[s] = "idle" /\ rec[s].status = "ready" => rec[s].phase # "pull_request"
  /\ pc[s] \in {"prepare", "merge", "nested", "validate", "commit"} => mem[s].phase # "pull_request"
  /\ pc[s] = "prepare" => Within(mem[s].expected, target)
  /\ pc[s] \in {"prepare", "merge", "nested", "promoted", "post", "finish", "archived"} => Foreign(s)
  /\ pc[s] \in {"validate", "commit"} =>
       Foreign(s) \/ (Owns(mem[s], staging) /\ staging = Goal(mem[s]))
  /\ pc[s] = "stage" => Foreign(s) \/ staging = Goal(mem[s])
  /\ pc[s] = "staged" => mem[s].integrated = staging
  /\ pc[s] = "promote" => Foreign(s) \/ mem[s].integrated = staging
  /\ pc[s] \in {"promoted", "post"} => Within(mem[s].integrated, target)
  /\ pc[s] \in {"reconstruct", "local", "reconcile"} => Foreign(s) \/ Owns(mem[s], staging)
Taken(s) ==
  /\ Has(rec[s], target) /\ Has(mem[s], target)
  /\ pc[s] = "idle" => ~behind[s]
  /\ Owed(s)
Ownership ==
  /\ audit.step = "done"
  /\ lock = None => Within(staging, target) \/ \E q \in Sessions : Owner(q)
  /\ \A s \in Sessions : Taken(s)

Others(s) == \A q \in Sessions \ {s} : behind'[q] = behind[q]

LEMMA ForeignStays ==
  ASSUME NEW s \in Sessions, Foreign(s), staging' = staging, Within(target, target'),
         \A q \in Sessions \ {s} : rec'[q] = rec[q]
  PROVE Foreign(s)'
<1>1. CASE Within(staging, target) BY <1>1 DEF Foreign, Within
<1>2. CASE \E q \in Sessions \ {s} : Owner(q) BY <1>2 DEF Foreign, Owner, Owns
<1> QED BY <1>1, <1>2 DEF Foreign

LEMMA OtherStays ==
  ASSUME NEW q \in Sessions, Taken(q), Within(target, target'), pc[q] = "idle", Same(q),
         behind'[q] = behind[q]
  PROVE Taken(q)'
<1>1. Owed(q)' BY DEF Taken, Owed, Same
<1>2. Has(rec[q], target)' /\ Has(mem[q], target)' BY DEF Taken, Has, Same, Within
<1> QED BY <1>1, <1>2 DEF Taken, Same

(* The command goes on.                                                      *)
LEMMA GoesOn ==
  ASSUME NEW s \in Sessions, IInv, Ownership, Step(s), Others(s), pc'[s] # "idle", Taken(s)'
  PROVE Ownership'
<1>1. lock' = s /\ s # None BY IntegrationAssumption DEF Step, TypeOK
<1>2. \A q \in Sessions \ {s} : Taken(q)'
  BY OtherStays DEF Ownership, Step, Grows, Others
<1> QED BY <1>1, <1>2 DEF Ownership, Step

(* The command ends.                                                         *)
LEMMA Stops ==
  ASSUME NEW s \in Sessions, IInv, Ownership, Step(s), Others(s), pc'[s] = "idle", ~behind'[s],
         Has(rec'[s], target'), Has(mem'[s], target'), Foreign(s)' \/ Owner(s)',
         rec'[s].status = "ready" => rec'[s].phase # "pull_request"
  PROVE Ownership'
<1>1. \A q \in Sessions \ {s} : Taken(q)'
  BY OtherStays DEF Ownership, Step, Grows, Others
<1>2. Taken(s)' BY DEF Taken, Owed, Has, Within
<1>3. (Within(staging, target) \/ \E q \in Sessions : Owner(q))' BY DEF Foreign
<1> QED BY <1>1, <1>2, <1>3 DEF Ownership, Step

LEMMA Halts ==
  ASSUME NEW s \in Sessions, IInv, Ownership, Step(s), pc[s] # "idle",
         NEW r \in Record, Fail(s, r), staging' = staging, Has(r, target),
         Foreign(s) \/ Owns(r, staging)
  PROVE Ownership'
<1>1. /\ pc'[s] = "idle" /\ rec'[s] = Failed(r) /\ mem'[s] = Failed(r)
      /\ \A q \in Sessions \ {s} : rec'[q] = rec[q]
  BY Known, Fails
<1>2. ~behind'[s] /\ Others(s) BY Known DEF Fail, Save, Others, Copies
<1>3. Within(target, target') BY DEF Step, Grows
<1>4. Has(Failed(r), target') BY <1>3, FailedRecord DEF Has, Within
<1>5. Owns(r, staging) => Owner(s)' BY <1>1, FailedRecord DEF Owner, Owns
<1>6. Foreign(s) => Foreign(s)' BY <1>1, <1>3, ForeignStays
<1>7. Failed(r).status # "ready" BY FailedRecord
<1> QED BY <1>1, <1>2, <1>4, <1>5, <1>6, <1>7, Stops

(* What a command that knows who owns staging starts from.                   *)
LEMMA Owing ==
  ASSUME Ownership, NEW s \in Sessions
  PROVE Has(rec[s], target) /\ Has(mem[s], target) /\ Owed(s) /\ (pc[s] = "idle" => ~behind[s])
BY DEF Ownership, Taken

LEMMA StopOwned ==
  ASSUME NEW s \in Sessions, IInv, Ownership,
         \/ NestedFails(s) \/ MergeBreaks(s) \/ CommitFails(s) \/ CheckFails(s)
         \/ ReconstructStops(s) \/ LocalRefuses(s)
  PROVE Ownership'
<1>1. /\ pc[s] \in {"nested", "merge", "commit", "post", "finish", "reconstruct", "reconcile"}
      /\ Fail(s, mem[s]) /\ UNCHANGED staging
  BY DEF NestedFails, MergeBreaks, CommitFails, CheckFails, ReconstructStops, LocalRefuses, Tests,
         branches
<1>2. Foreign(s) \/ Owns(mem[s], staging) BY <1>1, Owing DEF Owed
<1>3. Step(s) BY StopSteps
<1> QED BY <1>1, <1>2, <1>3, Owing, Known, Halts

LEMMA ValidationFailsOwned ==
  ASSUME NEW s \in Sessions, IInv, Ownership, ValidationFails(s)
  PROVE Ownership'
<1>1. pc[s] = "validate" /\ UNCHANGED staging
      /\ \E f \in {mem[s].failed, (NoUnstagedChanges(Worktree(mem[s], s))
                                   /\ mem[s].phase = "local_target") \/ mem[s].failed} :
           Fail(s, [mem[s] EXCEPT !.failed = f])
  BY DEF ValidationFails, branches
<1>2. PICK f : f \in BOOLEAN /\ Fail(s, [mem[s] EXCEPT !.failed = f]) BY <1>1, Known DEF Record
<1> DEFINE r == [mem[s] EXCEPT !.failed = f]
<1>3. /\ r \in Record /\ r.phase = mem[s].phase /\ r.integrated = mem[s].integrated
      /\ r.local = mem[s].local
  BY <1>2, Known DEF Record
<1>4. Fail(s, r) BY <1>2
<1> HIDE DEF r
<1>5. Has(r, target) /\ (Foreign(s) \/ Owns(r, staging)) BY <1>1, <1>3, Owing DEF Owed, Has, Owns
<1> QED BY <1>1, <1>3, <1>4, <1>5, ValidationFailsSteps, Halts

(* The command saves a record and goes on: what the next step needs.         *)
LEMMA Saved ==
  ASSUME NEW s \in Sessions, IInv, Ownership, Step(s), NEW r \in Record, Save(s, r),
         NEW step \in Steps \ {"idle"}, Go(s, step), Has(r, target'), Owed(s)'
  PROVE Ownership'
<1>1. rec'[s] = r /\ mem'[s] = r /\ Others(s) BY Known, Saves DEF Save, Others, Copies
<1>2. pc'[s] = step BY Known DEF Go, Locked
<1>3. Taken(s)' BY <1>1, <1>2 DEF Taken, Has, Within
<1> QED BY <1>1, <1>2, <1>3, GoesOn

(* It changes at most its copy and goes on.                                  *)
LEMMA Held ==
  ASSUME NEW s \in Sessions, IInv, Ownership, Step(s), Others(s), rec' = rec, NEW r,
         mem'[s] = r, NEW step \in Steps \ {"idle"}, Go(s, step), Has(r, target'), Owed(s)'
  PROVE Ownership'
<1>1. pc'[s] = step BY Known DEF Go, Locked
<1>2. Has(rec[s], target') BY Owing DEF Step, Grows, Has, Within
<1>3. Taken(s)' BY <1>1, <1>2 DEF Taken, Has, Within
<1> QED BY <1>1, <1>3, GoesOn

LEMMA StagedOwned ==
  ASSUME NEW s \in Sessions, IInv, Ownership,
         RecordStaged(s) \/ RecordPromoted(s) \/ PostIntegrationPasses(s)
  PROVE Ownership'
<1>1. Step(s) BY RecordStagedSteps, RecordPromotedSteps, PostIntegrationSteps
<1>2. UNCHANGED branches BY DEF RecordStaged, RecordPromoted, PostIntegrationPasses
<1>3. Foreign(s) => Foreign(s)'
  BY <1>1, <1>2, ForeignStays DEF Step, Grows, Same, branches
<1>4. CASE RecordStaged(s)
  <2> DEFINE r == [mem[s] EXCEPT !.awaiting = FALSE, !.phase = "promotion"]
  <2>1. r \in Record /\ r.phase = "promotion" /\ r.integrated = mem[s].integrated
    BY Known DEF Record
  <2>2. Save(s, r) BY <1>4 DEF RecordStaged
  <2> HIDE DEF r
  <2>3. pc[s] = "staged" /\ Go(s, "promote") BY <1>4 DEF RecordStaged
  <2>4. mem'[s] = r /\ pc'[s] = "promote" BY <2>1, <2>2, <2>3, Known, Saves DEF Go, Locked
  <2>5. Owed(s)' BY <1>2, <2>1, <2>3, <2>4, Owing DEF Owed, branches
  <2> QED BY <1>1, <2>1, <2>2, <2>3, <2>5, Saved DEF Has, Steps
<1>5. CASE RecordPromoted(s)
  <2> DEFINE phase == IF advanced[s] THEN "post_integration" ELSE "pull_request"
             step == IF advanced[s] THEN "post" ELSE "finish"
             r == [mem[s] EXCEPT !.phase = phase]
  <2>1. r \in Record /\ r.phase = phase /\ r.integrated = mem[s].integrated
    BY Known DEF Record
  <2>2. Save(s, r) BY <1>5 DEF RecordPromoted
  <2> HIDE DEF r
  <2>3. pc[s] = "promoted" /\ Go(s, step) BY <1>5 DEF RecordPromoted
  <2>4. mem'[s] = r /\ pc'[s] = step BY <2>1, <2>2, <2>3, Known, Saves DEF Go, Locked
  <2>5. Foreign(s) /\ Within(mem[s].integrated, target) BY <2>3, Owing DEF Owed
  <2>6. Owed(s)' BY <1>2, <1>3, <2>1, <2>4, <2>5 DEF Owed, branches, Within
  <2>7. Has(r, target') BY <1>2, <2>1, <2>5 DEF Has, branches
  <2> QED BY <1>1, <2>1, <2>2, <2>3, <2>6, <2>7, Saved DEF Steps
<1>6. CASE PostIntegrationPasses(s)
  <2> DEFINE r == [mem[s] EXCEPT !.phase = "pull_request"]
  <2>1. r \in Record /\ r.integrated = mem[s].integrated BY Known DEF Record
  <2>2. Save(s, r) BY <1>6 DEF PostIntegrationPasses
  <2> HIDE DEF r
  <2>3. pc[s] = "post" /\ Go(s, "finish") BY <1>6 DEF PostIntegrationPasses
  <2>4. pc'[s] = "finish" BY <2>3, Known DEF Go, Locked
  <2>5. Foreign(s) /\ Within(mem[s].integrated, target) BY <2>3, Owing DEF Owed
  <2>6. Owed(s)' BY <1>3, <2>4, <2>5 DEF Owed
  <2>7. Has(r, target') BY <1>2, <2>1, <2>5 DEF Has, branches
  <2> QED BY <1>1, <2>1, <2>2, <2>3, <2>6, <2>7, Saved DEF Steps
<1> QED BY <1>4, <1>5, <1>6

LEMMA PrepareRefusedOwned ==
  ASSUME NEW s \in Sessions, IInv, Ownership, PrepareRefused(s)
  PROVE Ownership'
<1>1. /\ pc[s] = "prepare" /\ Save(s, mem[s]) /\ Leave(s) /\ UNCHANGED branches
  BY DEF PrepareRefused
<1>2. Step(s) BY PrepareRefusedSteps
<1>3. rec'[s] = mem[s] /\ mem'[s] = mem[s] /\ ~behind'[s] /\ Others(s)
  BY <1>1, Known, Saves DEF Save, Others, Copies
<1>4. pc'[s] = "idle" BY <1>1, Known, Leaves
<1>5. Foreign(s) /\ mem[s].phase # "pull_request" BY <1>1, Owing DEF Owed
<1>6. Foreign(s)' BY <1>1, <1>2, <1>5, ForeignStays DEF Step, Grows, Same, branches
<1> QED BY <1>2, <1>3, <1>4, <1>5, <1>6, Stops DEF Has

(* The target did not take the result: the record says that it waits.        *)
LEMMA PromotionBlockedOwned ==
  ASSUME NEW s \in Sessions, IInv, Ownership, PromotionBlocked(s)
  PROVE Ownership'
<1> DEFINE r == [mem[s] EXCEPT !.status = "promotion_pending", !.phase = "promotion"]
<1>1. /\ r \in Record /\ r.phase = "promotion" /\ r.status = "promotion_pending"
      /\ r.integrated = mem[s].integrated
  BY Known DEF Record
<1>2. Save(s, r) BY DEF PromotionBlocked
<1> HIDE DEF r
<1>3. pc[s] = "promote" /\ Leave(s) /\ UNCHANGED branches BY DEF PromotionBlocked
<1>4. Step(s) BY PromotionBlockedSteps
<1>5. rec'[s] = r /\ mem'[s] = r /\ ~behind'[s] /\ Others(s)
  BY <1>1, <1>2, Known, Saves DEF Save, Others, Copies
<1>6. pc'[s] = "idle" BY <1>3, Known, Leaves
<1>7. Foreign(s) => Foreign(s)' BY <1>3, <1>4, ForeignStays DEF Step, Grows, Same, branches
<1>8. mem[s].integrated = staging => Owner(s)'
  BY <1>1, <1>3, <1>5 DEF Owner, Owns, branches
<1>9. Foreign(s) \/ mem[s].integrated = staging BY <1>3, Owing DEF Owed
<1> QED BY <1>1, <1>4, <1>5, <1>6, <1>7, <1>8, <1>9, Stops DEF Has

LEMMA SucceedOwned ==
  ASSUME NEW s \in Sessions, IInv, Ownership, Succeed(s)
  PROVE Ownership'
<1> DEFINE r == [mem[s] EXCEPT !.status = "succeeded", !.phase = "none"]
<1>1. r \in Record /\ r.phase = "none" /\ r.status = "succeeded" BY Known DEF Record
<1>2. Save(s, r) BY DEF Succeed
<1> HIDE DEF r
<1>3. pc[s] = "archived" /\ Leave(s) /\ UNCHANGED branches BY DEF Succeed
<1>4. Step(s) BY SucceedSteps
<1>5. rec'[s] = r /\ mem'[s] = r /\ ~behind'[s] /\ Others(s)
  BY <1>1, <1>2, Known, Saves DEF Save, Others, Copies
<1>6. pc'[s] = "idle" BY <1>3, Known, Leaves
<1>7. Foreign(s) BY <1>3, Owing DEF Owed
<1>8. Foreign(s)' BY <1>3, <1>4, <1>7, ForeignStays DEF Step, Grows, Same, branches
<1> QED BY <1>1, <1>4, <1>5, <1>6, <1>8, Stops DEF Has

LEMMA ArchiveOwned ==
  ASSUME NEW s \in Sessions, IInv, Ownership, Archive(s)
  PROVE Ownership'
<1>1. /\ pc[s] = "finish" /\ Go(s, "archived") /\ Append(s, manifest[s])
      /\ UNCHANGED <<branches, rec, mem>>
  BY DEF Archive
<1>2. Step(s) BY ArchiveSteps
<1>3. Others(s) BY <1>1, Known DEF Append, Others, Copies
<1>4. Foreign(s) BY <1>1, Owing DEF Owed
<1>5. Foreign(s)' BY <1>1, <1>2, <1>4, ForeignStays DEF Step, Grows, branches
<1>6. pc'[s] = "archived" BY <1>1, Known DEF Go, Locked
<1>7. Owed(s)' BY <1>5, <1>6 DEF Owed
<1> QED BY <1>1, <1>2, <1>3, <1>7, Owing, Held DEF Steps, branches

(* The target is the result.                                                 *)
LEMMA PromoteOwned ==
  ASSUME NEW s \in Sessions, IInv, Ownership, Promote(s)
  PROVE Ownership'
<1>1. /\ pc[s] = "promote" /\ Go(s, "promoted") /\ target' = mem[s].integrated
      /\ UNCHANGED <<staging, rec, mem, behind>>
  BY DEF Promote, evidence
<1>2. Step(s) /\ Within(target, target') BY PromoteSteps DEF Step, Grows
<1>3. Foreign(s) \/ mem[s].integrated = staging BY <1>1, Owing DEF Owed
<1>4. Foreign(s) => Foreign(s)' BY <1>1, <1>2, ForeignStays
<1>5. mem[s].integrated = staging => Foreign(s)' BY <1>1, WithinReflexive DEF Foreign, Within
<1>6. pc'[s] = "promoted" BY <1>1, Known DEF Go, Locked
<1>7. Within(mem[s].integrated, target)' BY <1>1, WithinReflexive DEF Within
<1>8. Owed(s)' BY <1>3, <1>4, <1>5, <1>6, <1>7 DEF Owed
<1>9. Has(mem[s], target') BY <1>2, Owing DEF Has, Within
<1> QED BY <1>1, <1>2, <1>8, <1>9, Held DEF Steps, Others

LEMMA BeginOwned ==
  ASSUME NEW s \in Sessions, IInv, Ownership, Begin(s)
  PROVE Ownership'
<1> DEFINE place == IF rec[s].where # "none" THEN rec[s].where
                    ELSE IF canonical.there /\ ~Clean(canonical, staging)
                         THEN "isolated" ELSE "canonical"
           r == [rec[s] EXCEPT !.expected = target, !.where = place]
<1>1. /\ pc[s] = "idle" /\ lock = None /\ rec[s].status = "ready" /\ Go(s, "prepare")
      /\ UNCHANGED branches
  BY DEF Begin
<1>2. Step(s) BY BeginSteps
<1>3. target \in Commit BY Known DEF Typed
<1>4. r \in Record /\ r.expected = target /\ r.phase = rec[s].phase
  BY <1>1, <1>3, Known DEF Record, Ahead
<1>5. Save(s, r) BY DEF Begin
<1> HIDE DEF r
<1>6. Foreign(s) BY <1>1 DEF Ownership, Foreign, Owner
<1>7. Foreign(s)' BY <1>1, <1>2, <1>6, ForeignStays DEF Step, Grows, Same, branches
<1>8. mem'[s] = r BY <1>4, <1>5, Known, Saves
<1>9. pc'[s] = "prepare" BY <1>1, Known DEF Go, Locked
<1>10. r.phase # "pull_request" BY <1>1, <1>4, Owing DEF Owed
<1>11. Owed(s)' BY <1>1, <1>4, <1>7, <1>8, <1>9, <1>10, WithinReflexive DEF Owed, branches, Within
<1> QED BY <1>1, <1>2, <1>4, <1>5, <1>10, <1>11, Saved DEF Steps, Has

LEMMA PrepareOwned ==
  ASSUME NEW s \in Sessions, IInv, Ownership, PrepareCanonical(s) \/ PrepareIsolated(s)
  PROVE Ownership'
<1>1. Step(s) BY PrepareCanonicalSteps, PrepareIsolatedSteps
<1>2. /\ pc[s] = "prepare" /\ Go(s, "merge") /\ target' = target
  BY DEF PrepareCanonical, PrepareIsolated, branches
<1>3. pc'[s] = "merge" BY <1>2, Known DEF Go, Locked
<1>4. Foreign(s) /\ Within(mem[s].expected, target) /\ mem[s].phase # "pull_request"
  BY <1>2, Owing DEF Owed
<1>5. CASE PrepareCanonical(s)
  <2>1. staging' = mem[s].expected /\ UNCHANGED <<rec, mem, behind>>
    BY <1>5 DEF PrepareCanonical, evidence
  <2>2. Foreign(s)' BY <1>2, <1>4, <2>1 DEF Foreign, Within
  <2>3. Owed(s)' BY <1>3, <1>4, <2>1, <2>2 DEF Owed
  <2> QED BY <1>1, <1>2, <1>4, <2>1, <2>3, Held DEF Steps, Others, Has
<1>6. CASE PrepareIsolated(s)
  <2>1. staging' = staging BY <1>6 DEF PrepareIsolated, branches
  <2>2. Foreign(s)' BY <1>1, <1>4, <2>1, ForeignStays DEF Step, Grows, Same
  <2> DEFINE r == [mem[s] EXCEPT !.conflictHead = staging]
  <2>3. Save(s, r) \/ UNCHANGED <<rec, mem, behind>> BY <1>6 DEF PrepareIsolated
  <2>4. r \in Record /\ r.phase = mem[s].phase BY Known DEF Record, Typed
  <2> HIDE DEF r
  <2>5. CASE Save(s, r)
    <3>1. mem'[s] = r BY <2>4, <2>5, Known, Saves
    <3>2. Owed(s)' BY <1>3, <1>4, <2>2, <2>4, <3>1 DEF Owed
    <3> QED BY <1>1, <1>2, <1>4, <2>4, <2>5, <3>2, Saved DEF Steps, Has
  <2>6. CASE UNCHANGED <<rec, mem, behind>>
    <3>1. Owed(s)' BY <1>3, <1>4, <2>2, <2>6 DEF Owed
    <3> QED BY <1>1, <1>2, <1>4, <2>6, <3>1, Held DEF Steps, Others, Has
  <2> QED BY <2>3, <2>5, <2>6
<1> QED BY <1>5, <1>6

LEMMA BypassOwned ==
  ASSUME NEW s \in Sessions, IInv, Ownership, BypassWorktree(s)
  PROVE Ownership'
<1> DEFINE from == mem[s].expected
           commit == IF Within(from, Source(s)) THEN Source(s)
                     ELSE NewCommit(s, from, Source(s), from.tree \cup {s})
           r == [mem[s] EXCEPT !.integrated = commit, !.awaiting = FALSE]
<1>1. /\ pc[s] = "prepare" /\ Go(s, "staged") /\ staging' = commit /\ Keep(s, r)
      /\ Append(s, [manifest[s] EXCEPT !.empty = FALSE])
  BY DEF BypassWorktree
<1>2. Step(s) BY BypassSteps
<1> HIDE DEF commit
<1>3. r.integrated = commit /\ r.phase = mem[s].phase BY Known DEF Record
<1> HIDE DEF r
<1>4. mem'[s] = r /\ rec' = rec BY <1>1, Known DEF Keep, Copies
<1>5. Others(s) BY <1>1, Known DEF Append, Others, Copies
<1>6. pc'[s] = "staged" BY <1>1, Known DEF Go, Locked
<1>7. mem[s].phase # "pull_request" BY <1>1, Owing DEF Owed
<1>8. Owed(s)' BY <1>1, <1>3, <1>4, <1>6 DEF Owed
<1> QED BY <1>1, <1>2, <1>3, <1>4, <1>5, <1>7, <1>8, Held DEF Steps, Has

(* Between the merge and the commit nothing but the worktree and the bundle  *)
(* change: who owns staging does not.                                        *)
LEMMA MergeOwned ==
  ASSUME NEW s \in Sessions, IInv, Ownership, Merge(s) \/ NestedResolves(s)
  PROVE Ownership'
<1>1. Step(s) BY MergeSteps, NestedResolvesSteps
<1>2. /\ pc[s] \in {"merge", "nested"} /\ Go(s, "validate") /\ UNCHANGED <<branches, rec, mem>>
      /\ \E m : Append(s, m)
  BY DEF Merge, NestedResolves
<1>3. Others(s) BY <1>2, Known DEF Append, Others, Copies
<1>4. Foreign(s) /\ mem[s].phase # "pull_request" BY <1>2, Owing DEF Owed
<1>5. Foreign(s)' BY <1>1, <1>2, <1>4, ForeignStays DEF Step, Grows, branches
<1>6. pc'[s] = "validate" BY <1>2, Known DEF Go, Locked
<1>7. Owed(s)' BY <1>2, <1>4, <1>5, <1>6 DEF Owed
<1> QED BY <1>1, <1>2, <1>3, <1>4, <1>7, Held DEF Steps, Has

LEMMA MergeConflictsOwned ==
  ASSUME NEW s \in Sessions, IInv, Ownership, MergeConflicts(s)
  PROVE Ownership'
<1> DEFINE head == Head(mem[s], s)
           r == [mem[s] EXCEPT !.awaiting = TRUE, !.conflictHead = head]
<1>1. /\ pc[s] = "merge" /\ UNCHANGED branches
      /\ \/ Save(s, r) /\ Go(s, "nested")
         \/ Fail(s, r)
  BY DEF MergeConflicts
<1>2. Step(s) BY MergeConflictsSteps
<1>3. head \in Commit BY Known, Worktrees
<1>4. r \in Record /\ r.phase = mem[s].phase BY <1>3, Known DEF Record
<1> HIDE DEF head, r
<1>5. Foreign(s) /\ mem[s].phase # "pull_request" BY <1>1, Owing DEF Owed
<1>6. CASE Save(s, r) /\ Go(s, "nested")
  <2>1. mem'[s] = r BY <1>4, <1>6, Known, Saves
  <2>2. Foreign(s)' BY <1>1, <1>2, <1>5, ForeignStays DEF Step, Grows, Same, branches
  <2>3. pc'[s] = "nested" BY <1>6, Known DEF Go, Locked
  <2>4. Owed(s)' BY <1>4, <1>5, <2>1, <2>2, <2>3 DEF Owed
  <2> QED BY <1>2, <1>4, <1>5, <1>6, <2>4, Saved DEF Steps, Has
<1>7. CASE Fail(s, r)
  BY <1>1, <1>2, <1>4, <1>5, <1>7, Halts DEF Has, branches
<1> QED BY <1>1, <1>6, <1>7

LEMMA ValidationPassesOwned ==
  ASSUME NEW s \in Sessions, IInv, Ownership, ValidationPasses(s)
  PROVE Ownership'
<1> DEFINE r == [mem[s] EXCEPT !.failed = FALSE]
<1>1. /\ pc[s] = "validate" /\ Go(s, "commit") /\ Keep(s, r) /\ UNCHANGED branches
      /\ \E m : Append(s, m)
  BY DEF ValidationPasses
<1>2. Step(s) BY ValidationPassesSteps
<1>3. /\ r.phase = mem[s].phase /\ r.integrated = mem[s].integrated /\ r.local = mem[s].local
      /\ r.conflictHead = mem[s].conflictHead
  BY Known DEF Record
<1> HIDE DEF r
<1>4. mem'[s] = r /\ rec' = rec BY <1>1, Known DEF Keep, Copies
<1>5. Others(s) BY <1>1, Known DEF Append, Others, Copies
<1>6. pc'[s] = "commit" BY <1>1, Known DEF Go, Locked
<1>7. Foreign(s) => Foreign(s)' BY <1>1, <1>2, <1>4, ForeignStays DEF Step, Grows, branches
<1>8. mem[s].phase # "pull_request" BY <1>1, Owing DEF Owed
<1>9. (Owns(mem[s], staging) /\ staging = Goal(mem[s])) <=> (Owns(mem[s], staging) /\ staging = Goal(mem[s]))'
  BY <1>1, <1>3, <1>4 DEF Owns, Goal, branches
<1>10. Owed(s)' BY <1>1, <1>3, <1>4, <1>6, <1>7, <1>8, <1>9, Owing DEF Owed
<1> QED BY <1>1, <1>2, <1>3, <1>4, <1>5, <1>8, <1>10, Held DEF Steps, Has

(* The commit is on staging, or where staging goes next.                     *)
LEMMA CommitOwned ==
  ASSUME NEW s \in Sessions, IInv, Ownership, CommitMerge(s)
  PROVE Ownership'
<1> DEFINE w == Worktree(mem[s], s)
           head == Head(mem[s], s)
           other == IF mem[s].phase = "local_target" THEN mem[s].local.target ELSE Source(s)
           merging == w.merge # "none"
           result == IF merging THEN NewCommit(s, head, other, w.index) ELSE head
           r == [mem[s] EXCEPT !.integrated = result]
           k == [r EXCEPT !.local.result = result]
           step == IF mem[s].where = "canonical" THEN "staged" ELSE "stage"
<1>1. /\ pc[s] = "commit"
      /\ merging => made[s] < MaxCommits
      /\ Go(s, step) /\ UNCHANGED target
      /\ IF mem[s].where = "canonical" THEN staging' = result ELSE staging' = staging
  BY DEF CommitMerge
<1>2. CommitParts(s, result) BY <1>1, Committing
<1>3. IF mem[s].phase = "local_target" THEN Save(s, k) ELSE Keep(s, r) /\ Append(s, manifest[s])
  BY DEF CommitMerge
<1> HIDE DEF result
<1>4. Step(s) BY CommitCanonicalSteps, CommitDetachedSteps
<1>5. mem[s].phase # "pull_request" BY <1>1, Owing DEF Owed
<1>6. pc'[s] = step BY <1>1, Known DEF Go, Locked
<1>7. /\ r \in Record /\ r.integrated = result /\ r.phase = mem[s].phase /\ r.local = mem[s].local
      /\ r.conflictHead = mem[s].conflictHead
  BY <1>2, Known DEF Record, CommitParts
<1>8. ASSUME NEW x, mem'[s] = x, x.integrated = result, Goal(x) = Goal(mem[s]),
             \A q \in Sessions \ {s} : rec'[q] = rec[q]
      PROVE Owed(s)'
  <2>1. CASE mem[s].where = "canonical" BY <1>1, <1>6, <1>8, <2>1 DEF Owed
  <2>2. CASE mem[s].where # "canonical"
    <3>1. Foreign(s) => Foreign(s)' BY <1>1, <1>4, <1>8, <2>2, ForeignStays DEF Step, Grows
    <3>2. Foreign(s) \/ staging = Goal(mem[s]) BY <1>1, Owing DEF Owed
    <3>3. Goal(mem[s])' = Goal(mem[s]) BY <1>8 DEF Goal
    <3> QED BY <1>1, <1>6, <2>2, <3>1, <3>2, <3>3 DEF Owed
  <2> QED BY <2>1, <2>2
<1>9. step \in Steps \ {"idle"} BY DEF Steps
<1> HIDE DEF r, step
<1>10. CASE mem[s].phase = "local_target"
  <2>1. mem[s].local \in Recovery BY <1>10, InRecovery
  <2> DEFINE l == [r.local EXCEPT !.result = result]
  <2>2. l \in Recovery /\ l.before = mem[s].local.before
    BY <1>2, <1>7, <2>1 DEF Recovery, CommitParts
  <2>3. k = [r EXCEPT !.local = l] BY <1>7 DEF Record
  <2> HIDE DEF l, k
  <2>4. k \in Record /\ k.integrated = result /\ k.phase = "local_target" /\ k.local = l
    BY <1>7, <1>10, <2>2, <2>3 DEF Record
  <2>5. Goal(k) = Goal(mem[s]) BY <1>10, <2>2, <2>4 DEF Goal
  <2>6. mem'[s] = k /\ \A q \in Sessions \ {s} : rec'[q] = rec[q]
    BY <1>3, <1>10, <2>4, Known, Saves DEF Untouched
  <2>7. Owed(s)' BY <1>8, <2>4, <2>5, <2>6
  <2> QED BY <1>1, <1>3, <1>4, <1>9, <1>10, <2>4, <2>7, Saved DEF Has
<1>11. CASE mem[s].phase # "local_target"
  <2>1. mem'[s] = r /\ rec' = rec /\ Others(s)
    BY <1>3, <1>11, Known DEF Keep, Append, Others, Copies
  <2>2. Goal(r) = Goal(mem[s]) BY <1>7, <1>11 DEF Goal
  <2>3. Owed(s)' BY <1>7, <1>8, <2>1, <2>2
  <2> QED BY <1>1, <1>4, <1>5, <1>7, <1>9, <2>1, <2>3, Held DEF Has
<1> QED BY <1>10, <1>11

LEMMA AdvanceStagingOwned ==
  ASSUME NEW s \in Sessions, IInv, Ownership, AdvanceStaging(s)
  PROVE Ownership'
<1>1. /\ pc[s] = "stage" /\ target' = target
      /\ \/ /\ staging = Goal(mem[s]) /\ staging' = mem[s].integrated /\ Go(s, "staged")
            /\ UNCHANGED <<rec, mem, behind>>
         \/ Fail(s, mem[s]) /\ UNCHANGED staging /\ staging # Goal(mem[s])
  BY DEF AdvanceStaging, Goal
<1>2. Step(s) BY AdvanceStagingSteps
<1>3. Foreign(s) \/ staging = Goal(mem[s]) BY <1>1, Owing DEF Owed
<1>4. CASE /\ staging' = mem[s].integrated /\ Go(s, "staged") /\ UNCHANGED <<rec, mem, behind>>
  <2>1. pc'[s] = "staged" BY <1>4, Known DEF Go, Locked
  <2>2. Owed(s)' BY <1>4, <2>1 DEF Owed
  <2> QED BY <1>1, <1>2, <1>4, <2>2, Owing, Held DEF Steps, Others
<1>5. CASE Fail(s, mem[s]) /\ UNCHANGED staging /\ staging # Goal(mem[s])
  BY <1>1, <1>2, <1>3, <1>5, Owing, Known, Halts
<1> QED BY <1>1, <1>4, <1>5

(* No hash is behind once a command has ended in order: the record is read   *)
(* as it is, and it may be the owner.                                        *)
LEMMA ResumeOwned ==
  ASSUME NEW s \in Sessions, IInv, Ownership, Resume(s)
  PROVE Ownership'
<1> DEFINE step == IF TargetMoved(rec[s]) THEN "local" ELSE "reconstruct"
<1>1. pc[s] = "idle" /\ ~behind[s] BY Owing DEF Resume
<1>2. Verified(s) = rec[s] BY <1>1 DEF Verified
<1>3. /\ lock = None /\ Go(s, step) /\ Keep(s, rec[s])
      /\ rec[s].status \in {"review", "promotion_pending"}
      /\ UNCHANGED <<branches, behind>>
  BY <1>2 DEF Resume, evidence
<1>4. Step(s) BY ResumeSteps
<1>5. mem'[s] = rec[s] /\ rec' = rec BY <1>3, Known DEF Keep, Copies
<1>6. Foreign(s) \/ Owns(rec[s], staging) BY <1>3 DEF Ownership, Foreign, Owner
<1>7. Foreign(s) => Foreign(s)' BY <1>3, <1>4, <1>5, ForeignStays DEF Step, Grows, branches
<1>8. Owns(rec[s], staging) => Owns(mem[s], staging)' BY <1>3, <1>5 DEF Owns, branches
<1>9. pc'[s] = step BY <1>3, Known DEF Go, Locked
<1>10. Owed(s)' BY <1>6, <1>7, <1>8, <1>9 DEF Owed
<1>11. step \in Steps \ {"idle"} BY DEF Steps
<1> HIDE DEF step
<1> QED BY <1>3, <1>4, <1>5, <1>10, <1>11, Owing, Held DEF Others, branches

LEMMA ReconstructOwned ==
  ASSUME NEW s \in Sessions, IInv, Ownership, Reconstruct(s)
  PROVE Ownership'
<1> DEFINE m == Imported(s)
           head == IF m.empty THEN target ELSE staging
           w == IF Remerges(m) THEN MergeInto(Fresh(head), head, Source(s))
                ELSE Reread(m.merged.tree, head)
           expected == IF m.empty \/ (m.merged # None /\ Remerges(m)) THEN target
                       ELSE mem[s].expected
           waits == mem[s].awaiting \/ w.merge = "open"
           r == [mem[s] EXCEPT !.where = "recovery", !.conflictHead = head,
                   !.expected = expected, !.awaiting = waits]
<1>1. pc[s] = "reconstruct" /\ staging' = head /\ UNCHANGED target BY DEF Reconstruct
<1>2. Continue(s, r, w)
  <2>1. expected = IF m.empty \/ (m.merged # None /\ Remerges(m)) THEN target
                   ELSE mem[s].expected
    OBVIOUS
  <2> QED BY Known DEF Reconstruct, Record
<1>3. Step(s) BY ReconstructSteps
<1>4. mem[s].phase # "local_target" BY <1>1, Known DEF Running
<1>5. (m.empty => head = target) /\ (~m.empty => head = staging) OBVIOUS
<1> HIDE DEF m
<1>6. head \in Commit /\ expected \in Commit \cup {None} BY Known DEF Typed, Record
<1>7. waits \in BOOLEAN OBVIOUS
<1> HIDE DEF head, expected, waits
<1>8. /\ r \in Record /\ r.phase = mem[s].phase /\ r.integrated = mem[s].integrated
      /\ r.local = mem[s].local /\ r.conflictHead = head
  BY <1>6, <1>7, Known DEF Record
<1> HIDE DEF r, w
<1>9. Has(r, target') BY <1>1, <1>8, Owing DEF Has
<1>10. \A q \in Sessions \ {s} : rec'[q] = rec[q] BY <1>3 DEF Step, Same
<1>11. Foreign(s) => Foreign(s)'
  <2>1. CASE staging' = target BY <1>1, <2>1, WithinReflexive DEF Foreign, Within
  <2>2. CASE staging' = staging BY <1>1, <1>3, <1>10, <2>2, ForeignStays DEF Step, Grows
  <2> QED BY <1>1, <1>5, <2>1, <2>2
<1>12. Foreign(s)' \/ (staging' = staging /\ mem[s].integrated = staging)
  <2>1. CASE staging' = target BY <1>1, <2>1, WithinReflexive DEF Foreign, Within
  <2>2. CASE staging' = staging
    <3>1. Foreign(s) \/ mem[s].integrated = staging BY <1>1, Owing DEF Owed, Owns
    <3> QED BY <1>11, <2>2, <3>1
  <2> QED BY <1>1, <1>5, <2>1, <2>2
<1>13. CASE r.phase = "pull_request"
  <2>1. Save(s, r) /\ Go(s, "finish") BY <1>2, <1>13 DEF Continue
  <2>2. pc'[s] = "finish" BY <2>1, Known DEF Go, Locked
  <2>3. Within(mem[s].integrated, target) BY <1>8, <1>13, Owing DEF Has
  <2>4. Foreign(s)' BY <1>1, <1>12, <2>3 DEF Foreign, Within
  <2>5. Owed(s)' BY <2>2, <2>4 DEF Owed
  <2> QED BY <1>3, <1>8, <1>9, <2>1, <2>5, Saved DEF Steps
<1>14. CASE r.phase \in {"promotion", "post_integration"}
  <2> DEFINE p == [r EXCEPT !.phase = "promotion"]
  <2>1. Save(s, p) /\ Go(s, "promote") BY <1>2, <1>14 DEF Continue
  <2>2. p \in Record /\ p.phase = "promotion" /\ p.integrated = r.integrated
    BY <1>8 DEF Record
  <2> HIDE DEF p
  <2>3. pc'[s] = "promote" /\ mem'[s] = p BY <2>1, <2>2, Known, Saves DEF Go, Locked
  <2>4. Owed(s)' BY <1>8, <1>12, <2>2, <2>3 DEF Owed
  <2> QED BY <1>3, <2>1, <2>2, <2>4, Saved DEF Steps, Has
<1>15. CASE r.phase \notin {"pull_request", "promotion", "post_integration"}
  <2>1. \/ Save(s, r) /\ Go(s, "validate")
        \/ Fail(s, r)
    BY <1>2, <1>15 DEF Continue
  <2>2. CASE Save(s, r) /\ Go(s, "validate")
    <3>1. pc'[s] = "validate" /\ mem'[s] = r BY <1>8, <2>2, Known, Saves DEF Go, Locked
    <3>2. staging' = Goal(r) BY <1>1, <1>4, <1>8 DEF Goal
    <3>3. Foreign(s)' \/ Owns(r, staging') BY <1>4, <1>8, <1>12 DEF Owns
    <3>4. /\ staging' = Goal(r) <=> (staging = Goal(mem[s]))'
          /\ Owns(r, staging') <=> Owns(mem[s], staging)'
      BY <3>1 DEF Goal, Owns
    <3>5. Owed(s)' BY <1>15, <3>1, <3>2, <3>3, <3>4 DEF Owed
    <3> QED BY <1>3, <1>8, <1>9, <2>2, <3>5, Saved DEF Steps
  <2>3. CASE Fail(s, r)
    <3>1. pc[s] # "idle" BY <1>1
    <3>2. pc'[s] = "idle" /\ rec'[s] = Failed(r) /\ mem'[s] = Failed(r)
      BY <1>8, <2>3, <3>1, Known, Fails
    <3>3. ~behind'[s] /\ Others(s) BY <2>3, Known DEF Fail, Save, Others, Copies
    <3>4. Failed(r).status # "ready" /\ Has(Failed(r), target') BY <1>8, <1>9, FailedRecord DEF Has
    <3>5. staging' = staging /\ mem[s].integrated = staging => Owner(s)'
      BY <1>4, <1>8, <3>2, FailedRecord DEF Owner, Owns
    <3> QED BY <1>3, <1>12, <3>2, <3>3, <3>4, <3>5, Stops
  <2> QED BY <2>1, <2>2, <2>3
<1> QED BY <1>13, <1>14, <1>15

LEMMA ReconstructDivergesOwned ==
  ASSUME NEW s \in Sessions, IInv, Ownership, ReconstructDiverges(s)
  PROVE Ownership'
<1> DEFINE r == [mem[s] EXCEPT !.where = "recovery", !.conflictHead = staging]
<1>1. pc[s] = "reconstruct" /\ Fail(s, r) /\ UNCHANGED branches BY DEF ReconstructDiverges
<1>2. Step(s) BY ReconstructDivergesSteps
<1>3. /\ r \in Record /\ r.phase = mem[s].phase /\ r.integrated = mem[s].integrated
      /\ r.local = mem[s].local
  BY Known DEF Record, Typed
<1> HIDE DEF r
<1>4. Has(r, target) /\ (Foreign(s) \/ Owns(r, staging)) BY <1>1, <1>3, Owing DEF Owed, Has, Owns
<1> QED BY <1>1, <1>2, <1>3, <1>4, Halts DEF branches

------------------------------------------------------------------------------
(* The recovery of a local target                                            *)

(* Another promotion delivered the result: nothing waits for this session.   *)
LEMMA LocalLandedOwned ==
  ASSUME NEW s \in Sessions, IInv, Ownership, LocalLanded(s)
  PROVE Ownership'
<1> DEFINE l == mem[s].local
           r == [mem[s] EXCEPT !.integrated = l.base, !.expected = l.target,
                   !.local = None, !.awaiting = FALSE, !.failed = FALSE, !.phase = "pull_request"]
<1>1. /\ pc[s] = "local" /\ Go(s, "finish") /\ UNCHANGED branches
      /\ Save(s, r)
      /\ mem[s].phase = "local_target" /\ staging # l.result /\ Within(l.base, target)
  BY DEF LocalLanded, Landed, StagingMoved
<1>2. Step(s) BY LocalLandedSteps
<1>3. l.base \in Commit /\ l.target \in Commit BY <1>1, InRecovery DEF Recovery
<1>4. r \in Record /\ r.integrated = l.base BY <1>3, Known DEF Record
<1> HIDE DEF r
<1>5. Foreign(s) BY <1>1, Owing DEF Owed, Owns, Foreign
<1>6. Foreign(s)' BY <1>1, <1>2, <1>5, ForeignStays DEF Step, Grows, Same, branches
<1>7. pc'[s] = "finish" BY <1>1, Known DEF Go, Locked
<1>8. Owed(s)' BY <1>6, <1>7 DEF Owed
<1> QED BY <1>1, <1>2, <1>4, <1>8, Saved DEF Steps, Has, branches

LEMMA LocalOpensOwned ==
  ASSUME NEW s \in Sessions, IInv, Ownership, LocalOpens(s)
  PROVE Ownership'
<1> DEFINE again == Restarts(mem[s])
           base == IF again THEN mem[s].local.base ELSE mem[s].integrated
           from == IF again THEN mem[s].local.target ELSE mem[s].expected
           waits == mem[s].awaiting /\ ~again
           fails == mem[s].failed /\ ~again
           st == [base |-> base, target |-> target, before |-> staging,
                  resolved |-> None, result |-> None]
           r == [mem[s] EXCEPT !.status = "review", !.phase = "local_target", !.local = st,
                   !.integrated = base, !.expected = from, !.where = "local",
                   !.conflictHead = base, !.awaiting = waits, !.failed = fails]
<1>1. pc[s] = "local" /\ Opens(mem[s]) /\ Go(s, "reconcile") /\ UNCHANGED branches
  BY DEF LocalOpens
<1>2. Save(s, r) BY Known DEF LocalOpens, Record
<1>3. Step(s) BY LocalOpensSteps
<1>4. AtLocal(s) BY <1>1, Known DEF Running
<1>5. again => mem[s].phase = "local_target" /\ mem[s].local \in Recovery
  BY InRecovery DEF Restarts, StagingMoved
<1>6. ~again => mem[s].integrated \in Commit BY <1>1, <1>4 DEF Opens, AtLocal
<1>7. base \in Commit /\ from \in Commit \cup {None} /\ waits \in BOOLEAN /\ fails \in BOOLEAN
  BY <1>5, <1>6, Known DEF Recovery, Record
<1>8. Owns(mem[s], staging) => base = staging
  BY <1>5 DEF Owns, Restarts, StagingMoved
<1> HIDE DEF base, from, waits, fails, again
<1>9. st \in Recovery /\ st.base = base BY <1>7, Known DEF Recovery, Typed
<1> HIDE DEF st
<1>10. /\ r \in Record /\ r.phase = "local_target" /\ r.local = st /\ r.integrated = base
  BY <1>7, <1>9, Known DEF Record
<1> HIDE DEF r
<1>11. mem'[s] = r BY <1>2, <1>10, Known, Saves
<1>12. Foreign(s) => Foreign(s)' BY <1>1, <1>3, ForeignStays DEF Step, Grows, Same, branches
<1>13. Owns(mem[s], staging) => Owns(mem[s], staging)'
  BY <1>1, <1>8, <1>9, <1>10, <1>11 DEF Owns, branches
<1>14. pc'[s] = "reconcile" BY <1>1, Known DEF Go, Locked
<1>15. Owed(s)' BY <1>1, <1>12, <1>13, <1>14, Owing DEF Owed
<1> QED BY <1>1, <1>2, <1>3, <1>10, <1>15, Saved DEF Steps, Has

LEMMA LocalContinuesOwned ==
  ASSUME NEW s \in Sessions, IInv, Ownership, LocalContinues(s)
  PROVE Ownership'
<1> DEFINE r == [mem[s] EXCEPT !.where = "local", !.conflictHead = mem[s].local.base]
<1>1. /\ pc[s] = "local" /\ Go(s, "reconcile") /\ Save(s, r) /\ UNCHANGED branches
      /\ mem[s].phase = "local_target"
  BY DEF LocalContinues
<1>2. Step(s) BY LocalContinuesSteps
<1>3. mem[s].local \in Recovery BY <1>1, InRecovery
<1>4. /\ r \in Record /\ r.phase = mem[s].phase /\ r.local = mem[s].local
      /\ r.integrated = mem[s].integrated
  BY <1>3, Known DEF Record, Recovery
<1> HIDE DEF r
<1>5. mem'[s] = r BY <1>1, <1>4, Known, Saves
<1>6. Foreign(s) => Foreign(s)' BY <1>1, <1>2, ForeignStays DEF Step, Grows, Same, branches
<1>7. Owns(mem[s], staging) => Owns(mem[s], staging)' BY <1>1, <1>4, <1>5 DEF Owns, branches
<1>8. pc'[s] = "reconcile" BY <1>1, Known DEF Go, Locked
<1>9. Owed(s)' BY <1>1, <1>6, <1>7, <1>8, Owing DEF Owed
<1> QED BY <1>1, <1>2, <1>4, <1>9, Saved DEF Steps, Has

LEMMA LocalResultOwned ==
  ASSUME NEW s \in Sessions, IInv, Ownership, LocalResult(s)
  PROVE Ownership'
<1> DEFINE l == mem[s].local
           r == [mem[s] EXCEPT !.integrated = l.result, !.expected = l.target,
                   !.awaiting = FALSE, !.failed = FALSE, !.phase = "promotion"]
<1>1. /\ pc[s] = "reconcile" /\ l.result # None /\ staging' = l.result
      /\ Save(s, r) /\ Go(s, "promote")
  BY DEF LocalResult
<1>2. Step(s) BY LocalResultSteps
<1>3. mem[s].phase = "local_target" BY <1>1, Known DEF Running, AtReconcile
<1>4. l.result \in Commit /\ l.target \in Commit BY <1>1, <1>3, InRecovery DEF Recovery
<1>5. r \in Record /\ r.phase = "promotion" /\ r.integrated = l.result BY <1>4, Known DEF Record
<1> HIDE DEF r
<1>6. mem'[s] = r BY <1>1, <1>5, Known, Saves
<1>7. pc'[s] = "promote" BY <1>1, Known DEF Go, Locked
<1>8. Owed(s)' BY <1>1, <1>5, <1>6, <1>7 DEF Owed
<1> QED BY <1>1, <1>2, <1>5, <1>8, Saved DEF Steps, Has

(* While a recovery has no result, staging is where the recovery started.    *)
LEMMA Waiting ==
  ASSUME IInv, NEW s \in Sessions, pc[s] = "reconcile", mem[s].local.result = None
  PROVE /\ mem[s].phase = "local_target" /\ mem[s].local \in Recovery
        /\ staging = mem[s].local.before
<1>1. AtReconcile(s) BY Known DEF Running
<1>2. staging \in Commit /\ None \notin Commit BY Known, NoneIsNoRecord DEF Typed
<1> QED BY <1>1, <1>2, InRecovery DEF AtReconcile

LEMMA LocalMergesOwned ==
  ASSUME NEW s \in Sessions, IInv, Ownership, LocalMerges(s)
  PROVE Ownership'
<1> DEFINE l == mem[s].local
           begun == detached[s].merge # "none"
           base == IF begun THEN l.base ELSE l.before
           w == IF begun THEN detached[s]
                ELSE [MergeInto(Fresh(base), base, l.target) EXCEPT !.kind = "local"]
           resolved == IF w.merge = "open" THEN None ELSE w.index
           st == [l EXCEPT !.base = base, !.resolved = resolved]
           opened == [mem[s] EXCEPT !.local = st, !.conflictHead = base]
           waiting == [opened EXCEPT !.awaiting = TRUE]
           going == [opened EXCEPT !.expected = st.target]
<1>1. /\ pc[s] = "reconcile" /\ l.result = None /\ UNCHANGED branches
      /\ \/ Fail(s, waiting)
         \/ Save(s, going) /\ Go(s, "validate")
  BY DEF LocalMerges
<1>2. Step(s) BY LocalMergesSteps
<1>3. mem[s].phase = "local_target" /\ l \in Recovery /\ staging = l.before BY <1>1, Waiting
<1>4. base \in {l.base, staging} BY <1>3
<1>5. resolved \in (SUBSET Change) \cup {None}
  <2>1. detached'[s] = w BY Known DEF LocalMerges, Typed
  <2>2. detached' \in [Sessions -> DetachedTree] BY <1>2, Types DEF Step, TypeOK, DetachedTree
  <2> HIDE DEF w
  <2> QED BY <2>1, <2>2 DEF DetachedTree
<1> HIDE DEF w, resolved
<1>6. base \in Commit BY <1>3, <1>4, Known DEF Recovery, Typed
<1> HIDE DEF base
<1>7. st \in Recovery /\ st.base = base /\ st.before = l.before /\ st.result = None
  BY <1>1, <1>3, <1>5, <1>6 DEF Recovery
<1>8. st.target \in Commit BY <1>7 DEF Recovery
<1> HIDE DEF st
<1>9. /\ opened \in Record /\ opened.phase = "local_target" /\ opened.local = st
      /\ opened.integrated = mem[s].integrated
  BY <1>3, <1>6, <1>7, Known DEF Record
<1> HIDE DEF opened
<1>10. /\ waiting \in Record /\ waiting.phase = "local_target" /\ waiting.local = st
       /\ waiting.integrated = mem[s].integrated
       /\ going \in Record /\ going.phase = "local_target" /\ going.local = st
       /\ going.integrated = mem[s].integrated
  BY <1>8, <1>9 DEF Record
<1> HIDE DEF waiting, going
<1>11. ASSUME NEW x, x.local = st, x.integrated = mem[s].integrated, Owns(mem[s], staging)
       PROVE Owns(x, staging)
  BY <1>1, <1>3, <1>4, <1>7, <1>11 DEF Owns
<1>12. Foreign(s) \/ Owns(mem[s], staging) BY <1>1, Owing DEF Owed
<1>13. CASE Fail(s, waiting)
  BY <1>1, <1>2, <1>10, <1>11, <1>12, <1>13, Halts DEF Has, branches
<1>14. CASE Save(s, going) /\ Go(s, "validate")
  <2>1. mem'[s] = going BY <1>10, <1>14, Known, Saves
  <2>2. pc'[s] = "validate" BY <1>14, Known DEF Go, Locked
  <2>3. Foreign(s) => Foreign(s)' BY <1>1, <1>2, ForeignStays DEF Step, Grows, Same, branches
  <2>4. Owns(mem[s], staging) => Owns(mem[s], staging)'
    BY <1>1, <1>10, <1>11, <2>1 DEF Owns, branches
  <2>5. (staging = Goal(mem[s]))' BY <1>1, <1>3, <1>7, <1>10, <2>1 DEF Goal, branches
  <2>6. Owed(s)' BY <1>10, <1>12, <2>1, <2>2, <2>3, <2>4, <2>5 DEF Owed
  <2> QED BY <1>2, <1>10, <1>14, <2>6, Saved DEF Steps, Has
<1> QED BY <1>1, <1>13, <1>14

LEMMA LocalRetriesOwned ==
  ASSUME NEW s \in Sessions, IInv, Ownership, LocalRetries(s) \/ LocalAccepts(s)
  PROVE Ownership'
<1> DEFINE l == mem[s].local
           st == [l EXCEPT !.resolved = detached[s].index]
           r == IF LocalRetries(s) THEN [mem[s] EXCEPT !.expected = l.target]
                ELSE [mem[s] EXCEPT !.local = st, !.expected = st.target]
<1>1. /\ pc[s] = "reconcile" /\ l.result = None /\ Go(s, "validate") /\ UNCHANGED branches
      /\ IF LocalRetries(s) THEN Keep(s, r) /\ UNCHANGED behind ELSE Save(s, r)
  BY DEF LocalRetries, LocalAccepts, Tests, evidence
<1>2. Step(s) BY LocalRetriesSteps, LocalAcceptsSteps
<1>3. mem[s].phase = "local_target" /\ l \in Recovery /\ staging = l.before BY <1>1, Waiting
<1>4. detached[s].index \in SUBSET Change /\ l.target \in Commit
  BY <1>3, Known DEF DetachedTree, Recovery
<1>5. /\ st \in Recovery /\ st.base = l.base /\ st.before = l.before /\ st.result = l.result
      /\ st.target = l.target
  BY <1>3, <1>4 DEF Recovery
<1> HIDE DEF st
<1>6. /\ r \in Record /\ r.phase = "local_target" /\ r.integrated = mem[s].integrated
      /\ r.local \in {l, st}
  BY <1>3, <1>4, <1>5, Known DEF Record
<1> HIDE DEF r
<1>7. mem'[s] = r BY <1>1, <1>6, Known, Saves DEF Keep, Copies
<1>8. pc'[s] = "validate" BY <1>1, Known DEF Go, Locked
<1>9. Foreign(s) => Foreign(s)' BY <1>1, <1>2, ForeignStays DEF Step, Grows, Same, branches
<1>10. Owns(mem[s], staging) => Owns(mem[s], staging)'
  BY <1>1, <1>3, <1>5, <1>6, <1>7 DEF Owns, branches
<1>11. (staging = Goal(mem[s]))' BY <1>1, <1>3, <1>5, <1>6, <1>7 DEF Goal, branches
<1>12. Owed(s)' BY <1>1, <1>6, <1>7, <1>8, <1>9, <1>10, <1>11, Owing DEF Owed
<1>13. CASE LocalRetries(s)
  BY <1>1, <1>2, <1>6, <1>7, <1>12, <1>13, Held DEF Steps, Has, Keep, Others
<1>14. CASE ~LocalRetries(s) BY <1>1, <1>2, <1>6, <1>12, <1>14, Saved DEF Steps, Has
<1> QED BY <1>13, <1>14

------------------------------------------------------------------------------
(* Steps beside the commands, and the theorem                                *)

(* Owners stay owners, and no command goes on.                               *)
LEMMA BesideOwned ==
  ASSUME IInv, Ownership, staging' = staging, Within(target, target'),
         UNCHANGED <<pc, behind, lock, audit>>,
         NEW s \in Sessions, pc[s] = "idle" \/ (rec'[s] = rec[s] /\ mem'[s] = mem[s]),
         \A q \in Sessions \ {s} : rec'[q] = rec[q] /\ mem'[q] = mem[q],
         rec'[s] = rec[s] \/ (rec[s].status = "ready" /\ rec'[s].status # "ready"),
         Has(rec'[s], target) /\ Has(mem'[s], target)
  PROVE Ownership'
<1>1. ASSUME NEW q \in Sessions, Owner(q) PROVE Owner(q)'
  BY <1>1 DEF Owner, Owns
<1>2. Within(staging, target) => Within(staging, target)' BY DEF Within
<1>3. ASSUME NEW q \in Sessions PROVE Taken(q)'
  <2>1. Foreign(q) => Foreign(q)' BY <1>1, <1>2 DEF Foreign
  <2>2. Has(rec[q], target)' /\ Has(mem[q], target)' BY Owing DEF Has, Within
  <2>3. CASE pc[q] = "idle" BY <2>2, <2>3, Owing DEF Taken, Owed
  <2>4. CASE pc[q] # "idle"
    <3>1. mem'[q] = mem[q] BY <2>4
    <3>2. /\ Owns(mem[q], staging)' <=> Owns(mem[q], staging)
          /\ (staging = Goal(mem[q]))' <=> staging = Goal(mem[q])
      BY <3>1 DEF Owns, Goal
    <3>3. \A c : Within(c, target) => Within(c, target') BY DEF Within
    <3>4. Owed(q)' BY <2>1, <2>4, <3>1, <3>2, <3>3, Owing DEF Owed, Within
    <3> QED BY <2>2, <2>4, <3>4 DEF Taken
  <2> QED BY <2>3, <2>4
<1> QED BY <1>1, <1>2, <1>3 DEF Ownership

LEMMA OrphanOwned ==
  ASSUME NEW s \in Sessions, IInv, Ownership, RecoverOrphan(s)
  PROVE Ownership'
<1> DEFINE r == [rec[s] EXCEPT !.status = "review", !.awaiting = TRUE, !.conflictHead = staging]
<1>1. /\ pc[s] = "idle" /\ rec[s].status = "ready"
      /\ rec' = [rec EXCEPT ![s] = r] /\ mem' = [mem EXCEPT ![s] = r]
      /\ UNCHANGED <<branches, pc, behind, lock, audit>>
  BY DEF RecoverOrphan, evidence, rest
<1>2. r.status = "review" /\ r.phase = rec[s].phase /\ r.integrated = rec[s].integrated
  BY Known DEF Record
<1> HIDE DEF r
<1>3. /\ rec'[s] = r /\ mem'[s] = r
      /\ \A q \in Sessions \ {s} : rec'[q] = rec[q] /\ mem'[q] = mem[q]
  BY <1>1, Known DEF Copies
<1>4. Has(r, target) BY <1>2, Owing DEF Has
<1> QED BY <1>1, <1>2, <1>3, <1>4, BesideOwned, WithinReflexive DEF branches

LEMMA InitOwnership == Init /\ ~Audits => Ownership
<1> SUFFICES ASSUME Init, ~Audits PROVE Ownership OBVIOUS
<1>1. audit.step = "done" BY DEF Init
<1>2. Within(staging, target) BY WithinReflexive DEF Init
<1>3. ASSUME NEW s \in Sessions PROVE Taken(s)
  BY DEF Init, Taken, Owed, Has, FreshRecord
<1> QED BY <1>1, <1>2, <1>3 DEF Ownership

LEMMA IntegrateOwned ==
  ASSUME NEW s \in Sessions, IInv, Ownership, Integrate(s)
  PROVE Ownership'
<1>1. CASE \/ NestedFails(s) \/ MergeBreaks(s) \/ CommitFails(s) \/ CheckFails(s)
           \/ ValidationFails(s) \/ AdvanceStaging(s)
  BY <1>1, StopOwned, ValidationFailsOwned, AdvanceStagingOwned
<1>2. CASE \/ Begin(s) \/ PrepareCanonical(s) \/ PrepareIsolated(s) \/ PrepareRefused(s)
           \/ BypassWorktree(s)
  BY <1>2, BeginOwned, PrepareOwned, PrepareRefusedOwned, BypassOwned
<1>3. CASE Merge(s) \/ MergeConflicts(s) \/ NestedResolves(s) \/ ValidationPasses(s)
           \/ CommitMerge(s)
  BY <1>3, MergeOwned, MergeConflictsOwned, ValidationPassesOwned, CommitOwned
<1>4. CASE RecordStaged(s) \/ Promote(s) \/ PromotionBlocked(s) \/ RecordPromoted(s)
           \/ PostIntegrationPasses(s) \/ Archive(s) \/ Succeed(s)
  BY <1>4, StagedOwned, PromoteOwned, PromotionBlockedOwned, ArchiveOwned, SucceedOwned
<1> QED BY <1>1, <1>2, <1>3, <1>4 DEF Integrate

LEMMA ContinuesOwned ==
  ASSUME NEW s \in Sessions, IInv, Ownership, Continues(s)
  PROVE Ownership'
<1>1. CASE ReconstructStops(s) \/ LocalRefuses(s) \/ RecoverOrphan(s)
  BY <1>1, StopOwned, OrphanOwned
<1>2. CASE Resume(s) \/ Reconstruct(s) \/ ReconstructDiverges(s) \/ LocalLanded(s) \/ LocalOpens(s)
  BY <1>2, ResumeOwned, ReconstructOwned, ReconstructDivergesOwned, LocalLandedOwned,
     LocalOpensOwned
<1>3. CASE LocalContinues(s) \/ LocalResult(s) \/ LocalMerges(s) \/ LocalRetries(s)
           \/ LocalAccepts(s)
  BY <1>3, LocalContinuesOwned, LocalResultOwned, LocalMergesOwned, LocalRetriesOwned
<1> QED BY <1>1, <1>2, <1>3 DEF Continues

LEMMA NextOwned ==
  ASSUME MaxCrashes = 0, IInv, Ownership, [Next]_vars
  PROVE Ownership'
<1>1. ASSUME staging' = staging, Within(target, target'),
             UNCHANGED <<rec, mem, pc, behind, lock, audit>>
      PROVE Ownership'
  <2>1. CASE Sessions = {} BY <1>1, <2>1 DEF Ownership, Within
  <2>2. CASE Sessions # {}
    <3>1. PICK s : s \in Sessions BY <2>2
    <3> QED BY <1>1, <3>1, Owing, BesideOwned
  <2> QED BY <2>1, <2>2
<1>2. CASE UNCHANGED vars BY <1>1, <1>2, WithinReflexive DEF vars
<1>3. ASSUME NEW s \in Sessions, Integrate(s) \/ Continues(s)
      PROVE Ownership'
  BY <1>3, IntegrateOwned, ContinuesOwned
<1>4. ASSUME NEW s \in Sessions, Resolve(s) PROVE Ownership'
  BY <1>1, <1>4, WithinReflexive DEF Resolve, branches, evidence, rest
<1>5. ASSUME NEW s \in Sessions PROVE ~Crash(s)
  <2>1. crashes \in Nat BY Known DEF Typed
  <2> QED BY <2>1 DEF Crash
<1>6. ASSUME NEW s \in Sessions, NEW f \in Fixes, Correct(s, f) PROVE Ownership'
  BY <1>1, <1>6, WithinReflexive DEF Correct, branches, evidence, rest
<1>7. ASSUME NEW u \in Users, UserCommits(u) PROVE Ownership'
  <2>1. Within(target, target') BY <1>7 DEF UserCommits, Within
  <2> QED BY <1>1, <1>7, <2>1 DEF UserCommits, evidence, rest
<1>8. ~Audit
  BY DEF Audit, AuditRead, AuditPromotes, AuditBlocked, AuditSaves, Ownership
<1> QED BY <1>2, <1>3, <1>4, <1>5, <1>6, <1>7, <1>8 DEF Next

(* As long as no command dies and no operator runs reconcile --apply, what   *)
(* staging has and the target has not, whenever no command runs, is the      *)
(* result of a session that resume will take up.                             *)
THEOREM StagedHasOwner ==
  ASSUME MaxCrashes = 0, ~Audits
  PROVE Spec => []StagedIsOwned
<1>1. Init => Ownership BY InitOwnership
<1>2. IInv /\ Ownership /\ [Next]_vars => Ownership' BY NextOwned
<1>3. Ownership => StagedIsOwned BY DEF Ownership, Owner, Owns, StagedIsOwned
<1> QED BY <1>1, <1>2, <1>3, Invariant, PTL DEF Spec

------------------------------------------------------------------------------
(* Nothing is undone: what commits show is what they say they contain.       *)

(* What each commit itself brings: a user and a session their change, and a  *)
(* commit made for a session the tree that was committed.                    *)
Colours == {T \in [Node -> SUBSET Change] : T[Root] = {} /\ \A x \in Change : T[x] = {x}}

(* A commit shows what its history brings, and M counts those of a session.  *)
Honest(c, T, M) ==
  /\ c \in Commit
  /\ \A x \in Change : x \in c.tree <=> \E n \in c.hist : x \in T[n]
  /\ \A q \in Sessions : \A i \in 1 .. MaxCommits : <<q, i>> \in c.hist => i <= M[q]
Plain(c, T, M) == c = None \/ Honest(c, T, M)
HonestLocal(l, T, M) ==
  l = None \/ (/\ Honest(l.base, T, M) /\ Honest(l.target, T, M) /\ Honest(l.before, T, M)
               /\ Plain(l.result, T, M))
HonestRecord(r, T, M) ==
  /\ Plain(r.expected, T, M) /\ Plain(r.integrated, T, M) /\ Plain(r.conflictHead, T, M)
  /\ HonestLocal(r.local, T, M)
Shown(s, T) ==
  /\ HonestRecord(rec[s], T, made) /\ HonestRecord(mem[s], T, made)
  /\ HonestLocal(manifest[s].local, T, made) /\ Honest(detached[s].head, T, made)

(* Bundles and worktrees have the change of their session; a local recovery  *)
(* that staging has not left behind has in its worktree what it merges.      *)
Brings(s, m, d) ==
  m.local = None =>
    /\ m.merged # None => s \in m.merged.tree
    /\ d.merge # "none" => s \in d.index
Joins(m, d, g) ==
  m.local # None /\ m.local.result = None /\ d.merge # "none" =>
    ~Within(g, m.local.before) \/ d.head.tree \cup m.local.target.tree \subseteq d.index
(* A record that has left a local recovery without a result does not go back *)
(* to where that started.                                                    *)
Aside(r, m, g) ==
  m.local # None =>
    /\ r.phase # "none"
    /\ m.local.result = None /\ r.phase # "local_target" => ~Within(g, m.local.before)
Carries(s) ==
  /\ Brings(s, manifest[s], detached[s]) /\ Joins(manifest[s], detached[s], staging)
  /\ rec[s].status \in {"review", "promotion_pending"} => Aside(rec[s], manifest[s], staging)
  /\ pc[s] # "idle" => Aside(mem[s], manifest[s], staging)

(* The merge in a worktree has both sides of it, but for what is stray.      *)
Covers(w, head, tree) == w.merge # "none" => head.tree \cup tree \subseteq w.index
ToCommit(s) ==
  LET w == Worktree(mem[s], s) IN
  /\ mem[s].phase = "local_target" => Covers(w, Head(mem[s], s), mem[s].local.target.tree)
  /\ mem[s].phase # "local_target" =>
       /\ manifest[s].local = None /\ s \in w.index
       /\ pc[s] = "commit" \/ ~w.stray => Covers(w, Head(mem[s], s), {s})
Working(s) ==
  /\ pc[s] \in {"merge", "nested"} /\ mem[s].where = "canonical" =>
       canonical.of = s /\ canonical.there
  /\ pc[s] = "nested" =>
       LET w == Worktree(mem[s], s) IN
       w.merge # "none" /\ ~w.stray /\ Covers(w, Head(mem[s], s), {s})
  /\ pc[s] \in {"validate", "commit"} => ToCommit(s)
  /\ pc[s] \in {"stage", "staged"} /\ mem[s].phase = "local_target" =>
       manifest[s].local.result # None
  /\ pc[s] \in {"promote", "promoted"} => mem[s].phase # "local_target"

Shared(w) ==
  /\ ~w.there => w.merge = "none"
  /\ w.of # None /\ w.merge # "none" => w.of \in w.index
Truthful(T) ==
  /\ T \in Colours
  /\ Honest(target, T, made) /\ Honest(staging, T, made)
  /\ Honest(audit.target, T, made) /\ Honest(audit.staging, T, made)
  /\ \A s \in DOMAIN audit.copies : HonestRecord(audit.copies[s], T, made)
  /\ Shared(canonical)
  /\ \A s \in Sessions : Shown(s, T) /\ Carries(s) /\ Working(s)
Honesty == \E T \in Colours : Truthful(T)

(* Every commit that shows what it brings goes on doing so.                  *)
Wider(T, U) == \A c : Honest(c, T, made) => Honest(c, U, made')

LEMMA HonestWithin ==
  ASSUME NEW T, NEW M, NEW a, NEW b, Honest(a, T, M), Honest(b, T, M),
         Within(a, b)
  PROVE a.tree \subseteq b.tree
BY DEF Honest, Within, Commit

LEMMA SameCommit ==
  ASSUME NEW T, NEW M, NEW a, NEW b, Honest(a, T, M), Honest(b, T, M),
         Within(a, b), Within(b, a)
  PROVE a = b
<1>1. a.tree \subseteq b.tree /\ b.tree \subseteq a.tree BY HonestWithin
<1>2. a.tree = b.tree BY <1>1 DEF Honest, Commit
<1>3. a.hist = b.hist BY DEF Within
<1>4. a \in Commit /\ b \in Commit BY DEF Honest
<1> QED BY <1>2, <1>3, <1>4 DEF Commit

LEMMA NodeKinds ==
  ASSUME NEW q \in Sessions, NEW i \in 1 .. MaxCommits
  PROVE <<q, i>> \in Node /\ <<q, i>> # Root /\ <<q, i>> \notin Change
BY NodesDiffer DEF Node

LEMMA FirstHonest ==
  ASSUME NEW T \in Colours, NEW M
  PROVE Honest(Start, T, M)
BY NodeKinds, Commits DEF Honest, Start, Colours

LEMMA SourceHonest ==
  ASSUME NEW T \in Colours, NEW M, NEW s \in Sessions
  PROVE /\ Honest(Source(s), T, M)
        /\ \A c : Honest(c, T, M) /\ Within(Source(s), c) => s \in c.tree
<1>1. s \in Change /\ T[s] = {s} /\ T[Root] = {} BY DEF Change, Colours
<1>2. Source(s).hist = {Root, s} /\ Source(s).tree = {s} BY DEF Source
<1>3. \A q \in Sessions : \A i \in 1 .. MaxCommits : <<q, i>> \notin Source(s).hist
  BY <1>1, <1>2, NodeKinds
<1>4. Honest(Source(s), T, M) BY <1>1, <1>2, <1>3, Commits DEF Honest
<1>5. \A c : Honest(c, T, M) /\ Within(Source(s), c) => s \in c.tree
  BY <1>1, <1>2 DEF Honest, Within
<1> QED BY <1>4, <1>5

LEMMA UserHonest ==
  ASSUME NEW T \in Colours, NEW M, NEW u \in Users, NEW c, Honest(c, T, M)
  PROVE Honest([hist |-> c.hist \cup {u}, tree |-> c.tree \cup {u}], T, M)
<1> DEFINE d == [hist |-> c.hist \cup {u}, tree |-> c.tree \cup {u}]
<1>1. u \in Change /\ T[u] = {u} BY DEF Change, Colours
<1>2. \A x \in Change : x \in d.tree <=> \E n \in d.hist : x \in T[n] BY <1>1 DEF Honest
<1>3. \A q \in Sessions : \A i \in 1 .. MaxCommits : <<q, i>> \in d.hist => <<q, i>> \in c.hist
  BY <1>1, NodeKinds
<1>4. d \in Commit BY <1>1 DEF Honest, Commit, Node
<1> QED BY <1>2, <1>3, <1>4 DEF Honest

(* A new commit with both trees and what the colours say of others is kept.  *)
Recoloured(T, s, tree) == [T EXCEPT ![<<s, made[s] + 1>>] = tree]

LEMMA Recolours ==
  ASSUME NEW T \in Colours, NEW s \in Sessions, NEW tree \in SUBSET Change,
         made \in [Sessions -> 0 .. MaxCommits], made[s] < MaxCommits,
         made' = [made EXCEPT ![s] = @ + 1]
  PROVE /\ Recoloured(T, s, tree) \in Colours
        /\ Wider(T, Recoloured(T, s, tree))
        /\ \A a, b : /\ Honest(a, T, made) /\ Honest(b, T, made)
                     /\ a.tree \cup b.tree \subseteq tree
                     => Honest(NewCommit(s, a, b, tree), Recoloured(T, s, tree), made')
<1> DEFINE k == made[s] + 1
           n == <<s, k>>
           U == Recoloured(T, s, tree)
<1>1. made[s] \in Nat /\ k \in 1 .. MaxCommits /\ made'[s] = k BY IntegrationAssumption
<1>2. \A q \in Sessions : q # s => made'[q] = made[q] OBVIOUS
<1>3. n \in Node /\ n # Root /\ n \notin Change BY <1>1, NodeKinds
<1>4. T \in [Node -> SUBSET Change] BY DEF Colours
<1>5. U \in [Node -> SUBSET Change] /\ U[n] = tree /\ \A m \in Node : m # n => U[m] = T[m]
  BY <1>3, <1>4 DEF Recoloured
<1>6. Root \in Node /\ Change \subseteq Node BY DEF Node
<1>7. U \in Colours BY <1>3, <1>5, <1>6 DEF Colours
<1>8. \A q \in Sessions : made[q] <= made'[q]
  <2>1. \A q \in Sessions : made[q] \in Nat BY IntegrationAssumption
  <2> QED BY <1>1, <1>2, <2>1
<1>9. ASSUME NEW c, Honest(c, T, made) PROVE Honest(c, U, made')
  <2>1. ~(k <= made[s]) BY <1>1
  <2>2. <<s, k>> \in c.hist => k <= made[s]
    <3> HIDE DEF k
    <3> QED BY <1>1, <1>9 DEF Honest
  <2>3. n \notin c.hist BY <2>1, <2>2
  <2>4. \A m \in c.hist : U[m] = T[m] BY <1>5, <1>9, <2>3 DEF Honest, Commit
  <2>5. \A q \in Sessions : \A i \in 1 .. MaxCommits : <<q, i>> \in c.hist => i <= made'[q]
    <3>1. \A q \in Sessions : made[q] \in Nat /\ made'[q] \in Nat
      BY <1>1, <1>2, IntegrationAssumption
    <3> QED BY <1>8, <1>9, <3>1 DEF Honest
  <2> QED BY <1>9, <2>4, <2>5 DEF Honest
<1>10. ASSUME NEW a, NEW b, Honest(a, T, made), Honest(b, T, made), a.tree \cup b.tree \subseteq tree
       PROVE Honest(NewCommit(s, a, b, tree), U, made')
  <2> DEFINE c == NewCommit(s, a, b, tree)
  <2>1. c \in Commit /\ c.tree = tree /\ c.hist = a.hist \cup b.hist \cup {n}
    <3>1. c \in Commit BY <1>10, NewCommits DEF Honest
    <3> QED BY <3>1 DEF NewCommit
  <2> HIDE DEF c
  <2>2. Honest(a, U, made') /\ Honest(b, U, made') BY <1>9, <1>10
  <2>3. \A x \in Change : x \in c.tree <=> \E m \in c.hist : x \in U[m]
    BY <1>5, <1>10, <2>1, <2>2 DEF Honest
  <2>4. \A q \in Sessions : \A i \in 1 .. MaxCommits : <<q, i>> = n => i <= made'[q]
    <3>1. ASSUME NEW q \in Sessions, NEW i \in 1 .. MaxCommits, <<q, i>> = <<s, k>>
          PROVE q = s /\ i = k
      BY <3>1
    <3>2. k <= made'[s] BY <1>1
    <3> HIDE DEF k
    <3> QED BY <3>1, <3>2
  <2>5. \A q \in Sessions : \A i \in 1 .. MaxCommits : <<q, i>> \in c.hist => i <= made'[q]
    BY <2>1, <2>2, <2>4 DEF Honest
  <2> QED BY <2>1, <2>3, <2>5 DEF Honest, c
<1> QED BY <1>7, <1>9, <1>10 DEF Wider

LEMMA Widens ==
  ASSUME NEW T, NEW U, Wider(T, U)
  PROVE /\ \A c : Plain(c, T, made) => Plain(c, U, made')
        /\ \A l : HonestLocal(l, T, made) => HonestLocal(l, U, made')
        /\ \A r : HonestRecord(r, T, made) => HonestRecord(r, U, made')
<1>1. \A c : Plain(c, T, made) => Plain(c, U, made') BY DEF Wider, Plain
<1>2. \A l : HonestLocal(l, T, made) => HonestLocal(l, U, made') BY <1>1 DEF Wider, HonestLocal
<1> QED BY <1>1, <1>2 DEF HonestRecord

LEMMA StaysWide ==
  ASSUME NEW T, made' = made
  PROVE Wider(T, T)
BY DEF Wider

(* Staging does not come back to where a recovery started.                   *)
LEMMA Leaving ==
  ASSUME NEW g, NEW h, Within(g, h)
  PROVE /\ \A m, d : Joins(m, d, g) => Joins(m, d, h)
        /\ \A r, m : Aside(r, m, g) => Aside(r, m, h)
BY DEF Joins, Aside, Within

(* What Truthful says of one session.                                        *)
LEMMA Sees ==
  ASSUME NEW T, Truthful(T), NEW s \in Sessions
  PROVE /\ T \in Colours /\ Honest(target, T, made) /\ Honest(staging, T, made)
        /\ HonestRecord(rec[s], T, made) /\ HonestRecord(mem[s], T, made)
        /\ HonestLocal(manifest[s].local, T, made) /\ Honest(detached[s].head, T, made)
        /\ Brings(s, manifest[s], detached[s]) /\ Joins(manifest[s], detached[s], staging)
        /\ rec[s].status \in {"review", "promotion_pending"} => Aside(rec[s], manifest[s], staging)
        /\ pc[s] # "idle" => Aside(mem[s], manifest[s], staging)
        /\ Shared(canonical) /\ Working(s)
BY DEF Truthful, Shown, Carries

LEMMA Advances ==
  ASSUME NEW s \in Sessions, IInv, Step(s), NEW T, Truthful(T), NEW U \in Colours, Wider(T, U),
         Honest(target', U, made'), Honest(staging', U, made'), Shared(canonical'),
         HonestRecord(rec'[s], U, made'), HonestRecord(mem'[s], U, made'),
         HonestLocal(manifest'[s].local, U, made'), Honest(detached'[s].head, U, made'),
         Brings(s, manifest'[s], detached'[s]), Joins(manifest'[s], detached'[s], staging'),
         rec'[s].status \in {"review", "promotion_pending"} => Aside(rec'[s], manifest'[s], staging'),
         pc'[s] # "idle" => Aside(mem'[s], manifest'[s], staging'),
         Working(s)'
  PROVE Truthful(U)'
<1>1. /\ (Honest(target, U, made) /\ Honest(staging, U, made) /\ Shared(canonical))'
      /\ Shown(s, U)' /\ Carries(s)'
  BY DEF Honest, Shared, Shown, Carries, HonestRecord, HonestLocal, Plain, Brings, Joins, Aside, Within
<1>2. ASSUME NEW q \in Sessions \ {s} PROVE Shown(q, U)' /\ Carries(q)' /\ Working(q)'
  <2>1. Same(q) /\ pc[q] = "idle" /\ Within(staging, staging') BY DEF Step, Grows
  <2>2. HonestRecord(rec[q], U, made') /\ HonestRecord(mem[q], U, made')
        /\ HonestLocal(manifest[q].local, U, made') /\ Honest(detached[q].head, U, made')
    BY Sees, Widens DEF Wider
  <2> /\ HonestRecord(rec'[q], U, made') /\ HonestRecord(mem'[q], U, made')
      /\ HonestLocal(manifest'[q].local, U, made') /\ Honest(detached'[q].head, U, made')
    BY <2>1, <2>2 DEF Same
  <2>3. Shown(q, U)' BY DEF Shown, Honest, HonestRecord, HonestLocal, Plain
  <2>4. /\ Brings(q, manifest[q], detached[q]) /\ Joins(manifest[q], detached[q], staging')
        /\ rec[q].status \in {"review", "promotion_pending"} => Aside(rec[q], manifest[q], staging')
    BY <2>1, Sees, Leaving
  <2>5. Carries(q)' BY <2>1, <2>4 DEF Same, Carries, Brings, Joins, Aside, Within
  <2>6. Working(q)' BY <2>1 DEF Same, Working
  <2> QED BY <2>3, <2>5, <2>6
<1>3. /\ Honest(audit.target, U, made') /\ Honest(audit.staging, U, made')
      /\ \A q \in DOMAIN audit.copies : HonestRecord(audit.copies[q], U, made')
  BY Widens DEF Truthful, Wider
<1>4. (/\ Honest(audit.target, U, made) /\ Honest(audit.staging, U, made)
       /\ \A q \in DOMAIN audit.copies : HonestRecord(audit.copies[q], U, made))'
  <2>1. audit' = audit BY DEF Step
  <2>2. /\ Honest(audit'.target, U, made') /\ Honest(audit'.staging, U, made')
        /\ \A q \in DOMAIN audit'.copies : HonestRecord(audit'.copies[q], U, made')
    BY <1>3, <2>1
  <2> QED BY <2>2 DEF Honest, HonestRecord, HonestLocal, Plain
<1> QED BY <1>1, <1>2, <1>4 DEF Truthful

(* The command ends and leaves the branches where they are.                  *)
LEMMA Idles ==
  ASSUME NEW s \in Sessions, IInv, Step(s), NEW T, Truthful(T), pc'[s] = "idle",
         UNCHANGED <<target, staging, made>>, Shared(canonical'),
         HonestRecord(rec'[s], T, made), HonestRecord(mem'[s], T, made),
         HonestLocal(manifest'[s].local, T, made), Honest(detached'[s].head, T, made),
         Brings(s, manifest'[s], detached'[s]), Joins(manifest'[s], detached'[s], staging),
         rec'[s].status \in {"review", "promotion_pending"} => Aside(rec'[s], manifest'[s], staging)
  PROVE Truthful(T)'
<1>1. Wider(T, T) BY StaysWide
<1>2. Working(s)' BY DEF Working
<1> QED BY <1>1, <1>2, Sees, Advances

LEMMA Throws ==
  ASSUME NEW s \in Sessions, IInv, Step(s), NEW T, Truthful(T), pc[s] # "idle",
         NEW r \in Record, Fail(s, r), UNCHANGED <<target, staging, made>>, Shared(canonical'),
         HonestRecord(r, T, made),
         HonestLocal(manifest'[s].local, T, made), Honest(detached'[s].head, T, made),
         Brings(s, manifest'[s], detached'[s]), Joins(manifest'[s], detached'[s], staging),
         Aside(r, manifest'[s], staging)
  PROVE Truthful(T)'
<1>1. pc'[s] = "idle" /\ rec'[s] = Failed(r) /\ mem'[s] = Failed(r) BY Known, Fails
<1>2. HonestRecord(Failed(r), T, made) BY FailedRecord DEF HonestRecord
<1>3. Aside(Failed(r), manifest'[s], staging) BY FailedRecord DEF Aside
<1> QED BY <1>1, <1>2, <1>3, Idles

LEMMA StopTruthful ==
  ASSUME NEW s \in Sessions, IInv, NEW T, Truthful(T),
         \/ NestedFails(s) \/ MergeBreaks(s) \/ CommitFails(s) \/ CheckFails(s)
         \/ ReconstructStops(s) \/ LocalRefuses(s)
  PROVE Truthful(T)'
<1>1. /\ pc[s] # "idle" /\ Fail(s, mem[s])
      /\ UNCHANGED <<target, staging, canonical, detached, manifest, made>>
  BY DEF NestedFails, MergeBreaks, CommitFails, CheckFails, ReconstructStops, LocalRefuses, Tests,
     branches, trees, rest
<1>2. Step(s) BY StopSteps
<1> QED BY <1>1, <1>2, Sees, Known, Throws

LEMMA ValidationFailsTruthful ==
  ASSUME NEW s \in Sessions, IInv, NEW T, Truthful(T), ValidationFails(s)
  PROVE Truthful(T)'
<1>1. /\ pc[s] = "validate" /\ UNCHANGED <<target, staging, canonical, detached, manifest, made>>
      /\ \E f \in {mem[s].failed, (NoUnstagedChanges(Worktree(mem[s], s))
                                   /\ mem[s].phase = "local_target") \/ mem[s].failed} :
           Fail(s, [mem[s] EXCEPT !.failed = f])
  BY DEF ValidationFails, branches, trees, rest
<1>2. PICK f : f \in BOOLEAN /\ Fail(s, [mem[s] EXCEPT !.failed = f]) BY <1>1, Known DEF Record
<1> DEFINE r == [mem[s] EXCEPT !.failed = f]
<1>3. /\ r \in Record /\ r.phase = mem[s].phase /\ r.integrated = mem[s].integrated
      /\ r.local = mem[s].local /\ r.expected = mem[s].expected
      /\ r.conflictHead = mem[s].conflictHead
  BY <1>2, Known DEF Record
<1>4. Fail(s, r) BY <1>2
<1> HIDE DEF r
<1>5. HonestRecord(r, T, made) /\ Aside(r, manifest[s], staging)
  BY <1>1, <1>3, Sees DEF HonestRecord, Aside
<1> QED BY <1>1, <1>3, <1>4, <1>5, ValidationFailsSteps, Sees, Throws

(* A ready session has no recovery in its bundle.                            *)
LEMMA ReadyIsPlain ==
  ASSUME IInv, NEW s \in Sessions, rec[s].status = "ready" \/ mem[s].status = "ready"
  PROVE manifest[s].local = None
BY Known DEF Bundle, Manifest

(* The command saves a record and goes on.                                   *)
LEMMA Proceeds ==
  ASSUME NEW s \in Sessions, IInv, Step(s), NEW T, Truthful(T), made' = made,
         NEW r \in Record, Save(s, r), HonestRecord(r, T, made),
         Honest(target', T, made), Honest(staging', T, made), Shared(canonical'),
         HonestLocal(manifest'[s].local, T, made), Honest(detached'[s].head, T, made),
         Brings(s, manifest'[s], detached'[s]), Joins(manifest'[s], detached'[s], staging'),
         Aside(r, manifest'[s], staging'), Working(s)'
  PROVE Truthful(T)'
<1>1. rec'[s] = r /\ mem'[s] = r BY Known, Saves
<1>2. Wider(T, T) BY StaysWide
<1> QED BY <1>1, <1>2, Sees, Advances

Steady == {"prepare", "staged", "promote", "promoted", "post", "finish", "archived",
           "reconstruct", "local", "reconcile"}

LEMMA Records ==
  ASSUME NEW s \in Sessions, IInv, Step(s), NEW T, Truthful(T),
         UNCHANGED <<target, staging, canonical, detached, manifest, made>>,
         NEW r \in Record, Save(s, r), HonestRecord(r, T, made), Aside(r, manifest[s], staging),
         pc'[s] \in Steady \ {"staged"}, pc'[s] \in {"promote", "promoted"} => r.phase # "local_target"
  PROVE Truthful(T)'
<1>1. mem'[s] = r BY Known, Saves
<1>2. Working(s)' BY <1>1 DEF Working, Steady
<1> QED BY <1>2, Sees, Proceeds

LEMMA RecordsTruthful ==
  ASSUME NEW s \in Sessions, IInv, NEW T, Truthful(T),
         RecordStaged(s) \/ RecordPromoted(s) \/ PostIntegrationPasses(s)
  PROVE Truthful(T)'
<1>1. Step(s) BY RecordStagedSteps, RecordPromotedSteps, PostIntegrationSteps
<1>2. UNCHANGED <<target, staging, canonical, detached, manifest, made>>
  BY DEF RecordStaged, RecordPromoted, PostIntegrationPasses, branches, trees, rest
<1>3. CASE RecordStaged(s)
  <2> DEFINE r == [mem[s] EXCEPT !.awaiting = FALSE, !.phase = "promotion"]
  <2>1. /\ r \in Record /\ r.phase = "promotion" /\ r.integrated = mem[s].integrated
        /\ r.local = mem[s].local /\ r.expected = mem[s].expected
        /\ r.conflictHead = mem[s].conflictHead
    BY Known DEF Record
  <2>2. Save(s, r) BY <1>3 DEF RecordStaged
  <2> HIDE DEF r
  <2>3. pc[s] = "staged" /\ Go(s, "promote") BY <1>3 DEF RecordStaged
  <2>4. pc'[s] = "promote" BY <2>3, Known DEF Go, Locked
  <2>5. HonestRecord(r, T, made) BY <2>1, Sees DEF HonestRecord
  <2>6. Aside(r, manifest[s], staging) BY <2>1, <2>3, Sees DEF Aside, Working
  <2> QED BY <1>1, <1>2, <2>1, <2>2, <2>4, <2>5, <2>6, Records DEF Steady
<1>4. CASE RecordPromoted(s)
  <2> DEFINE phase == IF advanced[s] THEN "post_integration" ELSE "pull_request"
             step == IF advanced[s] THEN "post" ELSE "finish"
             r == [mem[s] EXCEPT !.phase = phase]
  <2>1. /\ r \in Record /\ r.phase = phase /\ r.integrated = mem[s].integrated
        /\ r.local = mem[s].local /\ r.expected = mem[s].expected
        /\ r.conflictHead = mem[s].conflictHead
    BY Known DEF Record
  <2>2. Save(s, r) BY <1>4 DEF RecordPromoted
  <2> HIDE DEF r
  <2>3. pc[s] = "promoted" /\ Go(s, step) BY <1>4 DEF RecordPromoted
  <2>4. pc'[s] \in {"post", "finish"} BY <2>3, Known DEF Go, Locked
  <2>5. HonestRecord(r, T, made) BY <2>1, Sees DEF HonestRecord
  <2>6. Aside(r, manifest[s], staging) BY <2>1, <2>3, Sees DEF Aside, Working
  <2> QED BY <1>1, <1>2, <2>1, <2>2, <2>4, <2>5, <2>6, Records DEF Steady
<1>5. CASE PostIntegrationPasses(s)
  <2> DEFINE r == [mem[s] EXCEPT !.phase = "pull_request"]
  <2>1. /\ r \in Record /\ r.phase = "pull_request" /\ r.integrated = mem[s].integrated
        /\ r.local = mem[s].local /\ r.expected = mem[s].expected
        /\ r.conflictHead = mem[s].conflictHead
    BY Known DEF Record
  <2>2. Save(s, r) BY <1>5 DEF PostIntegrationPasses
  <2> HIDE DEF r
  <2>3. pc[s] = "post" /\ Go(s, "finish") BY <1>5 DEF PostIntegrationPasses
  <2>4. pc'[s] = "finish" BY <2>3, Known DEF Go, Locked
  <2>5. HonestRecord(r, T, made) BY <2>1, Sees DEF HonestRecord
  <2>6. mem[s].phase = "post_integration" BY <2>3, Known DEF Running
  <2>7. Aside(r, manifest[s], staging) BY <2>1, <2>3, <2>6, Sees DEF Aside
  <2> QED BY <1>1, <1>2, <2>1, <2>2, <2>4, <2>5, <2>7, Records DEF Steady
<1> QED BY <1>3, <1>4, <1>5

(* The command ends with its copy saved, or dies.                            *)
LEMMA EndsTruthful ==
  ASSUME NEW s \in Sessions, IInv, NEW T, Truthful(T),
         PrepareRefused(s) \/ PromotionBlocked(s) \/ Succeed(s) \/ Crash(s)
  PROVE Truthful(T)'
<1>1. Step(s) BY PrepareRefusedSteps, PromotionBlockedSteps, SucceedSteps, CrashSteps
<1>2. UNCHANGED <<target, staging, detached, manifest, made>> /\ pc[s] # "idle" /\ Leave(s)
  BY DEF PrepareRefused, PromotionBlocked, Succeed, Crash, branches, trees, evidence, rest
<1>3. pc'[s] = "idle" BY <1>2, Known, Leaves
<1>4. CASE PrepareRefused(s)
  <2>1. Save(s, mem[s]) BY <1>4 DEF PrepareRefused
  <2>2. rec'[s] = mem[s] /\ mem'[s] = mem[s] BY <2>1, Known, Saves
  <2>3. \/ canonical' = canonical
        \/ ~canonical.there /\ canonical' = [canonical EXCEPT !.there = TRUE, !.index = staging.tree]
    BY <1>4 DEF PrepareRefused
  <2>4. Shared(canonical') BY <2>3, Sees, Known DEF Shared, Typed, CanonicalTree
  <2> QED BY <1>1, <1>2, <1>3, <2>2, <2>4, Sees, Idles
<1>5. CASE PromotionBlocked(s)
  <2> DEFINE r == [mem[s] EXCEPT !.status = "promotion_pending", !.phase = "promotion"]
  <2>1. /\ r \in Record /\ r.phase = "promotion" /\ r.integrated = mem[s].integrated
        /\ r.local = mem[s].local /\ r.expected = mem[s].expected
        /\ r.conflictHead = mem[s].conflictHead
    BY Known DEF Record
  <2>2. Save(s, r) /\ pc[s] = "promote" /\ canonical' = canonical
    BY <1>5 DEF PromotionBlocked, trees
  <2> HIDE DEF r
  <2>3. rec'[s] = r /\ mem'[s] = r BY <2>1, <2>2, Known, Saves
  <2>4. HonestRecord(r, T, made) BY <2>1, Sees DEF HonestRecord
  <2>5. Aside(r, manifest[s], staging) BY <2>1, <2>2, Sees DEF Aside, Working
  <2> QED BY <1>1, <1>2, <1>3, <2>2, <2>3, <2>4, <2>5, Sees, Idles
<1>6. CASE Succeed(s)
  <2> DEFINE r == [mem[s] EXCEPT !.status = "succeeded", !.phase = "none"]
  <2>1. /\ r \in Record /\ r.status = "succeeded" /\ r.integrated = mem[s].integrated
        /\ r.local = mem[s].local /\ r.expected = mem[s].expected
        /\ r.conflictHead = mem[s].conflictHead
    BY Known DEF Record
  <2>2. Save(s, r) /\ canonical' = canonical BY <1>6 DEF Succeed, trees
  <2> HIDE DEF r
  <2>3. rec'[s] = r /\ mem'[s] = r BY <2>1, <2>2, Known, Saves
  <2>4. HonestRecord(r, T, made) BY <2>1, Sees DEF HonestRecord
  <2> QED BY <1>1, <1>2, <1>3, <2>1, <2>2, <2>3, <2>4, Sees, Idles
<1>7. CASE Crash(s)
  <2>1. rec' = rec /\ mem'[s] = rec[s] /\ canonical' = canonical
    BY <1>7, Known DEF Crash, trees, Copies
  <2> QED BY <1>1, <1>2, <1>3, <2>1, Sees, Idles
<1> QED BY <1>4, <1>5, <1>6, <1>7

(* The command keeps or reads its copy and goes on; bundle and worktree stay.*)
LEMMA Holds ==
  ASSUME NEW s \in Sessions, IInv, Step(s), NEW T, Truthful(T), UNCHANGED <<rec, made>>,
         HonestRecord(mem'[s], T, made), Aside(mem'[s], manifest'[s], staging),
         Honest(target', T, made), Honest(staging', T, made),
         canonical' = canonical, detached'[s] = detached[s], manifest'[s] = manifest[s],
         Working(s)'
  PROVE Truthful(T)'
<1>1. Wider(T, T) BY StaysWide
<1>2. Within(staging, staging') BY DEF Step, Grows
<1> QED BY <1>1, <1>2, Sees, Leaving, Advances

LEMMA ArchiveTruthful ==
  ASSUME NEW s \in Sessions, IInv, NEW T, Truthful(T), Archive(s)
  PROVE Truthful(T)'
<1>1. /\ pc[s] = "finish" /\ Go(s, "archived")
      /\ UNCHANGED <<target, staging, canonical, detached, rec, mem, made>>
      /\ manifest' = [manifest EXCEPT ![s] = manifest[s]]
  BY DEF Archive, Append, branches, trees, rest
<1>2. manifest'[s] = manifest[s] BY <1>1, Known DEF Typed
<1>3. pc'[s] = "archived" BY <1>1, Known DEF Go, Locked
<1>4. Working(s)' BY <1>3 DEF Working
<1>5. Step(s) BY ArchiveSteps
<1> QED BY <1>1, <1>2, <1>4, <1>5, Sees, Holds

LEMMA PromoteTruthful ==
  ASSUME NEW s \in Sessions, IInv, NEW T, Truthful(T), Promote(s)
  PROVE Truthful(T)'
<1>1. /\ pc[s] = "promote" /\ Go(s, "promoted") /\ target' = mem[s].integrated
      /\ UNCHANGED <<staging, canonical, detached, rec, mem, manifest, made>>
  BY DEF Promote, trees, evidence, rest
<1>2. mem[s].integrated \in Commit BY <1>1, Known DEF Running, Passed
<1>3. Honest(target', T, made)
  BY <1>1, <1>2, Sees, NoneIsNoRecord DEF HonestRecord, Plain
<1>4. pc'[s] = "promoted" BY <1>1, Known DEF Go, Locked
<1>5. Working(s)' BY <1>1, <1>4, Sees DEF Working
<1>6. Step(s) BY PromoteSteps
<1> QED BY <1>1, <1>3, <1>5, <1>6, Sees, Holds

LEMMA ResumeTruthful ==
  ASSUME NEW s \in Sessions, IInv, NEW T, Truthful(T), Resume(s)
  PROVE Truthful(T)'
<1> DEFINE r == Verified(s)
<1>1. /\ pc[s] = "idle" /\ rec[s].status \in {"review", "promotion_pending"} /\ Keep(s, r)
      /\ UNCHANGED <<target, staging, canonical, detached, manifest, made>>
      /\ behind[s] => manifest[s].local # None
      /\ \E step \in {"local", "reconstruct"} : Go(s, step)
  BY DEF Resume, branches, trees, evidence, rest, Verifiable
<1>2. rec' = rec /\ mem'[s] = r BY <1>1, Known DEF Keep, Copies
<1>3. pc'[s] \in {"local", "reconstruct"} BY <1>1, Known DEF Go, Locked
<1>4. HonestRecord(r, T, made) /\ Aside(r, manifest[s], staging)
  <2>1. CASE ~behind[s] BY <1>1, <2>1, Sees DEF Verified
  <2>2. CASE behind[s]
    <3>1. /\ r.integrated = rec[s].integrated /\ r.expected = rec[s].expected
          /\ r.conflictHead = rec[s].conflictHead /\ r.local = manifest[s].local
          /\ r.phase = "local_target"
      BY <2>2, Known DEF Verified, Record
    <3> QED BY <3>1, Sees DEF HonestRecord, Aside
  <2> QED BY <2>1, <2>2
<1>5. Working(s)' BY <1>3 DEF Working
<1>6. Step(s) BY ResumeSteps
<1> QED BY <1>1, <1>2, <1>4, <1>5, <1>6, Sees, Holds

LEMMA BeginTruthful ==
  ASSUME NEW s \in Sessions, IInv, NEW T, Truthful(T), Begin(s)
  PROVE Truthful(T)'
<1> DEFINE place == IF rec[s].where # "none" THEN rec[s].where
                    ELSE IF canonical.there /\ ~Clean(canonical, staging)
                         THEN "isolated" ELSE "canonical"
           r == [rec[s] EXCEPT !.expected = target, !.where = place]
<1>1. /\ pc[s] = "idle" /\ rec[s].status = "ready" /\ Go(s, "prepare")
      /\ UNCHANGED <<target, staging, canonical, detached, made>>
      /\ manifest' = IF manifest[s].base = None
                     THEN [manifest EXCEPT ![s].base = staging] ELSE manifest
  BY DEF Begin, branches, trees, rest
<1>2. Step(s) BY BeginSteps
<1>3. target \in Commit BY Known DEF Typed
<1>4. /\ r \in Record /\ r.expected = target /\ r.integrated = rec[s].integrated
      /\ r.conflictHead = rec[s].conflictHead /\ r.local = rec[s].local
  BY <1>1, <1>3, Known DEF Record, Ahead
<1>5. Save(s, r) BY DEF Begin
<1> HIDE DEF r
<1>6. manifest[s].local = None BY <1>1, ReadyIsPlain
<1>7. manifest'[s].local = manifest[s].local /\ manifest'[s].merged = manifest[s].merged
  BY <1>1, Known DEF Typed, Manifest
<1>8. HonestRecord(r, T, made) BY <1>4, Sees DEF HonestRecord, Plain
<1>9. pc'[s] = "prepare" BY <1>1, Known DEF Go, Locked
<1>10. Working(s)' BY <1>9 DEF Working
<1>11. Brings(s, manifest'[s], detached'[s]) BY <1>1, <1>7, Sees DEF Brings
<1>12. Joins(manifest'[s], detached'[s], staging') /\ Aside(r, manifest'[s], staging')
  BY <1>6, <1>7 DEF Joins, Aside
<1>13. HonestLocal(manifest'[s].local, T, made) BY <1>6, <1>7 DEF HonestLocal
<1> QED BY <1>1, <1>2, <1>4, <1>5, <1>8, <1>10, <1>11, <1>12, <1>13, Sees, Proceeds

LEMMA PrepareCanonicalTruthful ==
  ASSUME NEW s \in Sessions, IInv, NEW T, Truthful(T), PrepareCanonical(s)
  PROVE Truthful(T)'
<1>1. /\ pc[s] = "prepare" /\ Go(s, "merge") /\ WorktreeReady(canonical, staging)
      /\ staging' = mem[s].expected
      /\ canonical' = [canonical EXCEPT !.there = TRUE, !.of = s, !.index = mem[s].expected.tree]
      /\ UNCHANGED <<target, detached, rec, mem, manifest, made>>
  BY DEF PrepareCanonical, evidence, rest
<1>2. Step(s) BY PrepareCanonicalSteps
<1>3. mem[s].status = "ready" /\ mem[s].expected \in Commit BY <1>1, Known DEF Running, AtPrepare
<1>4. Honest(staging', T, made)
  BY <1>1, <1>3, Sees, NoneIsNoRecord DEF HonestRecord, Plain
<1>5. canonical \in CanonicalTree BY Known DEF Typed
<1>6. canonical.merge = "none" BY <1>1, Sees DEF WorktreeReady, Clean, Shared
<1>7. canonical'.merge = "none" /\ canonical'.of = s /\ canonical'.there BY <1>1, <1>5, <1>6 DEF CanonicalTree
<1>8. Shared(canonical') BY <1>7 DEF Shared
<1>9. pc'[s] = "merge" BY <1>1, Known DEF Go, Locked
<1>10. Working(s)' BY <1>7, <1>9 DEF Working
<1>11. manifest[s].local = None BY <1>3, ReadyIsPlain
<1>12. Joins(manifest[s], detached[s], staging') /\ \A r : Aside(r, manifest[s], staging')
  BY <1>11 DEF Joins, Aside
<1>13. Wider(T, T) BY <1>1, StaysWide
<1> QED BY <1>1, <1>2, <1>4, <1>8, <1>10, <1>12, <1>13, Sees, Advances

LEMMA PrepareIsolatedTruthful ==
  ASSUME NEW s \in Sessions, IInv, NEW T, Truthful(T), PrepareIsolated(s)
  PROVE Truthful(T)'
<1> DEFINE w == IF detached[s].kind = "none"
                THEN [kind |-> "isolated", head |-> staging, index |-> staging.tree,
                      merge |-> "none", stray |-> FALSE]
                ELSE [detached[s] EXCEPT !.head = mem[s].expected, !.index = mem[s].expected.tree]
           r == [mem[s] EXCEPT !.conflictHead = staging]
<1>1. /\ pc[s] = "prepare" /\ mem[s].where = "isolated" /\ Go(s, "merge")
      /\ UNCHANGED <<target, staging, canonical, manifest, made>>
      /\ detached'[s] = w
      /\ detached[s].kind # "none" => detached[s].merge = "none"
      /\ Save(s, r) \/ UNCHANGED <<rec, mem>>
  BY Known DEF PrepareIsolated, branches, rest, Aligned, Typed, DetachedTree
<1>2. Step(s) BY PrepareIsolatedSteps
<1>3. mem[s].status = "ready" /\ mem[s].expected \in Commit BY <1>1, Known DEF Running, AtPrepare
<1>4. Honest(mem[s].expected, T, made)
  BY <1>3, Sees, NoneIsNoRecord DEF HonestRecord, Plain
<1>5. Honest(w.head, T, made) /\ w.merge = "none" BY <1>1, <1>4, Sees, Known DEF DetachedTree
<1>6. /\ r \in Record /\ r.integrated = mem[s].integrated /\ r.local = mem[s].local
      /\ r.expected = mem[s].expected /\ r.conflictHead = staging /\ r.where = mem[s].where
  BY Known DEF Record, Typed
<1> HIDE DEF r, w
<1>7. HonestRecord(r, T, made) BY <1>6, Sees DEF HonestRecord, Plain
<1>8. manifest[s].local = None BY <1>3, ReadyIsPlain
<1>9. Joins(manifest[s], w, staging) /\ \A x : Aside(x, manifest[s], staging)
  BY <1>8 DEF Joins, Aside
<1>10. Brings(s, manifest[s], w) BY <1>5, Sees DEF Brings
<1>11. pc'[s] = "merge" BY <1>1, Known DEF Go, Locked
<1>12. rec'[s] \in {r, rec[s]} /\ mem'[s] \in {r, mem[s]} BY <1>1, <1>6, Known, Saves
<1>13. Working(s)' BY <1>1, <1>6, <1>11, <1>12 DEF Working
<1>14. Wider(T, T) BY <1>1, StaysWide
<1> QED BY <1>1, <1>2, <1>5, <1>7, <1>9, <1>10, <1>12, <1>13, <1>14, Sees, Advances

LEMMA AdvanceStagingTruthful ==
  ASSUME NEW s \in Sessions, IInv, NEW T, Truthful(T), AdvanceStaging(s)
  PROVE Truthful(T)'
<1>1. /\ pc[s] = "stage" /\ UNCHANGED <<target, canonical, detached, manifest, made>>
      /\ \/ staging' = mem[s].integrated /\ Go(s, "staged") /\ UNCHANGED <<rec, mem>>
         \/ Fail(s, mem[s]) /\ UNCHANGED staging
  BY DEF AdvanceStaging, trees, rest
<1>2. Step(s) BY AdvanceStagingSteps
<1>3. CASE staging' = mem[s].integrated /\ Go(s, "staged") /\ UNCHANGED <<rec, mem>>
  <2>1. mem[s].integrated \in Commit BY <1>1, Known DEF Running, AtStage, Passed
  <2>2. Honest(staging', T, made)
    BY <1>3, <2>1, Sees, NoneIsNoRecord DEF HonestRecord, Plain
  <2>3. pc'[s] = "staged" BY <1>3, Known DEF Go, Locked
  <2>4. Working(s)' BY <1>1, <1>3, <2>3, Sees DEF Working
  <2> QED BY <1>1, <1>2, <1>3, <2>2, <2>4, Sees, Holds
<1>4. CASE Fail(s, mem[s]) /\ UNCHANGED staging
  BY <1>1, <1>2, <1>4, Sees, Known, Throws
<1> QED BY <1>1, <1>3, <1>4

(* What Git's merge of other into head leaves in a worktree.                 *)
LEMMA Joined ==
  ASSUME NEW head, NEW other, NEW w \in CanonicalTree \cup DetachedTree
  PROVE LET x == MergeInto(w, head, other) IN
        /\ ~x.stray /\ Covers(x, head, other.tree)
        /\ x.merge = "none" => Within(other, head) /\ x.index = head.tree
        /\ x.merge # "none" => x.index = head.tree \cup other.tree
        /\ w \in CanonicalTree => x.of = w.of /\ x.there = w.there
BY DEF MergeInto, Covers, CanonicalTree, DetachedTree

LEMMA JoinedSource ==
  ASSUME NEW T \in Colours, NEW s \in Sessions, NEW head, Honest(head, T, made),
         NEW w \in CanonicalTree \cup DetachedTree
  PROVE LET x == MergeInto(w, head, Source(s)) IN
        s \in x.index /\ ~x.stray /\ Covers(x, head, {s})
<1> DEFINE x == MergeInto(w, head, Source(s))
<1>1. Source(s).tree = {s} BY DEF Source
<1>2. /\ ~x.stray /\ Covers(x, head, Source(s).tree)
      /\ x.merge = "none" => Within(Source(s), head) /\ x.index = head.tree
      /\ x.merge # "none" => x.index = head.tree \cup Source(s).tree
  BY Joined
<1>3. Within(Source(s), head) => s \in head.tree BY SourceHonest
<1> HIDE DEF x
<1> QED BY <1>1, <1>2, <1>3 DEF x

LEMMA HeadHonest ==
  ASSUME NEW T, Truthful(T), NEW s \in Sessions
  PROVE Honest(Head(mem[s], s), T, made)
BY Sees DEF Head

(* A step between the preparation and the validation of a ready session.     *)
LEMMA Builds ==
  ASSUME NEW s \in Sessions, IInv, Step(s), NEW T, Truthful(T), pc[s] \in {"merge", "nested"},
         NEW w, SetWorktree(s, w), s \in w.index,
         mem[s].where = "canonical" => w \in CanonicalTree /\ w.there = canonical.there,
         mem[s].where = "isolated" => w \in DetachedTree /\ w.head = detached[s].head,
         UNCHANGED <<target, staging, made>>, manifest'[s].local = manifest[s].local,
         manifest'[s].merged = manifest[s].merged \/ s \in manifest'[s].merged.tree,
         HonestRecord(rec'[s], T, made), HonestRecord(mem'[s], T, made), Working(s)',
         mem[s].where = "canonical" => w.of = s
  PROVE Truthful(T)'
<1>1. mem[s].status = "ready" /\ mem[s].where \in {"canonical", "isolated"}
  BY Known DEF Running, AtMerge
<1>2. manifest[s].local = None BY <1>1, ReadyIsPlain
<1>3. mem[s].where = "canonical" => canonical' = w /\ detached' = detached
  BY DEF SetWorktree
<1>4. mem[s].where = "isolated" => canonical' = canonical /\ detached'[s] = w
  BY Known DEF SetWorktree, Typed
<1>5. Shared(canonical') BY <1>1, <1>3, <1>4, Sees DEF Shared, Working
<1>6. Honest(detached'[s].head, T, made) BY <1>1, <1>3, <1>4, Sees
<1>7. Brings(s, manifest'[s], detached'[s]) BY <1>1, <1>2, <1>3, <1>4, Sees DEF Brings
<1>8. Joins(manifest'[s], detached'[s], staging') /\ \A r : Aside(r, manifest'[s], staging')
  BY <1>2 DEF Joins, Aside
<1>9. HonestLocal(manifest'[s].local, T, made) BY <1>2 DEF HonestLocal
<1>10. Wider(T, T) BY StaysWide
<1> QED BY <1>5, <1>6, <1>7, <1>8, <1>9, <1>10, Sees, Advances

LEMMA MergeTruthful ==
  ASSUME NEW s \in Sessions, IInv, NEW T, Truthful(T), Merge(s)
  PROVE Truthful(T)'
<1> DEFINE head == Head(mem[s], s)
           w == MergeInto(Worktree(mem[s], s), head, Source(s))
           m == WithTree(manifest[s], head, w.index)
<1>1. /\ pc[s] = "merge" /\ SetWorktree(s, w) /\ Append(s, m) /\ Go(s, "validate")
      /\ UNCHANGED <<target, staging, rec, mem, made>>
  BY DEF Merge, branches, rest
<1>2. AtMerge(s) BY <1>1, Known DEF Running
<1>3. /\ mem[s].where = "canonical" => w \in CanonicalTree
      /\ mem[s].where = "isolated" =>
           w \in DetachedTree /\ w.head = detached[s].head /\ w.kind = detached[s].kind
      /\ w.merge = "none" => w.index = head.tree
  BY <1>2, MergeTree
<1>4. Worktree(mem[s], s) \in CanonicalTree \cup DetachedTree
      /\ (mem[s].where = "canonical" => Worktree(mem[s], s) = canonical /\ canonical \in CanonicalTree)
  BY Known, Worktrees DEF Typed
<1>5. s \in w.index /\ ~w.stray /\ Covers(w, head, {s})
  BY <1>4, Sees, HeadHonest, JoinedSource
<1>6. mem[s].where = "canonical" => w.of = canonical.of /\ w.there = canonical.there
  BY <1>4, Joined
<1>7. m.local = manifest[s].local /\ m.merged.tree = w.index
  BY Known DEF WithTree, Manifest
<1> HIDE DEF w, m
<1>8. manifest'[s] = m BY <1>1, Known DEF Append, Typed
<1>9. /\ mem[s].status = "ready" /\ mem[s].where \in {"canonical", "isolated"}
      /\ mem[s].phase # "local_target" /\ manifest[s].local = None
  BY <1>2, ReadyIsFresh, ReadyIsPlain DEF AtMerge
<1>10. Worktree(mem[s], s)' = w /\ Head(mem[s], s)' = head
  <2>1. \A r \in Record : r.where = mem[s].where =>
          Worktree(r, s)' = w /\ Head(r, s)' = Head(mem[s], s)
    BY <1>1, <1>3, <1>9, SetsWorktree
  <2> QED BY <1>1, <2>1, Known DEF Worktree, Head
<1>11. pc'[s] = "validate" BY <1>1, Known DEF Go, Locked
<1>12. ToCommit(s)'
  BY <1>1, <1>5, <1>7, <1>8, <1>9, <1>10 DEF ToCommit, Covers
<1>13. Working(s)' BY <1>11, <1>12 DEF Working
<1>14. Step(s) BY MergeSteps
<1>15. mem[s].where = "canonical" => canonical.of = s BY <1>1, Sees DEF Working
<1> QED BY <1>1, <1>3, <1>5, <1>6, <1>7, <1>8, <1>13, <1>14, <1>15, Sees, Builds

LEMMA MergeConflictsTruthful ==
  ASSUME NEW s \in Sessions, IInv, NEW T, Truthful(T), MergeConflicts(s)
  PROVE Truthful(T)'
<1> DEFINE head == Head(mem[s], s)
           w == MergeInto(Worktree(mem[s], s), head, Source(s))
           r == [mem[s] EXCEPT !.awaiting = TRUE, !.conflictHead = head]
<1>1. /\ pc[s] = "merge" /\ SetWorktree(s, w) /\ w.merge = "open"
      /\ manifest' = [manifest EXCEPT ![s].empty = FALSE]
      /\ \/ Save(s, r) /\ Go(s, "nested")
         \/ Fail(s, r)
      /\ UNCHANGED <<target, staging, made>>
  BY DEF MergeConflicts, branches, rest
<1>2. AtMerge(s) BY <1>1, Known DEF Running
<1>3. /\ mem[s].where = "canonical" => w \in CanonicalTree
      /\ mem[s].where = "isolated" =>
           w \in DetachedTree /\ w.head = detached[s].head /\ w.kind = detached[s].kind
      /\ w.merge = "none" => w.index = head.tree
      /\ head \in Commit
  BY <1>2, MergeTree
<1>4. Worktree(mem[s], s) \in CanonicalTree \cup DetachedTree
      /\ (mem[s].where = "canonical" => Worktree(mem[s], s) = canonical /\ canonical \in CanonicalTree)
  BY Known, Worktrees DEF Typed
<1>5. s \in w.index /\ ~w.stray /\ Covers(w, head, {s})
  BY <1>4, Sees, HeadHonest, JoinedSource
<1>6. mem[s].where = "canonical" => w.of = canonical.of /\ w.there = canonical.there
  BY <1>4, Joined
<1> HIDE DEF w
<1>7. manifest'[s].local = manifest[s].local /\ manifest'[s].merged = manifest[s].merged
  BY <1>1, Known DEF Typed, Manifest
<1>8. /\ mem[s].status = "ready" /\ mem[s].where \in {"canonical", "isolated"}
  BY <1>2 DEF AtMerge
<1>9. /\ r \in Record /\ r.where = mem[s].where /\ r.expected = mem[s].expected
      /\ r.integrated = mem[s].integrated /\ r.local = mem[s].local
      /\ r.conflictHead = head
  BY <1>3, Known DEF Record
<1> HIDE DEF r
<1>10. HonestRecord(r, T, made) BY <1>9, HeadHonest, Sees DEF HonestRecord, Plain
<1>11. Step(s) BY MergeConflictsSteps
<1>12. mem[s].where = "canonical" => canonical.of = s /\ canonical.there
  BY <1>1, Sees DEF Working
<1>13. CASE Save(s, r) /\ Go(s, "nested")
  <2>1. rec'[s] = r /\ mem'[s] = r BY <1>9, <1>13, Known, Saves
  <2>2. pc'[s] = "nested" BY <1>13, Known DEF Go, Locked
  <2>3. \A x \in Record : x.where = mem[s].where =>
          Worktree(x, s)' = w /\ Head(x, s)' = Head(mem[s], s)
    BY <1>1, <1>3, <1>8, SetsWorktree
  <2>4. Worktree(mem[s], s)' = w /\ Head(mem[s], s)' = head
    BY <1>9, <2>1, <2>3 DEF Worktree, Head
  <2>5. mem[s].where = "canonical" => canonical' = w BY <1>1 DEF SetWorktree
  <2>6. Working(s)'
    BY <1>1, <1>5, <1>6, <1>9, <1>12, <2>1, <2>2, <2>4, <2>5 DEF Working, Covers
  <2> QED BY <1>1, <1>3, <1>5, <1>6, <1>7, <1>10, <1>11, <1>12, <2>1, <2>6, Builds
<1>14. CASE Fail(s, r)
  <2>1. /\ pc'[s] = "idle" /\ rec'[s] = Failed(r) /\ mem'[s] = Failed(r)
    BY <1>1, <1>9, <1>14, Known, Fails
  <2>2. HonestRecord(Failed(r), T, made) BY <1>9, <1>10, FailedRecord DEF HonestRecord
  <2>3. Working(s)' BY <2>1 DEF Working
  <2> QED BY <1>1, <1>3, <1>5, <1>6, <1>7, <1>11, <1>12, <2>1, <2>2, <2>3, Builds
<1> QED BY <1>1, <1>13, <1>14

LEMMA NestedResolvesTruthful ==
  ASSUME NEW s \in Sessions, IInv, NEW T, Truthful(T), NestedResolves(s)
  PROVE Truthful(T)'
<1> DEFINE head == Head(mem[s], s)
           v == Worktree(mem[s], s)
           w == [v EXCEPT !.merge = "staged"]
           m == WithTree(manifest[s], head, w.index)
<1>1. /\ pc[s] = "nested" /\ SetWorktree(s, w) /\ Append(s, m) /\ Go(s, "validate")
      /\ UNCHANGED <<target, staging, rec, mem, made>>
  BY DEF NestedResolves, branches, rest
<1>2. AtMerge(s) BY <1>1, Known DEF Running
<1>3. v.merge # "none" /\ ~v.stray /\ Covers(v, head, {s}) BY <1>1, Sees DEF Working
<1>4. v \in CanonicalTree \cup DetachedTree
      /\ (mem[s].where = "canonical" => v = canonical /\ canonical \in CanonicalTree)
      /\ (mem[s].where = "isolated" => v = detached[s])
  BY Known, Worktrees DEF Typed
<1>5. w.merge = "staged" /\ w.index = v.index /\ w.stray = v.stray
  BY <1>4 DEF CanonicalTree, DetachedTree
<1>6. mem[s].where = "canonical" =>
        w \in CanonicalTree /\ w.of = canonical.of /\ w.there = canonical.there
  BY <1>4 DEF CanonicalTree, Merges
<1>7. mem[s].where = "isolated" =>
        w \in DetachedTree /\ w.head = detached[s].head /\ w.kind = detached[s].kind
  BY <1>4, Known, StagedTrees
<1>8. m.local = manifest[s].local /\ m.merged.tree = w.index
  BY Known DEF WithTree, Manifest
<1> HIDE DEF v, w, m
<1>9. s \in w.index /\ ~w.stray /\ Covers(w, head, {s}) BY <1>3, <1>5 DEF Covers
<1>10. manifest'[s] = m BY <1>1, Known DEF Append, Typed
<1>11. /\ mem[s].status = "ready" /\ mem[s].where \in {"canonical", "isolated"}
       /\ mem[s].phase # "local_target" /\ manifest[s].local = None
  BY <1>2, ReadyIsFresh, ReadyIsPlain DEF AtMerge
<1>12. Worktree(mem[s], s)' = w /\ Head(mem[s], s)' = head
  <2>1. \A r \in Record : r.where = mem[s].where =>
          Worktree(r, s)' = w /\ Head(r, s)' = Head(mem[s], s)
    BY <1>1, <1>5, <1>6, <1>7, <1>11, SetsWorktree
  <2> QED BY <1>1, <2>1, Known DEF Worktree, Head
<1>13. pc'[s] = "validate" BY <1>1, Known DEF Go, Locked
<1>14. ToCommit(s)'
  BY <1>1, <1>8, <1>9, <1>10, <1>11, <1>12 DEF ToCommit, Covers
<1>15. Working(s)' BY <1>13, <1>14 DEF Working
<1>16. Step(s) BY NestedResolvesSteps
<1>17. mem[s].where = "canonical" => canonical.of = s BY <1>1, Sees DEF Working
<1> QED BY <1>1, <1>6, <1>7, <1>8, <1>9, <1>10, <1>15, <1>16, <1>17, Sees, Builds

LEMMA ValidationPassesTruthful ==
  ASSUME NEW s \in Sessions, IInv, NEW T, Truthful(T), ValidationPasses(s)
  PROVE Truthful(T)'
<1> DEFINE w == Worktree(mem[s], s)
           m == WithTree(manifest[s], Head(mem[s], s), w.index)
           r == [mem[s] EXCEPT !.failed = FALSE]
<1>1. /\ pc[s] = "validate" /\ ~w.stray /\ Append(s, m) /\ Keep(s, r) /\ Go(s, "commit")
      /\ UNCHANGED <<target, staging, canonical, detached, made>>
  BY DEF ValidationPasses, branches, trees, NoUnstagedChanges
<1>2. m.local = manifest[s].local /\ m.merged.tree = w.index
  BY Known DEF WithTree, Manifest
<1>3. /\ r.phase = mem[s].phase /\ r.integrated = mem[s].integrated /\ r.local = mem[s].local
      /\ r.where = mem[s].where /\ r.conflictHead = mem[s].conflictHead
      /\ r.expected = mem[s].expected
  BY Known DEF Record
<1>4. Worktree(r, s) = w /\ Head(r, s) = Head(mem[s], s) BY <1>3 DEF Worktree, Head
<1> HIDE DEF m, r
<1>5. mem'[s] = r /\ rec' = rec BY <1>1, Known DEF Keep, Copies
<1>6. manifest'[s] = m BY <1>1, Known DEF Append, Typed
<1>7. pc'[s] = "commit" BY <1>1, Known DEF Go, Locked
<1>8. ToCommit(s) BY <1>1, Sees DEF Working
<1>9. Worktree(mem[s], s)' = w /\ Head(mem[s], s)' = Head(mem[s], s)
  BY <1>1, <1>4, <1>5 DEF Worktree, Head
<1>10. ToCommit(s)'
  BY <1>1, <1>2, <1>3, <1>5, <1>6, <1>8, <1>9 DEF ToCommit, Covers
<1>11. Working(s)' BY <1>7, <1>10 DEF Working
<1>12. mem[s].phase = "local_target" => manifest[s].local # None
  BY Known, NoneIsNoRecord DEF Described
<1>13. Brings(s, m, detached[s]) BY <1>2, <1>8, <1>12, Sees DEF Brings, ToCommit
<1>14. Joins(m, detached[s], staging) BY <1>2, Sees DEF Joins
<1>16. HonestRecord(r, T, made) BY <1>3, Sees DEF HonestRecord
<1>17. Wider(T, T) BY <1>1, StaysWide
<1>18. Step(s) BY ValidationPassesSteps
<1>19. Aside(r, m, staging) BY <1>1, <1>2, <1>3, Sees DEF Aside
<1>20. rec[s].status \in {"review", "promotion_pending"} => Aside(rec[s], m, staging)
  BY <1>2, Sees DEF Aside
<1> QED BY <1>1, <1>2, <1>5, <1>6, <1>11, <1>13, <1>14, <1>16, <1>17, <1>18, <1>19, <1>20,
           Sees, Advances

(* What is committed shows both sides of the merge.                          *)
LEMMA CommitShows ==
  ASSUME NEW s \in Sessions, IInv, NEW T, Truthful(T), pc[s] = "commit",
         Worktree(mem[s], s).merge # "none" => made[s] < MaxCommits,
         made' = IF Worktree(mem[s], s).merge # "none"
                 THEN [made EXCEPT ![s] = @ + 1] ELSE made
  PROVE LET other == IF mem[s].phase = "local_target" THEN mem[s].local.target ELSE Source(s)
            result == IF Worktree(mem[s], s).merge # "none"
                      THEN NewCommit(s, Head(mem[s], s), other, Worktree(mem[s], s).index)
                      ELSE Head(mem[s], s)
        IN \E U \in Colours : Wider(T, U) /\ Honest(result, U, made')
<1> DEFINE other == IF mem[s].phase = "local_target" THEN mem[s].local.target ELSE Source(s)
           w == Worktree(mem[s], s)
           head == Head(mem[s], s)
<1>1. Honest(head, T, made) BY HeadHonest
<1>2. CASE w.merge # "none"
  <2>1. ToCommit(s) BY Sees DEF Working
  <2>2. Honest(other, T, made)
    <3>1. CASE mem[s].phase = "local_target"
      <4>1. mem[s].local # None BY <3>1, Known, NoneIsNoRecord DEF Described
      <4> QED BY <3>1, <4>1, Sees DEF HonestRecord, HonestLocal
    <3>2. CASE mem[s].phase # "local_target" BY <3>2, Sees, SourceHonest
    <3> QED BY <3>1, <3>2
  <2>3. head.tree \cup other.tree \subseteq w.index
    BY <1>2, <2>1 DEF ToCommit, Covers, Source
  <2>4. w.index \in SUBSET Change BY Known, Worktrees
  <2> DEFINE U == Recoloured(T, s, w.index)
  <2>5. T \in Colours /\ made[s] < MaxCommits /\ made' = [made EXCEPT ![s] = @ + 1]
        /\ made \in [Sessions -> 0 .. MaxCommits]
    BY <1>2, Sees, Known DEF Typed
  <2>6. U \in Colours /\ Wider(T, U) /\ Honest(NewCommit(s, head, other, w.index), U, made')
    BY <1>1, <2>2, <2>3, <2>4, <2>5, Recolours
  <2> HIDE DEF U, other, head, w
  <2> QED BY <1>2, <2>6 DEF other, head, w
<1>3. CASE w.merge = "none"
  <2>1. T \in Colours /\ Wider(T, T) /\ Honest(head, T, made') BY <1>1, <1>3, Sees, StaysWide
  <2> QED BY <1>3, <2>1
<1> QED BY <1>2, <1>3

LEMMA CommitCanonicalTruthful ==
  ASSUME NEW s \in Sessions, IInv, NEW T, Truthful(T), CommitMerge(s), mem[s].where = "canonical"
  PROVE \E U \in Colours : Truthful(U)' /\ Wider(T, U)
<1> DEFINE w == Worktree(mem[s], s)
           head == Head(mem[s], s)
           other == IF mem[s].phase = "local_target" THEN mem[s].local.target ELSE Source(s)
           merging == w.merge # "none"
           result == IF merging THEN NewCommit(s, head, other, w.index) ELSE head
           r == [mem[s] EXCEPT !.integrated = result]
<1>1. /\ pc[s] = "commit" /\ merging => made[s] < MaxCommits
      /\ made' = IF merging THEN [made EXCEPT ![s] = @ + 1] ELSE made
      /\ staging' = result /\ canonical' = [canonical EXCEPT !.merge = "none"]
      /\ UNCHANGED <<detached, target>>
      /\ Go(s, "staged")
  BY DEF CommitMerge
<1>2. pc[s] = "commit" BY DEF CommitMerge
<1>3. AtValidate(s) BY <1>2, Known DEF Running
<1>4. mem[s].phase # "local_target" BY <1>3 DEF AtValidate, Based
<1>5. Keep(s, r) /\ Append(s, manifest[s]) BY <1>4 DEF CommitMerge
<1>6. \E U \in Colours : Wider(T, U) /\ Honest(result, U, made') BY <1>1, <1>2, CommitShows
<1> HIDE DEF result
<1>7. PICK U \in Colours : Wider(T, U) /\ Honest(result, U, made') BY <1>6
<1>8. /\ r.phase = mem[s].phase /\ r.integrated = result /\ r.local = mem[s].local
      /\ r.expected = mem[s].expected /\ r.conflictHead = mem[s].conflictHead
  BY Known DEF Record
<1> HIDE DEF r
<1>9. manifest' = manifest /\ mem'[s] = r /\ rec' = rec
  BY <1>5, Known DEF Keep, Append, Typed, Copies
<1>10. Step(s) BY CommitCanonicalSteps
<1>11. Within(staging, staging') BY <1>10 DEF Step, Grows
<1>12. Shared(canonical') BY <1>1, Known DEF Typed, CanonicalTree, Shared
<1>13. pc'[s] = "staged" BY <1>1, Known DEF Go, Locked
<1>14. Working(s)' BY <1>4, <1>8, <1>9, <1>13 DEF Working
<1>15. /\ Plain(mem[s].expected, U, made') /\ Plain(mem[s].conflictHead, U, made')
       /\ HonestLocal(mem[s].local, U, made') /\ HonestRecord(rec[s], U, made')
       /\ HonestLocal(manifest[s].local, U, made') /\ Honest(detached[s].head, U, made')
       /\ Honest(target, U, made')
  BY <1>7, Sees, Widens DEF HonestRecord, Wider
<1>16. HonestRecord(r, U, made') BY <1>7, <1>8, <1>15 DEF HonestRecord, Plain
<1>17. Aside(r, manifest[s], staging)
  BY <1>2, <1>8, Sees DEF Aside
<1>18. /\ Aside(r, manifest[s], staging') /\ Joins(manifest[s], detached[s], staging')
       /\ rec[s].status \in {"review", "promotion_pending"} => Aside(rec[s], manifest[s], staging')
  BY <1>11, <1>17, Sees, Leaving
<1>19. Truthful(U)'
  BY <1>1, <1>7, <1>9, <1>10, <1>12, <1>14, <1>15, <1>16, <1>18, Sees, Advances
<1> QED BY <1>7, <1>19

LEMMA CommitDetachedTruthful ==
  ASSUME NEW s \in Sessions, IInv, NEW T, Truthful(T), CommitMerge(s), mem[s].where # "canonical"
  PROVE \E U \in Colours : Truthful(U)' /\ Wider(T, U)
<1> DEFINE w == Worktree(mem[s], s)
           head == Head(mem[s], s)
           other == IF mem[s].phase = "local_target" THEN mem[s].local.target ELSE Source(s)
           merging == w.merge # "none"
           result == IF merging THEN NewCommit(s, head, other, w.index) ELSE head
           r == [mem[s] EXCEPT !.integrated = result]
<1>1. /\ pc[s] = "commit" /\ merging => made[s] < MaxCommits
      /\ made' = IF merging THEN [made EXCEPT ![s] = @ + 1] ELSE made
      /\ detached' = [detached EXCEPT ![s].head = result, ![s].merge = "none"]
      /\ UNCHANGED <<staging, canonical, target>>
      /\ Go(s, "stage")
  BY DEF CommitMerge
<1>2. pc[s] = "commit" BY DEF CommitMerge
<1>3. IF mem[s].phase = "local_target"
      THEN LET kept == [r EXCEPT !.local.result = result] IN
           Save(s, kept) /\ manifest' = [manifest EXCEPT ![s] = WithLocal(manifest[s], kept.local)]
      ELSE Keep(s, r) /\ Append(s, manifest[s])
  BY Known DEF CommitMerge, Typed
<1>4. \E U \in Colours : Wider(T, U) /\ Honest(result, U, made') BY <1>1, <1>2, CommitShows
<1> HIDE DEF result
<1>5. PICK U \in Colours : Wider(T, U) /\ Honest(result, U, made') BY <1>4
<1>6. result \in Commit BY <1>5 DEF Honest
<1>7. detached'[s].head = result /\ detached'[s].merge = "none"
  BY <1>1, Known DEF Typed, DetachedTree
<1>8. /\ r \in Record /\ r.phase = mem[s].phase /\ r.integrated = result
      /\ r.local = mem[s].local /\ r.expected = mem[s].expected
      /\ r.conflictHead = mem[s].conflictHead
  BY <1>6, Known DEF Record
<1>9. Step(s) BY CommitDetachedSteps
<1>10. pc'[s] = "stage" BY <1>1, Known DEF Go, Locked
<1>11. /\ Plain(mem[s].expected, U, made') /\ Plain(mem[s].conflictHead, U, made')
       /\ HonestLocal(mem[s].local, U, made') /\ HonestRecord(rec[s], U, made')
       /\ HonestLocal(manifest[s].local, U, made') /\ Honest(target, U, made')
       /\ Honest(staging, U, made')
  BY <1>5, Sees, Widens DEF HonestRecord, Wider
<1>12. CASE mem[s].phase = "local_target"
  <2> DEFINE l == [mem[s].local EXCEPT !.result = result]
             k == [r EXCEPT !.local = l]
             m == WithLocal(manifest[s], l)
  <2>1. /\ mem[s].local \in Recovery /\ mem[s].local # None /\ manifest[s].local # None
    BY <1>12, Known, NoneIsNoRecord DEF Described
  <2>2. /\ l.result = result /\ l.before = mem[s].local.before /\ l.base = mem[s].local.base
        /\ l.target = mem[s].local.target /\ l \in Recovery
    BY <1>6, <2>1 DEF Recovery
  <2>3. k = [r EXCEPT !.local.result = result] /\ k.local = l
    BY <1>8 DEF Record
  <2>4. Save(s, k) /\ manifest' = [manifest EXCEPT ![s] = m]
    BY <1>3, <1>12, <2>3
  <2>5. /\ k \in Record /\ k.phase = "local_target" /\ k.integrated = result
        /\ k.expected = mem[s].expected /\ k.conflictHead = mem[s].conflictHead
    BY <1>8, <1>12, <2>2 DEF Record
  <2>6. m.local = l /\ m.merged = manifest[s].merged BY Known DEF WithLocal, Manifest
  <2> HIDE DEF l, k, m
  <2>7. manifest'[s] = m BY <2>4, Known DEF Typed
  <2>8. rec'[s] = k /\ mem'[s] = k BY <2>4, <2>5, Known, Saves
  <2>9. l # None /\ l.result # None BY <1>6, <2>2, NoneIsNoRecord
  <2>10. HonestLocal(l, U, made') BY <1>5, <1>11, <2>1, <2>2 DEF HonestLocal, Plain
  <2>11. HonestRecord(k, U, made')
    BY <1>5, <1>11, <2>3, <2>5, <2>10 DEF HonestRecord, Plain
  <2>12. Brings(s, m, detached'[s]) /\ Joins(m, detached'[s], staging') /\ Aside(k, m, staging')
    BY <2>5, <2>6, <2>9 DEF Brings, Joins, Aside
  <2>13. Working(s)' BY <1>10, <2>6, <2>7, <2>9 DEF Working
  <2>14. Truthful(U)'
    BY <1>1, <1>5, <1>7, <1>9, <1>11, <2>6, <2>7, <2>8, <2>10, <2>11, <2>12, <2>13, Sees, Advances
  <2> QED BY <1>5, <2>14
<1>13. CASE mem[s].phase # "local_target"
  <2> HIDE DEF r
  <2>1. manifest' = manifest /\ mem'[s] = r /\ rec' = rec
    BY <1>3, <1>13, Known DEF Keep, Append, Typed, Copies
  <2>2. HonestRecord(r, U, made') BY <1>5, <1>8, <1>11 DEF HonestRecord, Plain
  <2>3. Aside(r, manifest[s], staging) BY <1>2, <1>8, Sees DEF Aside
  <2>4. Brings(s, manifest[s], detached'[s]) /\ Joins(manifest[s], detached'[s], staging)
    BY <1>7, Sees DEF Brings, Joins
  <2>5. Working(s)' BY <1>8, <1>10, <1>13, <2>1 DEF Working
  <2>6. Truthful(U)'
    BY <1>1, <1>5, <1>7, <1>9, <1>11, <2>1, <2>2, <2>3, <2>4, <2>5, Sees, Advances
  <2> QED BY <1>5, <2>6
<1> QED BY <1>12, <1>13

LEMMA BypassTruthful ==
  ASSUME NEW s \in Sessions, IInv, NEW T, Truthful(T), BypassWorktree(s)
  PROVE \E U \in Colours : Truthful(U)' /\ Wider(T, U)
<1> DEFINE from == mem[s].expected
           new == NewCommit(s, from, Source(s), from.tree \cup {s})
           commit == IF Within(from, Source(s)) THEN Source(s) ELSE new
           r == [mem[s] EXCEPT !.integrated = commit, !.awaiting = FALSE]
<1>1. /\ pc[s] = "prepare" /\ Go(s, "staged") /\ staging' = commit /\ Keep(s, r)
      /\ Append(s, [manifest[s] EXCEPT !.empty = FALSE])
      /\ Within(from, Source(s)) \/ made[s] < MaxCommits
      /\ made' = IF commit = Source(s) THEN made ELSE [made EXCEPT ![s] = @ + 1]
      /\ canonical' = [canonical EXCEPT !.there = FALSE]
      /\ Removable(canonical, staging) /\ UNCHANGED <<target, detached>>
  BY DEF BypassWorktree
<1>2. mem[s].status = "ready" /\ from \in Commit BY <1>1, Known DEF Running, AtPrepare
<1>3. Honest(from, T, made) /\ Honest(Source(s), T, made)
  BY <1>2, Sees, SourceHonest, NoneIsNoRecord DEF HonestRecord, Plain
<1>4. \E U \in Colours : Wider(T, U) /\ Honest(commit, U, made')
  <2>1. CASE commit = Source(s)
    <3>1. T \in Colours /\ Wider(T, T) /\ Honest(commit, T, made')
      BY <1>1, <1>3, <2>1, Sees, StaysWide
    <3> QED BY <3>1
  <2>2. CASE commit # Source(s)
    <3>1. commit = new /\ made[s] < MaxCommits /\ made' = [made EXCEPT ![s] = @ + 1]
      BY <1>1, <2>2
    <3>2. /\ from.tree \cup Source(s).tree \subseteq from.tree \cup {s}
          /\ from.tree \cup {s} \in SUBSET Change
      BY <1>2 DEF Source, Commit, Change
    <3>3. T \in Colours /\ made \in [Sessions -> 0 .. MaxCommits] BY Sees, Known DEF Typed
    <3> DEFINE U == Recoloured(T, s, from.tree \cup {s})
    <3>4. U \in Colours /\ Wider(T, U) /\ Honest(new, U, made')
      BY <1>3, <3>1, <3>2, <3>3, Recolours
    <3> HIDE DEF U, new
    <3> QED BY <3>1, <3>4
  <2> QED BY <2>1, <2>2
<1> HIDE DEF commit
<1>5. PICK U \in Colours : Wider(T, U) /\ Honest(commit, U, made') BY <1>4
<1>6. /\ r.phase = mem[s].phase /\ r.integrated = commit /\ r.local = mem[s].local
      /\ r.expected = mem[s].expected /\ r.conflictHead = mem[s].conflictHead
  BY Known DEF Record
<1> HIDE DEF r
<1>7. mem'[s] = r /\ rec' = rec BY <1>1, Known DEF Keep, Copies
<1>8. manifest'[s].local = manifest[s].local /\ manifest'[s].merged = manifest[s].merged
  BY <1>1, Known DEF Append, Typed, Manifest
<1>9. manifest[s].local = None /\ mem[s].phase # "local_target"
  BY <1>2, ReadyIsPlain, ReadyIsFresh
<1>10. canonical.merge = "none" BY <1>1, Sees DEF Removable, Clean, Shared
<1>11. Shared(canonical') BY <1>1, <1>10, Known DEF Typed, CanonicalTree, Shared
<1>12. pc'[s] = "staged" BY <1>1, Known DEF Go, Locked
<1>13. Working(s)' BY <1>6, <1>7, <1>9, <1>12 DEF Working
<1>14. /\ Plain(mem[s].expected, U, made') /\ Plain(mem[s].conflictHead, U, made')
       /\ HonestLocal(mem[s].local, U, made') /\ HonestRecord(rec[s], U, made')
       /\ HonestLocal(manifest[s].local, U, made') /\ Honest(detached[s].head, U, made')
       /\ Honest(target, U, made')
  BY <1>5, Sees, Widens DEF HonestRecord, Wider
<1>15. HonestRecord(r, U, made') BY <1>5, <1>6, <1>14 DEF HonestRecord, Plain
<1>16. /\ Brings(s, manifest'[s], detached'[s]) /\ Joins(manifest'[s], detached'[s], staging')
       /\ \A x : Aside(x, manifest'[s], staging')
  BY <1>1, <1>8, <1>9, Sees DEF Brings, Joins, Aside
<1>17. Step(s) BY BypassSteps
<1>18. Truthful(U)'
  BY <1>1, <1>5, <1>7, <1>8, <1>11, <1>13, <1>14, <1>15, <1>16, <1>17, Advances
<1> QED BY <1>5, <1>18

(* What the resolution staged in the session's worktree has its change.      *)
LEMMA ImportedBrings ==
  ASSUME IInv, NEW T, Truthful(T), NEW s \in Sessions, manifest[s].local = None
  PROVE Imported(s).merged # None => s \in Imported(s).merged.tree
<1> DEFINE w == Worktree(mem[s], s)
           take == mem[s].awaiting /\ HoldsMerge(mem[s], s) /\ w.merge = "staged"
<1>1. CASE ~take BY <1>1, Sees DEF Imported, Brings
<1>2. CASE take
  <2>1. s # None BY IntegrationAssumption
  <2>2. mem[s].where \in {"none", "canonical"} => w = canonical /\ canonical.of = s
    BY <1>2 DEF HoldsMerge, Worktree
  <2>3. mem[s].where \notin {"none", "canonical"} => w = detached[s] BY DEF Worktree
  <2>4. s \in w.index BY <1>2, <2>1, <2>2, <2>3, Sees DEF Shared, Brings
  <2>5. Imported(s).merged.tree = w.index BY <1>2, Known DEF Imported, WithTree, Manifest
  <2> QED BY <2>4, <2>5
<1> QED BY <1>1, <1>2

(* In the reconstructed worktree the change of the session is there, and     *)
(* what staging has is, or files are missing, which stops the command.       *)
LEMMA Reconstructed ==
  ASSUME NEW T \in Colours, NEW s \in Sessions, NEW head, Honest(head, T, made),
         NEW m \in Manifest, m.merged # None => s \in m.merged.tree, Change \subseteq Adding
  PROVE LET w == IF Remerges(m) THEN MergeInto(Fresh(head), head, Source(s))
                 ELSE Reread(m.merged.tree, head)
        IN s \in w.index /\ (w.stray \/ Covers(w, head, {s}))
<1>1. head \in Commit BY DEF Honest
<1>2. CASE Remerges(m) BY <1>1, <1>2, FreshTrees, JoinedSource
<1>3. CASE ~Remerges(m)
  <2> DEFINE t == m.merged.tree
             w == Reread(t, head)
  <2>1. s \in t BY <1>3 DEF Remerges
  <2>2. w.index = t /\ w.stray = (Adding \cap (head.tree \ t) # {}) BY DEF Reread, Fresh
  <2>3. head.tree \subseteq Adding BY <1>1 DEF Commit
  <2> HIDE DEF w, t
  <2>4. w.stray \/ Covers(w, head, {s}) BY <2>1, <2>2, <2>3 DEF Covers
  <2> QED BY <1>3, <2>1, <2>2, <2>4 DEF w, t
<1> QED BY <1>2, <1>3

LEMMA ReconstructTruthful ==
  ASSUME NEW s \in Sessions, IInv, NEW T, Truthful(T), Reconstruct(s), Change \subseteq Adding
  PROVE Truthful(T)'
<1> DEFINE m == Imported(s)
           head == IF m.empty THEN target ELSE staging
           w == IF Remerges(m) THEN MergeInto(Fresh(head), head, Source(s))
                ELSE Reread(m.merged.tree, head)
           expected == IF m.empty \/ (m.merged # None /\ Remerges(m)) THEN target
                       ELSE mem[s].expected
           r == [mem[s] EXCEPT !.where = "recovery", !.conflictHead = head,
                   !.expected = expected, !.awaiting = @ \/ w.merge = "open"]
           n == IF m.empty /\ w.merge # "open" THEN WithTree(m, head, w.index)
                ELSE [m EXCEPT !.empty = FALSE]
<1>1. /\ pc[s] = "reconstruct" /\ staging' = head
      /\ detached' = [detached EXCEPT ![s] = w] /\ manifest' = [manifest EXCEPT ![s] = n]
      /\ UNCHANGED <<target, canonical, made>>
  BY DEF Reconstruct, rest
<1>2. Continue(s, r, w)
  <2>1. expected = IF m.empty \/ (m.merged # None /\ Remerges(m)) THEN target
                   ELSE mem[s].expected
    OBVIOUS
  <2> QED BY Known DEF Reconstruct, Record
<1>3. Step(s) BY ReconstructSteps
<1>4. mem[s].phase # "local_target" BY <1>1, Known DEF Running
<1>5. m \in Manifest /\ m.local = manifest[s].local BY ImportedManifest
<1>6. manifest[s].local = None => (m.merged # None => s \in m.merged.tree) BY ImportedBrings
<1> HIDE DEF m
<1>7. T \in Colours /\ Honest(head, T, made) BY Sees
<1>8. head \in Commit BY <1>7 DEF Honest
<1>9. Plain(expected, T, made) /\ expected \in Commit \cup {None}
  BY Sees, Known DEF HonestRecord, Plain, Typed, Record
<1> HIDE DEF head, expected
<1>10. w \in DetachedTree /\ w.head = head BY <1>5, <1>8, ReconstructedTree
<1>11. manifest[s].local = None => s \in w.index /\ (w.stray \/ Covers(w, head, {s}))
  BY <1>5, <1>6, <1>7, Reconstructed
<1> HIDE DEF w
<1>12. n.local = manifest[s].local /\ (n.merged = m.merged \/ n.merged.tree = w.index)
  BY <1>5 DEF WithTree, Manifest
<1>13. /\ r \in Record /\ r.phase = mem[s].phase /\ r.integrated = mem[s].integrated
       /\ r.local = mem[s].local /\ r.where = "recovery" /\ r.conflictHead = head
       /\ r.expected = expected
  <2>1. (mem[s].awaiting \/ w.merge = "open") \in BOOLEAN OBVIOUS
  <2> QED BY <1>8, <1>9, <2>1, Known DEF Record
<1> HIDE DEF n, r
<1>14. manifest'[s] = n /\ detached'[s] = w BY <1>1, Known DEF Typed
<1>15. HonestRecord(r, T, made) BY <1>7, <1>9, <1>13, Sees DEF HonestRecord, Plain
<1>16. Within(staging, staging') BY <1>3 DEF Step, Grows
<1>17. Aside(mem[s], manifest[s], staging') BY <1>1, <1>16, Sees, Leaving
<1>18. Aside(r, n, staging') BY <1>12, <1>13, <1>17 DEF Aside
<1>19. Joins(n, w, staging') BY <1>4, <1>12, <1>17 DEF Joins, Aside
<1>20. Brings(s, n, w) BY <1>6, <1>11, <1>12 DEF Brings
<1>21. HonestLocal(n.local, T, made) BY <1>12, Sees
<1>22. Shared(canonical') BY <1>1, Sees
<1>23. CASE r.phase = "pull_request"
  <2>1. Save(s, r) /\ Go(s, "finish") BY <1>2, <1>23 DEF Continue
  <2>2. pc'[s] = "finish" BY <1>1, <2>1, Known DEF Go, Locked
  <2>3. Working(s)' BY <2>2 DEF Working
  <2> QED BY <1>1, <1>3, <1>7, <1>10, <1>13, <1>14, <1>15, <1>18, <1>19, <1>20, <1>21, <1>22,
             <2>1, <2>3, Sees, Proceeds
<1>24. CASE r.phase \in {"promotion", "post_integration"}
  <2> DEFINE p == [r EXCEPT !.phase = "promotion"]
  <2>1. Save(s, p) /\ Go(s, "promote") BY <1>2, <1>24 DEF Continue
  <2>2. /\ p \in Record /\ p.phase = "promotion" /\ p.integrated = r.integrated
        /\ p.local = r.local /\ p.expected = r.expected /\ p.conflictHead = r.conflictHead
    BY <1>13 DEF Record
  <2> HIDE DEF p
  <2>3. HonestRecord(p, T, made) BY <1>15, <2>2 DEF HonestRecord
  <2>4. Aside(p, n, staging') BY <1>18, <1>24, <2>2 DEF Aside
  <2>5. pc'[s] = "promote" /\ mem'[s] = p BY <1>1, <2>1, <2>2, Known, Saves DEF Go, Locked
  <2>6. Working(s)' BY <2>2, <2>5 DEF Working
  <2> QED BY <1>1, <1>3, <1>7, <1>10, <1>14, <1>19, <1>20, <1>21, <1>22,
             <2>1, <2>2, <2>3, <2>4, <2>6, Sees, Proceeds
<1>25. CASE r.phase \notin {"pull_request", "promotion", "post_integration"}
  <2>1. \/ Save(s, r) /\ Go(s, "validate")
        \/ Fail(s, r)
    BY <1>2, <1>25 DEF Continue
  <2>2. CASE Save(s, r) /\ Go(s, "validate")
    <3>1. r.phase = "none" BY <1>4, <1>13, <1>25 DEF Record
    <3>2. manifest[s].local = None BY <1>12, <1>18, <3>1 DEF Aside
    <3>3. pc'[s] = "validate" /\ mem'[s] = r BY <1>1, <1>13, <2>2, Known, Saves DEF Go, Locked
    <3>4. Worktree(mem[s], s)' = w /\ Head(mem[s], s)' = head
      BY <1>10, <1>13, <1>14, <3>3 DEF Worktree, Head
    <3>5. ToCommit(s)'
      BY <1>11, <1>12, <1>14, <3>1, <3>2, <3>3, <3>4 DEF ToCommit, Covers
    <3>6. Working(s)' BY <3>3, <3>5 DEF Working
    <3> QED BY <1>1, <1>3, <1>7, <1>10, <1>13, <1>14, <1>15, <1>18, <1>19, <1>20, <1>21, <1>22,
               <2>2, <3>6, Sees, Proceeds
  <2>3. CASE Fail(s, r)
    <3>1. pc'[s] = "idle" /\ rec'[s] = Failed(r) /\ mem'[s] = Failed(r)
      BY <1>1, <1>13, <2>3, Known, Fails
    <3>2. HonestRecord(Failed(r), T, made) BY <1>13, <1>15, FailedRecord DEF HonestRecord
    <3>3. Aside(Failed(r), n, staging') BY <1>13, <1>18, FailedRecord DEF Aside
    <3>4. Working(s)' BY <3>1 DEF Working
    <3>5. Wider(T, T) BY <1>1, StaysWide
    <3> QED BY <1>1, <1>3, <1>7, <1>10, <1>14, <1>19, <1>20, <1>21, <1>22,
               <3>1, <3>2, <3>3, <3>4, <3>5, Sees, Advances
  <2> QED BY <2>1, <2>2, <2>3
<1> QED BY <1>23, <1>24, <1>25

LEMMA ReconstructDivergesTruthful ==
  ASSUME NEW s \in Sessions, IInv, NEW T, Truthful(T), ReconstructDiverges(s)
  PROVE Truthful(T)'
<1> DEFINE m == Imported(s)
           w == Fresh(staging)
           r == [mem[s] EXCEPT !.where = "recovery", !.conflictHead = staging]
<1>1. /\ pc[s] = "reconstruct" /\ Fail(s, r)
      /\ manifest' = [manifest EXCEPT ![s] = m] /\ detached' = [detached EXCEPT ![s] = w]
      /\ UNCHANGED <<target, staging, canonical, made>>
  BY DEF ReconstructDiverges, branches, rest
<1>2. m.local = manifest[s].local BY ImportedManifest
<1>3. manifest[s].local = None => (m.merged # None => s \in m.merged.tree) BY ImportedBrings
<1>4. staging \in Commit BY Known DEF Typed
<1>5. w.head = staging /\ w.merge = "none" BY <1>4, FreshTrees
<1>6. /\ r \in Record /\ r.phase = mem[s].phase /\ r.integrated = mem[s].integrated
      /\ r.local = mem[s].local /\ r.expected = mem[s].expected /\ r.conflictHead = staging
  BY <1>4, Known DEF Record
<1> HIDE DEF m, w, r
<1>7. manifest'[s] = m /\ detached'[s] = w BY <1>1, Known DEF Typed
<1>8. HonestRecord(r, T, made) BY <1>6, Sees DEF HonestRecord, Plain
<1>9. Aside(r, m, staging) BY <1>1, <1>2, <1>6, Sees DEF Aside
<1>10. Brings(s, m, w) /\ Joins(m, w, staging) BY <1>2, <1>3, <1>5 DEF Brings, Joins
<1>11. Step(s) BY ReconstructDivergesSteps
<1> QED BY <1>1, <1>2, <1>5, <1>6, <1>7, <1>8, <1>9, <1>10, <1>11, Sees, Throws

------------------------------------------------------------------------------
LEMMA LocalLandedTruthful ==
  ASSUME NEW s \in Sessions, IInv, NEW T, Truthful(T), LocalLanded(s)
  PROVE Truthful(T)'
<1> DEFINE l == mem[s].local
           r == [mem[s] EXCEPT !.integrated = l.base, !.expected = l.target,
                   !.local = None, !.awaiting = FALSE, !.failed = FALSE, !.phase = "pull_request"]
<1>1. /\ Landed(mem[s]) /\ Go(s, "finish") /\ pc[s] # "idle"
      /\ UNCHANGED <<target, staging, canonical, detached, manifest, made>>
  BY DEF LocalLanded, branches, trees, rest
<1>2. Save(s, r) BY DEF LocalLanded
<1>3. mem[s].phase = "local_target" /\ staging # l.before BY <1>1 DEF Landed, StagingMoved
<1>4. l \in Recovery /\ l = manifest[s].local /\ Within(l.before, staging) BY <1>3, InRecovery
<1>5. Honest(l.base, T, made) /\ Honest(l.target, T, made) /\ Honest(l.before, T, made)
  BY <1>4, Sees, NoneIsNoRecord DEF HonestRecord, HonestLocal
<1>6. ~Within(staging, l.before) BY <1>3, <1>4, <1>5, Sees, SameCommit
<1>7. l.base \in Commit /\ l.target \in Commit BY <1>4 DEF Recovery
<1>8. /\ r \in Record /\ r.phase = "pull_request" /\ r.integrated = l.base
      /\ r.expected = l.target /\ r.local = None /\ r.conflictHead = mem[s].conflictHead
  BY <1>7, Known DEF Record
<1> HIDE DEF r
<1>9. HonestRecord(r, T, made) BY <1>5, <1>8, Sees DEF HonestRecord, HonestLocal, Plain
<1>10. Aside(r, manifest[s], staging) BY <1>4, <1>6, <1>8 DEF Aside
<1>11. pc'[s] = "finish" BY <1>1, Known DEF Go, Locked
<1>12. Step(s) BY LocalLandedSteps
<1> QED BY <1>1, <1>2, <1>8, <1>9, <1>10, <1>11, <1>12, Records DEF Steady

LEMMA LocalOpensTruthful ==
  ASSUME NEW s \in Sessions, IInv, NEW T, Truthful(T), LocalOpens(s)
  PROVE Truthful(T)'
<1> DEFINE again == Restarts(mem[s])
           base == IF again THEN mem[s].local.base ELSE mem[s].integrated
           from == IF again THEN mem[s].local.target ELSE mem[s].expected
           st == [base |-> base, target |-> target, before |-> staging,
                  resolved |-> None, result |-> None]
           m == WithLocal(manifest[s], st)
           w == [Fresh(base) EXCEPT !.kind = "local"]
           r == [mem[s] EXCEPT !.status = "review", !.phase = "local_target", !.local = st,
                   !.integrated = base, !.expected = from, !.where = "local",
                   !.conflictHead = base, !.awaiting = @ /\ ~again, !.failed = @ /\ ~again]
<1>1. /\ pc[s] = "local" /\ Opens(mem[s]) /\ Go(s, "reconcile")
      /\ manifest' = [manifest EXCEPT ![s] = m] /\ detached' = [detached EXCEPT ![s] = w]
      /\ UNCHANGED <<target, staging, canonical, made>>
  BY Known DEF LocalOpens, Typed, branches, rest
<1>2. Save(s, r) BY DEF LocalOpens
<1>3. AtLocal(s) BY <1>1, Known DEF Running
<1>4. again => mem[s].local \in Recovery
  BY InRecovery DEF Restarts, StagingMoved
<1>5. ~again => mem[s].integrated \in Commit BY <1>1, <1>3 DEF Opens, AtLocal
<1>6. Honest(base, T, made) /\ Plain(from, T, made)
  <2>1. ~again => Honest(mem[s].integrated, T, made) /\ Plain(mem[s].expected, T, made)
    BY <1>5, Sees, NoneIsNoRecord DEF HonestRecord, Plain
  <2>2. again => Honest(mem[s].local.base, T, made) /\ Honest(mem[s].local.target, T, made)
    BY <1>4, Sees, NoneIsNoRecord DEF HonestRecord, HonestLocal
  <2> HIDE DEF again
  <2> QED BY <2>1, <2>2 DEF Plain
<1>7. base \in Commit /\ from \in Commit \cup {None} BY <1>6 DEF Honest, Plain
<1> HIDE DEF base, from
<1>8. /\ st \in Recovery /\ st.base = base /\ st.target = target /\ st.before = staging
      /\ st.result = None
  BY <1>7, Known DEF Recovery, Typed
<1>9. HonestLocal(st, T, made) BY <1>6, <1>8, Sees DEF HonestLocal, Plain
<1>10. st # None BY <1>8, NoneIsNoRecord
<1> HIDE DEF st
<1>11. m.local = st BY <1>8, Known, Recoveries
<1>12. Fresh(base) \in DetachedTree /\ Fresh(base).head = base /\ Fresh(base).merge = "none"
  BY <1>7, FreshTrees
<1>13. w.head = base /\ w.merge = "none" BY <1>12 DEF DetachedTree
<1>14. /\ r \in Record /\ r.phase = "local_target" /\ r.local = st /\ r.integrated = base
       /\ r.expected = from /\ r.conflictHead = base
  <2> DEFINE waits == mem[s].awaiting /\ ~again
             fails == mem[s].failed /\ ~again
             x == [mem[s] EXCEPT !.status = "review", !.phase = "local_target", !.local = st,
                     !.integrated = base, !.expected = from, !.where = "local",
                     !.conflictHead = base, !.awaiting = waits, !.failed = fails]
  <2>1. waits \in BOOLEAN /\ fails \in BOOLEAN OBVIOUS
  <2>2. mem[s] \in Record /\ st \in Recovery BY <1>8, Known
  <2>3. r = x BY <2>2 DEF Record
  <2> HIDE DEF r, waits, fails
  <2>4. x \in Record BY <1>7, <2>1, <2>2 DEF Record
  <2>5. /\ x.phase = "local_target" /\ x.local = st /\ x.integrated = base
        /\ x.expected = from /\ x.conflictHead = base
    BY <2>2 DEF Record
  <2> QED BY <2>3, <2>4, <2>5
<1> HIDE DEF m, w, r
<1>15. manifest'[s] = m /\ detached'[s] = w BY <1>1, Known DEF Typed
<1>16. HonestRecord(r, T, made) BY <1>6, <1>9, <1>14 DEF HonestRecord, Plain
<1>17. Brings(s, m, w) /\ Joins(m, w, staging) /\ Aside(r, m, staging)
  BY <1>10, <1>11, <1>13, <1>14 DEF Brings, Joins, Aside
<1>18. pc'[s] = "reconcile" BY <1>1, Known DEF Go, Locked
<1>19. Working(s)' BY <1>18 DEF Working
<1>20. Step(s) BY LocalOpensSteps
<1> QED BY <1>1, <1>2, <1>6, <1>9, <1>11, <1>13, <1>14, <1>15, <1>16, <1>17, <1>19, <1>20,
           Sees, Proceeds

LEMMA LocalContinuesTruthful ==
  ASSUME NEW s \in Sessions, IInv, NEW T, Truthful(T), LocalContinues(s)
  PROVE Truthful(T)'
<1> DEFINE r == [mem[s] EXCEPT !.where = "local", !.conflictHead = mem[s].local.base]
<1>1. /\ mem[s].phase = "local_target" /\ pc[s] # "idle" /\ Go(s, "reconcile") /\ Save(s, r)
      /\ UNCHANGED <<target, staging, canonical, detached, manifest, made>>
  BY DEF LocalContinues, branches, trees, rest
<1>2. mem[s].local \in Recovery BY <1>1, InRecovery
<1>3. /\ r \in Record /\ r.phase = "local_target" /\ r.integrated = mem[s].integrated
      /\ r.local = mem[s].local /\ r.expected = mem[s].expected
      /\ r.conflictHead = mem[s].local.base
  BY <1>1, <1>2, Known DEF Record, Recovery
<1> HIDE DEF r
<1>4. HonestRecord(r, T, made)
  BY <1>2, <1>3, Sees, NoneIsNoRecord DEF HonestRecord, HonestLocal, Plain
<1>5. Aside(r, manifest[s], staging) BY <1>3 DEF Aside
<1>6. pc'[s] = "reconcile" BY <1>1, Known DEF Go, Locked
<1>7. Step(s) BY LocalContinuesSteps
<1> QED BY <1>1, <1>3, <1>4, <1>5, <1>6, <1>7, Records DEF Steady

LEMMA LocalResultTruthful ==
  ASSUME NEW s \in Sessions, IInv, NEW T, Truthful(T), LocalResult(s)
  PROVE Truthful(T)'
<1> DEFINE l == mem[s].local
           r == [mem[s] EXCEPT !.integrated = l.result, !.expected = l.target,
                   !.awaiting = FALSE, !.failed = FALSE, !.phase = "promotion"]
<1>1. /\ pc[s] = "reconcile" /\ l.result # None /\ staging' = l.result
      /\ Save(s, r) /\ Go(s, "promote")
      /\ UNCHANGED <<target, canonical, detached, manifest, made>>
  BY DEF LocalResult, trees, rest
<1>2. AtReconcile(s) BY <1>1, Known DEF Running
<1>3. l \in Recovery /\ l = manifest[s].local BY <1>2, InRecovery DEF AtReconcile
<1>4. l.result \in Commit /\ l.target \in Commit BY <1>1, <1>3 DEF Recovery
<1>5. Honest(l.result, T, made) /\ Honest(l.target, T, made)
  BY <1>1, <1>3, Sees, NoneIsNoRecord DEF HonestRecord, HonestLocal, Plain
<1>6. /\ r \in Record /\ r.phase = "promotion" /\ r.integrated = l.result
      /\ r.expected = l.target /\ r.local = mem[s].local
      /\ r.conflictHead = mem[s].conflictHead
  BY <1>4, Known DEF Record
<1> HIDE DEF r
<1>7. HonestRecord(r, T, made) BY <1>5, <1>6, Sees DEF HonestRecord, Plain
<1>8. Aside(r, manifest[s], staging') /\ Joins(manifest[s], detached[s], staging')
  BY <1>1, <1>3, <1>6 DEF Aside, Joins
<1>9. pc'[s] = "promote" /\ mem'[s] = r BY <1>1, <1>6, Known, Saves DEF Go, Locked
<1>10. Working(s)' BY <1>6, <1>9 DEF Working
<1>11. Step(s) BY LocalResultSteps
<1> QED BY <1>1, <1>5, <1>6, <1>7, <1>8, <1>10, <1>11, Sees, Proceeds

(* The resolution of a recovery that goes to validation has both sides.      *)
LEMMA Reconciles ==
  ASSUME NEW s \in Sessions, IInv, NEW T, Truthful(T), pc[s] = "reconcile",
         NEW st \in Recovery, st.before = mem[s].local.before, st.result = None,
         mem[s].local.result = None, NEW w, NEW m, m.local = st, Joins(m, w, staging)
  PROVE Covers(w, w.head, st.target.tree)
<1>1. AtReconcile(s) BY Known DEF Running
<1>2. staging = st.before
  BY <1>1, Known, NoneIsNoRecord DEF AtReconcile, Typed
<1>3. Within(staging, st.before) /\ st # None BY <1>2, WithinReflexive, NoneIsNoRecord
<1> QED BY <1>3 DEF Joins, Covers

LEMMA LocalMergesTruthful ==
  ASSUME NEW s \in Sessions, IInv, NEW T, Truthful(T), LocalMerges(s)
  PROVE Truthful(T)'
<1> DEFINE l == mem[s].local
           begun == detached[s].merge # "none"
           base == IF begun THEN l.base ELSE l.before
           w == IF begun THEN detached[s]
                ELSE [MergeInto(Fresh(base), base, l.target) EXCEPT !.kind = "local"]
           resolved == IF w.merge = "open" THEN None ELSE w.index
           st == [l EXCEPT !.base = base, !.resolved = resolved]
           opened == [mem[s] EXCEPT !.local = st, !.conflictHead = base]
           waiting == [opened EXCEPT !.awaiting = TRUE]
           going == [opened EXCEPT !.expected = st.target]
           m == WithLocal(manifest[s], st)
<1>1. /\ pc[s] = "reconcile" /\ l.result = None
      /\ detached' = [detached EXCEPT ![s] = w] /\ manifest' = [manifest EXCEPT ![s] = m]
      /\ \/ Fail(s, waiting)
         \/ Save(s, going) /\ Go(s, "validate")
      /\ UNCHANGED <<target, staging, canonical, made>>
  BY Known DEF LocalMerges, Typed, branches, rest
<1>2. AtReconcile(s) BY <1>1, Known DEF Running
<1>3. mem[s].phase = "local_target" /\ mem[s].where = "local" BY <1>2 DEF AtReconcile
<1>4. l \in Recovery /\ l = manifest[s].local /\ l # None
  BY <1>3, InRecovery, NoneIsNoRecord
<1>5. Honest(l.base, T, made) /\ Honest(l.before, T, made) /\ Honest(l.target, T, made)
  BY <1>4, Sees DEF HonestRecord, HonestLocal
<1>6. Honest(base, T, made) /\ base \in Commit BY <1>5 DEF Honest
<1>7. /\ w \in DetachedTree /\ Honest(w.head, T, made)
      /\ w.merge # "none" =>
           ~Within(staging, l.before) \/ w.head.tree \cup l.target.tree \subseteq w.index
  <2>1. CASE begun BY <1>1, <1>4, <2>1, Sees, Known DEF Joins
  <2>2. CASE ~begun
    <3> DEFINE x == MergeInto(Fresh(base), base, l.target)
    <3>1. /\ x \in DetachedTree /\ x.head = base
      BY <1>5, <1>6, FreshTrees, MergesInto DEF Honest
    <3>2. x.merge # "none" => base.tree \cup l.target.tree \subseteq x.index
      BY <1>6, FreshTrees, Joined
    <3> HIDE DEF x
    <3>3. /\ [x EXCEPT !.kind = "local"] \in DetachedTree
          /\ [x EXCEPT !.kind = "local"].head = base
          /\ [x EXCEPT !.kind = "local"].merge = x.merge
          /\ [x EXCEPT !.kind = "local"].index = x.index
      BY <3>1 DEF DetachedTree
    <3>4. w = [x EXCEPT !.kind = "local"] BY <2>2 DEF x
    <3> HIDE DEF w, base
    <3> QED BY <1>6, <3>2, <3>3, <3>4
  <2> QED BY <2>1, <2>2
<1> HIDE DEF w, base
<1>8. resolved \in (SUBSET Change) \cup {None} BY <1>7 DEF DetachedTree
<1> HIDE DEF resolved
<1>9. /\ st \in Recovery /\ st.base = base /\ st.before = l.before /\ st.target = l.target
      /\ st.result = None
  BY <1>1, <1>4, <1>6, <1>8 DEF Recovery
<1>10. st # None /\ HonestLocal(st, T, made)
  BY <1>5, <1>6, <1>9, NoneIsNoRecord DEF HonestLocal, Plain
<1>11. st.target \in Commit BY <1>9 DEF Recovery
<1> HIDE DEF st
<1>12. m.local = st BY <1>9, Known, Recoveries
<1>13. /\ opened \in Record /\ opened.phase = "local_target" /\ opened.local = st
       /\ opened.integrated = mem[s].integrated /\ opened.expected = mem[s].expected
       /\ opened.conflictHead = base /\ opened.where = "local"
  BY <1>3, <1>6, <1>9, Known DEF Record
<1> HIDE DEF opened, m
<1>14. /\ waiting \in Record /\ waiting.phase = "local_target" /\ waiting.local = st
       /\ waiting.integrated = mem[s].integrated /\ waiting.expected = mem[s].expected
       /\ waiting.conflictHead = base
  BY <1>13 DEF Record
<1>15. /\ going \in Record /\ going.phase = "local_target" /\ going.local = st
       /\ going.integrated = mem[s].integrated /\ going.expected = st.target
       /\ going.conflictHead = base /\ going.where = "local"
  BY <1>11, <1>13 DEF Record
<1> HIDE DEF waiting, going
<1>16. manifest'[s] = m /\ detached'[s] = w BY <1>1, Known DEF Typed
<1>17. Honest(st.target, T, made) BY <1>5, <1>9
<1>18. HonestRecord(waiting, T, made) /\ HonestRecord(going, T, made)
  BY <1>6, <1>10, <1>14, <1>15, <1>17, Sees DEF HonestRecord, Plain
<1>19. Brings(s, m, w) /\ Joins(m, w, staging)
  BY <1>7, <1>9, <1>10, <1>12 DEF Brings, Joins
<1>20. Aside(waiting, m, staging) /\ Aside(going, m, staging) BY <1>14, <1>15 DEF Aside
<1>21. Step(s) BY LocalMergesSteps
<1>22. HonestLocal(m.local, T, made) BY <1>10, <1>12
<1>23. CASE Fail(s, waiting)
  BY <1>1, <1>7, <1>14, <1>16, <1>18, <1>19, <1>20, <1>21, <1>22, <1>23, Sees, Throws
<1>24. CASE Save(s, going) /\ Go(s, "validate")
  <2>1. pc'[s] = "validate" /\ mem'[s] = going BY <1>1, <1>15, <1>24, Known, Saves DEF Go, Locked
  <2>2. Covers(w, w.head, st.target.tree) BY <1>1, <1>9, <1>12, <1>19, Reconciles
  <2>3. Worktree(mem[s], s)' = w /\ Head(mem[s], s)' = w.head
    BY <1>15, <1>16, <2>1 DEF Worktree, Head
  <2>4. ToCommit(s)' BY <1>15, <2>1, <2>2, <2>3 DEF ToCommit, Covers
  <2>5. Working(s)' BY <2>1, <2>4 DEF Working
  <2> QED BY <1>1, <1>7, <1>15, <1>16, <1>18, <1>19, <1>20, <1>21, <1>22, <1>24, <2>5,
             Sees, Proceeds
<1> QED BY <1>1, <1>23, <1>24

LEMMA LocalRetriesTruthful ==
  ASSUME NEW s \in Sessions, IInv, NEW T, Truthful(T), LocalRetries(s)
  PROVE Truthful(T)'
<1> DEFINE l == mem[s].local
           r == [mem[s] EXCEPT !.expected = l.target]
<1>1. /\ pc[s] = "reconcile" /\ l.result = None /\ Keep(s, r) /\ Go(s, "validate")
      /\ UNCHANGED <<target, staging, canonical, detached, manifest, made>>
  BY DEF LocalRetries, Tests, branches, trees, evidence, rest
<1>2. AtReconcile(s) BY <1>1, Known DEF Running
<1>3. mem[s].phase = "local_target" /\ mem[s].where = "local" BY <1>2 DEF AtReconcile
<1>4. l \in Recovery /\ l = manifest[s].local /\ l # None
  BY <1>3, InRecovery, NoneIsNoRecord
<1>5. Honest(l.target, T, made) BY <1>4, Sees DEF HonestRecord, HonestLocal
<1>6. /\ r.phase = "local_target" /\ r.integrated = mem[s].integrated /\ r.local = l
      /\ r.expected = l.target /\ r.where = "local" /\ r.conflictHead = mem[s].conflictHead
  BY <1>3, Known DEF Record
<1> HIDE DEF r
<1>7. mem'[s] = r /\ rec' = rec BY <1>1, Known DEF Keep, Copies
<1>8. HonestRecord(r, T, made) BY <1>5, <1>6, Sees DEF HonestRecord, Plain
<1>9. Aside(r, manifest[s], staging) BY <1>6 DEF Aside
<1>10. Covers(detached[s], detached[s].head, l.target.tree) BY <1>1, <1>4, Sees, Reconciles
<1>11. pc'[s] = "validate" BY <1>1, Known DEF Go, Locked
<1>12. Worktree(mem[s], s)' = detached[s] /\ Head(mem[s], s)' = detached[s].head
  BY <1>1, <1>6, <1>7 DEF Worktree, Head
<1>13. ToCommit(s)' BY <1>6, <1>7, <1>10, <1>12 DEF ToCommit, Covers
<1>14. Working(s)' BY <1>11, <1>13 DEF Working
<1>15. Step(s) BY LocalRetriesSteps
<1> QED BY <1>1, <1>7, <1>8, <1>9, <1>14, <1>15, Sees, Holds

LEMMA LocalAcceptsTruthful ==
  ASSUME NEW s \in Sessions, IInv, NEW T, Truthful(T), LocalAccepts(s)
  PROVE Truthful(T)'
<1> DEFINE l == mem[s].local
           st == [l EXCEPT !.resolved = detached[s].index]
           r == [mem[s] EXCEPT !.local = st, !.expected = st.target]
           m == WithLocal(manifest[s], st)
<1>1. /\ pc[s] = "reconcile" /\ l.result = None
      /\ manifest' = [manifest EXCEPT ![s] = m]
      /\ Save(s, r) /\ Go(s, "validate")
      /\ UNCHANGED <<target, staging, canonical, detached, made>>
  BY Known DEF LocalAccepts, Tests, Typed, branches, trees, rest
<1>2. AtReconcile(s) BY <1>1, Known DEF Running
<1>3. mem[s].phase = "local_target" /\ mem[s].where = "local" BY <1>2 DEF AtReconcile
<1>4. l \in Recovery /\ l = manifest[s].local /\ l # None
  BY <1>3, InRecovery, NoneIsNoRecord
<1>5. detached[s].index \in SUBSET Change BY Known DEF DetachedTree
<1>6. /\ st \in Recovery /\ st.before = l.before /\ st.result = None /\ st.base = l.base
      /\ st.target = l.target
  BY <1>1, <1>4, <1>5 DEF Recovery
<1>7. st # None /\ HonestLocal(st, T, made) /\ Honest(st.target, T, made)
  BY <1>4, <1>6, Sees, NoneIsNoRecord DEF HonestRecord, HonestLocal, Plain
<1>8. st.target \in Commit BY <1>6 DEF Recovery
<1> HIDE DEF st
<1>9. m.local = st BY <1>6, Known, Recoveries
<1>10. /\ r \in Record /\ r.phase = "local_target" /\ r.local = st /\ r.where = "local"
       /\ r.integrated = mem[s].integrated /\ r.expected = st.target
       /\ r.conflictHead = mem[s].conflictHead
  BY <1>3, <1>6, <1>8, Known DEF Record
<1> HIDE DEF r, m
<1>11. manifest'[s] = m /\ mem'[s] = r BY <1>1, <1>10, Known, Saves DEF Typed
<1>12. HonestRecord(r, T, made) BY <1>7, <1>10, Sees DEF HonestRecord, Plain
<1>13. Brings(s, m, detached[s]) /\ Joins(m, detached[s], staging) /\ Aside(r, m, staging)
  BY <1>1, <1>4, <1>6, <1>7, <1>9, <1>10, Sees DEF Brings, Joins, Aside
<1>14. Covers(detached[s], detached[s].head, st.target.tree)
  BY <1>1, <1>6, <1>9, <1>13, Reconciles
<1>15. pc'[s] = "validate" BY <1>1, Known DEF Go, Locked
<1>16. Worktree(mem[s], s)' = detached[s] /\ Head(mem[s], s)' = detached[s].head
  BY <1>1, <1>10, <1>11 DEF Worktree, Head
<1>17. ToCommit(s)' BY <1>10, <1>11, <1>14, <1>16 DEF ToCommit, Covers
<1>18. Working(s)' BY <1>15, <1>17 DEF Working
<1>19. HonestLocal(m.local, T, made) BY <1>7, <1>9
<1>20. Step(s) BY LocalAcceptsSteps
<1> QED BY <1>1, <1>10, <1>11, <1>12, <1>13, <1>18, <1>19, <1>20, Sees, Proceeds

(* Agents and users, who need no lock.                                       *)
LEMMA Unlocked ==
  ASSUME NEW s \in Sessions, IInv, NEW T, Truthful(T), pc[s] = "idle",
         UNCHANGED <<target, staging, pc, manifest, made, audit>>,
         canonical \in CanonicalTree, canonical' \in CanonicalTree,
         canonical'.of = canonical.of, canonical'.there = canonical.there,
         canonical'.index = canonical.index, canonical'.stray = canonical.stray,
         canonical'.merge = "none" <=> canonical.merge = "none",
         \A q \in Sessions \ {s} :
           rec'[q] = rec[q] /\ mem'[q] = mem[q] /\ detached'[q] = detached[q],
         HonestRecord(rec'[s], T, made), HonestRecord(mem'[s], T, made),
         Honest(detached'[s].head, T, made),
         Brings(s, manifest[s], detached'[s]), Joins(manifest[s], detached'[s], staging),
         rec'[s].status \in {"review", "promotion_pending"} => Aside(rec'[s], manifest[s], staging)
  PROVE Truthful(T)'
<1>1. (/\ T \in Colours /\ Honest(target, T, made) /\ Honest(staging, T, made)
       /\ Honest(audit.target, T, made) /\ Honest(audit.staging, T, made)
       /\ \A q \in DOMAIN audit.copies : HonestRecord(audit.copies[q], T, made))'
  <2>1. /\ T \in Colours /\ Honest(target', T, made') /\ Honest(staging', T, made')
        /\ Honest(audit'.target, T, made') /\ Honest(audit'.staging, T, made')
        /\ \A q \in DOMAIN audit'.copies : HonestRecord(audit'.copies[q], T, made')
    BY DEF Truthful
  <2> QED BY <2>1 DEF Honest, HonestRecord, HonestLocal, Plain
<1>2. Shared(canonical)' BY Sees DEF Shared
<1>3. Shown(s, T)'
  <2>1. HonestLocal(manifest'[s].local, T, made') BY Sees
  <2>2. /\ HonestRecord(rec'[s], T, made') /\ HonestRecord(mem'[s], T, made')
        /\ Honest(detached'[s].head, T, made')
    OBVIOUS
  <2> QED BY <2>1, <2>2 DEF Shown, Honest, HonestRecord, HonestLocal, Plain
<1>4. Carries(s)' /\ Working(s)'
  BY DEF Carries, Brings, Joins, Aside, Within, Working
<1>5. ASSUME NEW q \in Sessions \ {s} PROVE Shown(q, T)' /\ Carries(q)' /\ Working(q)'
  <2>1. /\ rec'[q] = rec[q] /\ mem'[q] = mem[q] /\ detached'[q] = detached[q]
        /\ manifest'[q] = manifest[q] /\ pc'[q] = pc[q]
    OBVIOUS
  <2>2. Shown(q, T) /\ Carries(q) /\ Working(q) BY DEF Truthful
  <2>3. Shown(q, T)'
    <3>1. /\ HonestRecord(rec'[q], T, made') /\ HonestRecord(mem'[q], T, made')
          /\ HonestLocal(manifest'[q].local, T, made') /\ Honest(detached'[q].head, T, made')
      BY <2>1, <2>2 DEF Shown
    <3> QED BY <3>1 DEF Shown, Honest, HonestRecord, HonestLocal, Plain
  <2>4. Carries(q)' BY <2>1, <2>2 DEF Carries, Brings, Joins, Aside, Within
  <2>5. /\ Worktree(mem[q], q)'.index = Worktree(mem[q], q).index
        /\ Worktree(mem[q], q)'.stray = Worktree(mem[q], q).stray
        /\ Worktree(mem[q], q)'.merge = "none" <=> Worktree(mem[q], q).merge = "none"
        /\ Head(mem[q], q)' = Head(mem[q], q)
    BY <2>1 DEF Worktree, Head
  <2>6. ToCommit(q) => ToCommit(q)'
    BY <2>1, <2>5 DEF ToCommit, Covers
  <2>7. Working(q)' BY <2>1, <2>2, <2>5, <2>6 DEF Working, Covers
  <2> QED BY <2>3, <2>4, <2>7
<1> QED BY <1>1, <1>2, <1>3, <1>4, <1>5 DEF Truthful

LEMMA RecoverOrphanTruthful ==
  ASSUME NEW s \in Sessions, IInv, NEW T, Truthful(T), RecoverOrphan(s)
  PROVE Truthful(T)'
<1> DEFINE r == [rec[s] EXCEPT !.status = "review", !.awaiting = TRUE, !.conflictHead = staging]
<1>1. /\ pc[s] = "idle" /\ rec[s].status = "ready"
      /\ rec' = [rec EXCEPT ![s] = r] /\ mem' = [mem EXCEPT ![s] = r]
      /\ UNCHANGED <<target, staging, canonical, detached, pc, manifest, made, audit>>
  BY DEF RecoverOrphan, branches, trees, evidence, rest
<1>2. manifest[s].local = None BY <1>1, ReadyIsPlain
<1>3. /\ r.integrated = rec[s].integrated /\ r.expected = rec[s].expected
      /\ r.local = rec[s].local /\ r.conflictHead = staging
  BY Known DEF Record
<1> HIDE DEF r
<1>4. HonestRecord(r, T, made) BY <1>3, Sees DEF HonestRecord, Plain
<1>5. rec'[s] = r /\ mem'[s] = r /\ \A q \in Sessions \ {s} : rec'[q] = rec[q] /\ mem'[q] = mem[q]
  BY <1>1, Known DEF Copies
<1>6. Aside(r, manifest[s], staging) BY <1>2 DEF Aside
<1> QED BY <1>1, <1>4, <1>5, <1>6, Sees, Known, Unlocked DEF Typed

LEMMA ResolveTruthful ==
  ASSUME NEW s \in Sessions, IInv, NEW T, Truthful(T), Resolve(s)
  PROVE Truthful(T)'
<1>1. /\ pc[s] = "idle" /\ Worktree(rec[s], s).merge = "open"
      /\ UNCHANGED <<target, staging, rec, mem, pc, manifest, made, audit>>
  BY DEF Resolve, branches, evidence, rest
<1>2. canonical \in CanonicalTree BY Known DEF Typed
<1>3. rec[s].status \in {"review", "promotion_pending"} => Aside(rec[s], manifest[s], staging)
  BY Sees
<1>4. CASE rec[s].where \in {"none", "canonical"}
  <2>1. canonical' = [canonical EXCEPT !.merge = "staged"] /\ detached' = detached
    BY <1>4 DEF Resolve
  <2>2. canonical.merge = "open" BY <1>1, <1>4 DEF Worktree
  <2>3. /\ canonical' \in CanonicalTree /\ canonical'.index = canonical.index
        /\ canonical'.of = canonical.of /\ canonical'.there = canonical.there
        /\ canonical'.stray = canonical.stray /\ canonical'.merge = "staged"
    BY <1>2, <2>1 DEF CanonicalTree, Merges
  <2> QED BY <1>1, <1>2, <1>3, <2>1, <2>2, <2>3, Sees, Unlocked
<1>5. CASE rec[s].where \notin {"none", "canonical"}
  <2> DEFINE w == [detached[s] EXCEPT !.merge = "staged"]
  <2>1. canonical' = canonical /\ detached' = [detached EXCEPT ![s] = w]
    BY <1>5, Known DEF Resolve, Typed
  <2>2. detached[s].merge = "open" BY <1>1, <1>5 DEF Worktree
  <2>3. w.head = detached[s].head /\ w.index = detached[s].index BY Known DEF DetachedTree
  <2> HIDE DEF w
  <2>4. detached'[s] = w /\ \A q \in Sessions \ {s} : detached'[q] = detached[q]
    BY <2>1, Known DEF Typed
  <2>5. Brings(s, manifest[s], w) /\ Joins(manifest[s], w, staging)
    BY <2>2, <2>3, Sees DEF Brings, Joins
  <2> QED BY <1>1, <1>2, <1>3, <2>1, <2>3, <2>4, <2>5, Sees, Unlocked
<1> QED BY <1>4, <1>5

LEMMA CorrectTruthful ==
  ASSUME NEW s \in Sessions, NEW f \in Fixes, IInv, NEW T, Truthful(T), Correct(s, f)
  PROVE Truthful(T)'
<1> DEFINE w == [detached[s] EXCEPT !.index = detached[s].index \cup {f}]
<1>1. /\ pc[s] = "idle" /\ detached[s].merge = "staged" /\ canonical' = canonical
      /\ detached' = [detached EXCEPT ![s] = w]
      /\ UNCHANGED <<target, staging, rec, mem, pc, manifest, made, audit>>
  BY Known DEF Correct, Typed, DetachedTree, branches, evidence, rest
<1>2. /\ w.head = detached[s].head /\ w.merge = "staged"
      /\ w.index = detached[s].index \cup {f}
  BY <1>1, Known DEF DetachedTree
<1> HIDE DEF w
<1>3. detached'[s] = w /\ \A q \in Sessions \ {s} : detached'[q] = detached[q]
  BY <1>1, Known DEF Typed
<1>4. Brings(s, manifest[s], w) /\ Joins(manifest[s], w, staging)
  BY <1>1, <1>2, Sees DEF Brings, Joins
<1>5. canonical \in CanonicalTree BY Known DEF Typed
<1>6. rec[s].status \in {"review", "promotion_pending"} => Aside(rec[s], manifest[s], staging)
  BY Sees
<1> QED BY <1>1, <1>2, <1>3, <1>4, <1>5, <1>6, Sees, Unlocked

(* Users commit, and reconcile reads, promotes and saves.                    *)
LEMMA Around ==
  ASSUME NEW T, Truthful(T), UNCHANGED <<staging, canonical, detached, mem, pc, manifest, made>>,
         Honest(target', T, made), Honest(audit'.target, T, made), Honest(audit'.staging, T, made),
         \A q \in DOMAIN audit'.copies : HonestRecord(audit'.copies[q], T, made),
         \A q \in Sessions :
           /\ HonestRecord(rec'[q], T, made)
           /\ rec'[q].status \in {"review", "promotion_pending"} => rec'[q] = rec[q]
  PROVE Truthful(T)'
<1>1. (/\ T \in Colours /\ Honest(target, T, made) /\ Honest(staging, T, made)
       /\ Honest(audit.target, T, made) /\ Honest(audit.staging, T, made)
       /\ \A q \in DOMAIN audit.copies : HonestRecord(audit.copies[q], T, made))'
  <2>1. /\ T \in Colours /\ Honest(target', T, made') /\ Honest(staging', T, made')
        /\ Honest(audit'.target, T, made') /\ Honest(audit'.staging, T, made')
        /\ \A q \in DOMAIN audit'.copies : HonestRecord(audit'.copies[q], T, made')
    BY DEF Truthful
  <2> QED BY <2>1 DEF Honest, HonestRecord, HonestLocal, Plain
<1>2. Shared(canonical)' BY DEF Truthful, Shared
<1>3. ASSUME NEW q \in Sessions PROVE Shown(q, T)' /\ Carries(q)' /\ Working(q)'
  <2>1. Shown(q, T) /\ Carries(q) /\ Working(q) BY DEF Truthful
  <2>2. Shown(q, T)'
    <3>1. /\ HonestRecord(rec'[q], T, made') /\ HonestRecord(mem'[q], T, made')
          /\ HonestLocal(manifest'[q].local, T, made') /\ Honest(detached'[q].head, T, made')
      BY <2>1 DEF Shown
    <3> QED BY <3>1 DEF Shown, Honest, HonestRecord, HonestLocal, Plain
  <2>3. rec'[q].status \in {"review", "promotion_pending"} => Aside(rec'[q], manifest[q], staging)
    BY <2>1 DEF Carries
  <2>4. Carries(q)' BY <2>1, <2>3 DEF Carries, Brings, Joins, Aside, Within
  <2>5. Worktree(mem[q], q)' = Worktree(mem[q], q) /\ Head(mem[q], q)' = Head(mem[q], q)
    BY DEF Worktree, Head
  <2>6. ToCommit(q) => ToCommit(q)' BY <2>5 DEF ToCommit, Covers
  <2>7. Working(q)' BY <2>1, <2>5, <2>6 DEF Working, Covers
  <2> QED BY <2>2, <2>4, <2>7
<1> QED BY <1>1, <1>2, <1>3 DEF Truthful

LEMMA UserCommitsTruthful ==
  ASSUME NEW u \in Users, IInv, NEW T, Truthful(T), UserCommits(u)
  PROVE Truthful(T)'
<1>1. /\ target' = [hist |-> target.hist \cup {u}, tree |-> target.tree \cup {u}]
      /\ UNCHANGED <<staging, canonical, detached, rec, mem, pc, manifest, made, audit>>
  BY DEF UserCommits, trees, evidence, rest
<1>2. T \in Colours /\ Honest(target, T, made) BY DEF Truthful
<1>3. Honest(target', T, made) BY <1>1, <1>2, UserHonest
<1> QED BY <1>1, <1>3, Around DEF Truthful, Shown

LEMMA AuditTruthful ==
  ASSUME IInv, NEW T, Truthful(T), Audit
  PROVE Truthful(T)'
<1>1. UNCHANGED <<staging, canonical, detached, mem, pc, manifest, made>>
  BY DEF Audit, AuditRead, AuditPromotes, AuditBlocked, AuditSaves, branches, trees, evidence
<1>2. /\ Honest(target, T, made) /\ Honest(staging, T, made)
      /\ Honest(audit.target, T, made) /\ Honest(audit.staging, T, made)
      /\ \A q \in DOMAIN audit.copies : HonestRecord(audit.copies[q], T, made)
      /\ \A q \in Sessions : HonestRecord(rec[q], T, made)
  BY DEF Truthful, Shown
<1>3. CASE AuditRead
  <2>1. /\ audit' = [step |-> "promote", target |-> target, staging |-> staging,
                     copies |-> [s \in Missing |-> rec[s]]]
        /\ target' = target /\ rec' = rec /\ Missing \subseteq Sessions
    BY <1>3 DEF AuditRead, branches, Missing
  <2>2. \A q \in DOMAIN audit'.copies : HonestRecord(audit'.copies[q], T, made)
    BY <1>2, <2>1
  <2> QED BY <1>1, <1>2, <2>1, <2>2, Around
<1>4. CASE AuditPromotes \/ AuditBlocked
  <2>1. /\ audit'.target = audit.target /\ audit'.staging = audit.staging
        /\ audit'.copies = audit.copies /\ rec' = rec
        /\ target' \in {target, audit.staging}
    BY <1>4 DEF AuditPromotes, AuditBlocked, branches, IInv, Audited
  <2> QED BY <1>1, <1>2, <2>1, Around
<1>5. ASSUME NEW s \in Sessions, AuditSaves(s) PROVE Truthful(T)'
  <2> DEFINE c == audit.copies[s]
             r == [c EXCEPT !.status = "succeeded", !.phase = "none"]
             left == DOMAIN audit.copies \ {s}
             copies == [q \in left |-> audit.copies[q]]
  <2>1. /\ s \in DOMAIN audit.copies /\ rec' = [rec EXCEPT ![s] = r]
        /\ audit' = [audit EXCEPT !.copies = copies, !.step = IF left = {} THEN "done" ELSE "save"]
        /\ target' = target
    BY <1>5 DEF AuditSaves, branches
  <2>2. audit'.target = audit.target /\ audit'.staging = audit.staging /\ audit'.copies = copies
    BY <2>1 DEF IInv, Audited
  <2>3. c \in Record BY <2>1 DEF IInv, Audited
  <2>4. /\ r.status = "succeeded" /\ r.integrated = c.integrated /\ r.expected = c.expected
        /\ r.local = c.local /\ r.conflictHead = c.conflictHead
    BY <2>3 DEF Record
  <2> HIDE DEF r
  <2>5. HonestRecord(r, T, made) BY <1>2, <2>1, <2>4 DEF HonestRecord
  <2>6. rec'[s] = r /\ \A q \in Sessions \ {s} : rec'[q] = rec[q] BY <2>1, Known DEF Copies
  <2>7. \A q \in DOMAIN audit'.copies : HonestRecord(audit'.copies[q], T, made)
    BY <1>2, <2>2
  <2> QED BY <1>1, <1>2, <2>1, <2>2, <2>4, <2>5, <2>6, <2>7, Around
<1> QED BY <1>3, <1>4, <1>5 DEF Audit

------------------------------------------------------------------------------
LEMMA InitTruthful == Init => Honesty
<1> SUFFICES ASSUME Init PROVE Honesty OBVIOUS
<1> DEFINE T == [n \in Node |-> IF n \in Change THEN {n} ELSE {}]
<1>1. T \in Colours
  <2>1. Root \in Node /\ Change \subseteq Node /\ Root \notin Change BY NodesDiffer DEF Node
  <2>2. T \in [Node -> SUBSET Change] OBVIOUS
  <2>3. T[Root] = {} /\ \A x \in Change : T[x] = {x} BY <2>1
  <2> QED BY <2>2, <2>3 DEF Colours
<1> HIDE DEF T
<1>2. Honest(Start, T, made) BY <1>1, FirstHonest
<1>3. /\ target = Start /\ staging = Start /\ audit.target = Start /\ audit.staging = Start
      /\ DOMAIN audit.copies = {}
      /\ canonical.of = None /\ canonical.merge = "none"
  BY DEF Init
<1>4. ASSUME NEW s \in Sessions PROVE Shown(s, T) /\ Carries(s) /\ Working(s)
  <2>1. /\ rec[s] = FreshRecord /\ mem[s] = FreshRecord /\ pc[s] = "idle"
        /\ detached[s].merge = "none" /\ detached[s].head = Start
        /\ manifest[s].local = None /\ manifest[s].merged = None
    BY DEF Init
  <2>2. HonestRecord(FreshRecord, T, made) BY DEF FreshRecord, HonestRecord, HonestLocal, Plain
  <2> QED BY <1>2, <2>1, <2>2 DEF Shown, Carries, Working, Brings, Joins, Aside, FreshRecord, HonestLocal
<1>5. Truthful(T) BY <1>1, <1>2, <1>3, <1>4 DEF Truthful, Shared
<1> QED BY <1>1, <1>5 DEF Honesty

LEMMA IntegrateTruthful ==
  ASSUME NEW s \in Sessions, IInv, NEW T, Truthful(T), Integrate(s)
  PROVE \E U \in Colours : Truthful(U)' /\ Wider(T, U)
<1>1. CASE CommitMerge(s) BY <1>1, CommitCanonicalTruthful, CommitDetachedTruthful
<1>2. CASE BypassWorktree(s) BY <1>2, BypassTruthful
<1>3. CASE ~CommitMerge(s) /\ ~BypassWorktree(s)
  <2>1. CASE \/ NestedFails(s) \/ MergeBreaks(s) \/ CommitFails(s) \/ CheckFails(s)
             \/ ValidationFails(s) \/ PrepareRefused(s) \/ PromotionBlocked(s) \/ Succeed(s)
    <3>1. Truthful(T)' BY <2>1, StopTruthful, ValidationFailsTruthful, EndsTruthful
    <3>2. made' = made
      BY <2>1 DEF NestedFails, MergeBreaks, CommitFails, CheckFails, ValidationFails,
         PrepareRefused, PromotionBlocked, Succeed, rest
    <3> QED BY <3>1, <3>2, StaysWide, Sees
  <2>2. CASE \/ Begin(s) \/ PrepareCanonical(s) \/ PrepareIsolated(s) \/ Merge(s)
             \/ MergeConflicts(s) \/ NestedResolves(s) \/ ValidationPasses(s)
    <3>1. Truthful(T)'
      BY <2>2, BeginTruthful, PrepareCanonicalTruthful, PrepareIsolatedTruthful, MergeTruthful,
         MergeConflictsTruthful, NestedResolvesTruthful, ValidationPassesTruthful
    <3>2. made' = made
      BY <2>2 DEF Begin, PrepareCanonical, PrepareIsolated, Merge, MergeConflicts, NestedResolves,
         ValidationPasses, rest
    <3> QED BY <3>1, <3>2, StaysWide, Sees
  <2>3. CASE \/ AdvanceStaging(s) \/ RecordStaged(s) \/ Promote(s) \/ RecordPromoted(s)
             \/ PostIntegrationPasses(s) \/ Archive(s)
    <3>1. Truthful(T)'
      BY <2>3, AdvanceStagingTruthful, RecordsTruthful, PromoteTruthful, ArchiveTruthful
    <3>2. made' = made
      BY <2>3 DEF AdvanceStaging, RecordStaged, Promote, RecordPromoted, PostIntegrationPasses,
         Archive, rest
    <3> QED BY <3>1, <3>2, StaysWide, Sees
  <2> QED BY <1>3, <2>1, <2>2, <2>3 DEF Integrate
<1> QED BY <1>1, <1>2, <1>3

LEMMA ContinuesTruthful ==
  ASSUME NEW s \in Sessions, IInv, NEW T, Truthful(T), Change \subseteq Adding,
         Continues(s) \/ Resolve(s) \/ Crash(s)
  PROVE Truthful(T)' /\ made' = made
<1>1. CASE \/ Resume(s) \/ Reconstruct(s) \/ ReconstructStops(s) \/ ReconstructDiverges(s)
           \/ LocalRefuses(s)
  <2>1. Truthful(T)'
    BY <1>1, ResumeTruthful, ReconstructTruthful, StopTruthful, ReconstructDivergesTruthful
  <2>2. made' = made
    BY <1>1 DEF Resume, Reconstruct, ReconstructStops, ReconstructDiverges, LocalRefuses, rest
  <2> QED BY <2>1, <2>2
<1>2. CASE \/ LocalLanded(s) \/ LocalOpens(s) \/ LocalContinues(s) \/ LocalResult(s)
           \/ LocalMerges(s) \/ LocalRetries(s) \/ LocalAccepts(s)
  <2>1. Truthful(T)'
    BY <1>2, LocalLandedTruthful, LocalOpensTruthful, LocalContinuesTruthful, LocalResultTruthful,
       LocalMergesTruthful, LocalRetriesTruthful, LocalAcceptsTruthful
  <2>2. made' = made
    BY <1>2 DEF LocalLanded, LocalOpens, LocalContinues, LocalResult, LocalMerges, LocalRetries,
       LocalAccepts, rest
  <2> QED BY <2>1, <2>2
<1>3. CASE RecoverOrphan(s) \/ Resolve(s) \/ Crash(s)
  <2>1. Truthful(T)' BY <1>3, RecoverOrphanTruthful, ResolveTruthful, EndsTruthful
  <2>2. made' = made BY <1>3 DEF RecoverOrphan, Resolve, Crash, rest
  <2> QED BY <2>1, <2>2
<1> QED BY <1>1, <1>2, <1>3 DEF Continues

(* Every step keeps every commit honest, and adds honest ones.               *)
LEMMA NextTruthful ==
  ASSUME IInv, NEW T, Truthful(T), Change \subseteq Adding, [Next]_vars
  PROVE \E U \in Colours : Truthful(U)' /\ Wider(T, U)
<1> T \in Colours BY DEF Truthful
<1>1. CASE UNCHANGED vars
  <2>1. UNCHANGED <<target, staging, canonical, detached, rec, mem, pc, manifest, made, audit>>
    BY <1>1 DEF vars
  <2>2. Truthful(T)' BY <2>1, Around DEF Truthful, Shown
  <2> QED BY <2>1, <2>2, StaysWide
<1>2. ASSUME NEW s \in Sessions, Integrate(s) \/ Continues(s) \/ Resolve(s) \/ Crash(s)
      PROVE \E U \in Colours : Truthful(U)' /\ Wider(T, U)
  BY <1>2, IntegrateTruthful, ContinuesTruthful, StaysWide
<1>3. ASSUME NEW s \in Sessions, NEW f \in Fixes, Correct(s, f)
      PROVE \E U \in Colours : Truthful(U)' /\ Wider(T, U)
  <2>1. Truthful(T)' BY <1>3, CorrectTruthful
  <2>2. made' = made BY <1>3 DEF Correct, rest
  <2> QED BY <2>1, <2>2, StaysWide
<1>4. ASSUME NEW u \in Users, UserCommits(u)
      PROVE \E U \in Colours : Truthful(U)' /\ Wider(T, U)
  <2>1. Truthful(T)' BY <1>4, UserCommitsTruthful
  <2>2. made' = made BY <1>4 DEF UserCommits, rest
  <2> QED BY <2>1, <2>2, StaysWide
<1>5. CASE Audit
  <2>1. Truthful(T)' BY <1>5, AuditTruthful
  <2>2. made' = made BY <1>5 DEF Audit, AuditRead, AuditPromotes, AuditBlocked, AuditSaves
  <2> QED BY <2>1, <2>2, StaysWide
<1> QED BY <1>1, <1>2, <1>3, <1>4, <1>5 DEF Next

(* As long as every change adds files, so that a reconstructed worktree that *)
(* lacks some of staging's is noticed, no branch ever loses the changes of a *)
(* commit it contains, whatever dies, moves or is resolved, and whatever     *)
(* agents add to a resolution.                                               *)
THEOREM NothingIsReverted ==
  ASSUME Change \subseteq Adding
  PROVE Spec => NothingReverted
<1>1. Init => IInv /\ Honesty BY InitIInv, InitTruthful
<1>2. IInv /\ Honesty /\ [Next]_vars =>
        /\ Honesty'
        /\ target.tree \subseteq target'.tree /\ staging.tree \subseteq staging'.tree
  <2> SUFFICES ASSUME IInv, Honesty, [Next]_vars
               PROVE /\ Honesty'
                     /\ target.tree \subseteq target'.tree /\ staging.tree \subseteq staging'.tree
    OBVIOUS
  <2>1. PICK T \in Colours : Truthful(T) BY DEF Honesty
  <2>2. PICK U \in Colours : Truthful(U)' /\ Wider(T, U) BY <2>1, NextTruthful
  <2>3. /\ Honest(target, U, made') /\ Honest(staging, U, made')
    BY <2>1, <2>2 DEF Truthful, Wider
  <2>4. Honest(target', U, made') /\ Honest(staging', U, made')
    BY <2>2 DEF Truthful, Honest
  <2>5. Within(target, target') /\ Within(staging, staging') BY NextKeeps DEF Grows
  <2>6. target.tree \subseteq target'.tree /\ staging.tree \subseteq staging'.tree
    BY <2>3, <2>4, <2>5, HonestWithin
  <2>7. Honesty' BY <2>2 DEF Honesty
  <2> QED BY <2>6, <2>7
<1>3. IInv /\ [Next]_vars => IInv' BY NextKeeps
<1>4. Spec => [](IInv /\ Honesty) BY <1>1, <1>2, <1>3, PTL DEF Spec
<1>5. IInv /\ Honesty /\ [Next]_vars =>
        [target.tree \subseteq target'.tree /\ staging.tree \subseteq staging'.tree]_vars
  BY <1>2
<1> QED BY <1>4, <1>5, PTL DEF Spec, NothingReverted

==============================================================================
