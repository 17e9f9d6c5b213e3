---------------------------- MODULE ValidationPlan ----------------------------
(* Which commands stand for the tree that reaches the target: the tier of the *)
(* changed paths, the commit that was validated, the results of its tree that *)
(* are used again after the target moved, one plan for a batch, the full plan *)
(* when a promotion finds the target moved. Commands and tiers are whatever   *)
(* they are, as long as the tiers keep what their configuration asserts.      *)
(*                                                                            *)
(* A tree is the set of the changes it shows, a commit is known by its tree,  *)
(* and a change edits one path.                                               *)
EXTENDS Naturals, Sequences, FiniteSets

CONSTANTS
  Sessions,
  Own,            \* the changes each session may make
  Stacked,        \* sessions begun on top of work that is not on the target
  Dirty,          \* sessions begun with unstaged changes, which stay
  Users,          \* changes that people commit to the target
  PathOf,         \* the path each change edits
  Tiers,          \* validationTiers, in order: name, paths, source, integration, reuse
  Source, Full,   \* sourceValidationCommands, integrationValidationCommands
  Checks,
  Failures,       \* what may fail: for each command, changes or Nothing
  Nothing

Change == (UNION {Own[s] : s \in Sessions}) \cup Users
Trees == SUBSET Change

Tier == [name : {Tiers[i].name : i \in DOMAIN Tiers}, paths : SUBSET {PathOf[x] : x \in Change},
         source : SUBSET Checks, integration : SUBSET Checks, reuse : BOOLEAN]

(* The project starts on a tree that passes.                                 *)
ASSUME PlanAssumption ==
  /\ Source \subseteq Checks /\ Full \subseteq Checks
  /\ Stacked \subseteq Sessions /\ Dirty \subseteq Sessions /\ IsFiniteSet(Sessions)
  /\ Tiers \in Seq(Tier) /\ (\A t \in Trees : t # Nothing)
  /\ Failures \subseteq [Checks -> {Nothing} \cup (Trees \ {{}})]

VARIABLES
  breaks,     \* for each command, the changes that together make it fail
  target,
  head,       \* the commit of each session's branch
  rec,        \* the session records
  merged,     \* the merge commit of each session that integrates
  results     \* commands that passed, with the tree: the repository's cache

planVars == <<breaks, target, head, rec, merged, results>>

------------------------------------------------------------------------------
(* Commands and trees                                                        *)

Passes(t, c) == breaks[c] # Nothing => ~(breaks[c] \subseteq t)
Pass(t, cs) == \A c \in cs : Passes(t, c)
Differing(t, u) == {PathOf[x] : x \in (t \ u) \cup (u \ t)}

(* What a tier asserts: a change of its paths that passes its source         *)
(* commands, in whatever tree, and its integration commands when merged,     *)
(* leaves the full plan passing.                                             *)
Honest(tier) ==
  \A t, s \in Trees :
    \A own \in SUBSET {x \in s : PathOf[x] \in tier.paths} :
      Pass(t, Full) /\ Pass(s, tier.source) /\ Pass(t \cup own, tier.integration)
        => Pass(t \cup own, Full)

(* What reuseSourceValidationOnTargetMove asserts (docs/configuration.md).   *)
Inert(tier) ==
  \A t, u \in Trees :
    Differing(t, u) \subseteq tier.paths /\ Pass(u, tier.integration)
      => \A c \in Checks \ tier.integration : Passes(t, c) => Passes(u, c)

Kept == \A i \in DOMAIN Tiers : Honest(Tiers[i]) /\ (Tiers[i].reuse => Inert(Tiers[i]))

PlanInit ==
  /\ breaks \in Failures
  /\ Kept = TRUE
  /\ target = {}
  /\ head = [s \in Sessions |-> {}] /\ merged = [s \in Sessions |-> Nothing] /\ results = {}
  /\ rec = [s \in Sessions |-> [status |-> "none", start |-> {}, ready |-> Nothing, tier |-> "none",
                                paths |-> {}, validated |-> Nothing]]

------------------------------------------------------------------------------
(* Plans                                                                     *)

(* findValidationTier: the first that matches every path.                    *)
Matching(paths) == {i \in DOMAIN Tiers : paths # {} /\ paths \subseteq Tiers[i].paths}
Earliest(is) == CHOOSE i \in is : \A j \in is : i <= j
FullPlan == [name |-> "full", source |-> Source, integration |-> Full]
Selected(paths, allowed) ==
  IF allowed /\ Matching(paths) # {}
  THEN LET i == Earliest(Matching(paths))
       IN [name |-> Tiers[i].name, source |-> Tiers[i].source, integration |-> Tiers[i].integration]
  ELSE FullPlan

Allowed(r) == r.tier # "full" /\ r.validated = r.ready

(* planSourceReuse: what was validated against what is merged.               *)
MovedByAny(t, u) ==
  LET is == Matching(Differing(t, u)) IN IF t # u /\ is # {} THEN {Earliest(is)} ELSE {}
MovedBy(t, u) ==
  LET is == Matching(Differing(t, u))
  IN IF t # u /\ is # {} /\ Tiers[Earliest(is)].reuse THEN {Earliest(is)} ELSE {}
Reused(t, u, steps) ==
  IF MovedBy(t, u) = {} THEN {}
  ELSE {c \in steps : \A i \in MovedBy(t, u) : c \notin Tiers[i].integration}
         \cap {c \in Checks : <<t, c>> \in results}
Added(t, u) == UNION {Tiers[i].integration : i \in MovedBy(t, u)}

Cached(t) == {c \in Checks : <<t, c>> \in results}
Recorded(t, cs) == results' = results \cup {<<t, c>> : c \in cs}

(* batchValidation                                                           *)
BatchPlan(ss) ==
  LET one(s) == Selected(rec[s].paths, Allowed(rec[s])).name
      union == Selected(UNION {rec[s].paths : s \in ss}, TRUE)
  IN IF \A s \in ss : one(s) # "full" /\ one(s) = union.name THEN union ELSE FullPlan

------------------------------------------------------------------------------
(* The sessions                                                              *)

Set(s, r) == rec' = [rec EXCEPT ![s] = r]
Begin(s) ==
  /\ rec[s].status = "none"
  /\ \E from \in {target} \cup (IF s \in Stacked THEN {head[o] : o \in Sessions} ELSE {}) :
       head' = [head EXCEPT ![s] = from] /\ Set(s, [rec[s] EXCEPT !.status = "active", !.start = from])
  /\ UNCHANGED <<breaks, target, merged, results>>

Commit(s) ==
  /\ rec[s].status = "active" /\ \E x \in Own[s] \ head[s] : head' = [head EXCEPT ![s] = @ \cup {x}]
  /\ UNCHANGED <<breaks, target, rec, merged, results>>
MergeTarget(s) ==
  /\ rec[s].status = "active" /\ head' = [head EXCEPT ![s] = @ \cup target] /\ head' # head
  /\ UNCHANGED <<breaks, target, rec, merged, results>>

(* changedPaths since the commit the session began at.                       *)
Paths(s) == Differing(rec[s].start, head[s])

(* validate: results are kept only if all commands pass. With changes that   *)
(* were there when the session began they may pass whatever the commit does, *)
(* and the results are kept for the commit's tree (source-state.ts:94).      *)
Validate(s) ==
  LET plan == Selected(Paths(s), TRUE)
  IN /\ rec[s].status = "active" /\ Paths(s) # {}
     /\ s \in Dirty \/ Pass(head[s], plan.source \ Cached(head[s]))
     /\ Recorded(head[s], plan.source)
     /\ Set(s, [rec[s] EXCEPT !.tier = plan.name, !.paths = Paths(s), !.validated = head[s]])
     /\ UNCHANGED <<breaks, target, head, merged>>

(* integrate, before it waits for the repository.                            *)
MakeReady(s) ==
  /\ rec[s].status = "active" /\ Paths(s) # {}
  /\ Set(s, [rec[s] EXCEPT !.status = "ready", !.ready = head[s], !.paths = Paths(s),
               !.tier = Selected(Paths(s), rec[s].validated = head[s]).name])
  /\ UNCHANGED <<breaks, target, head, merged, results>>

(* Under the lock: merge, validate; the target may move before promotion.    *)
Integrating == \E s \in Sessions : merged[s] # Nothing
Integrate(s) ==
  LET tree == target \cup rec[s].ready
      plan == Selected(rec[s].paths, Allowed(rec[s]))
      reuse == rec[s].validated = rec[s].ready
      reused == IF reuse THEN Reused(rec[s].ready, tree, plan.integration) ELSE {}
      steps == plan.integration \cup IF reuse THEN Added(rec[s].ready, tree) ELSE {}
      run == (steps \ reused) \ Cached(tree)
  IN /\ rec[s].status = "ready" /\ ~Integrating
     /\ Pass(tree, run) /\ Recorded(tree, run)
     /\ merged' = [merged EXCEPT ![s] = tree]
     /\ UNCHANGED <<breaks, target, head, rec>>

Promote(s) ==
  /\ merged[s] # Nothing /\ target \subseteq merged[s] /\ target' = merged[s]
  /\ merged' = [merged EXCEPT ![s] = Nothing] /\ Set(s, [rec[s] EXCEPT !.status = "succeeded"])
  /\ UNCHANGED <<breaks, head, results>>

(* The local target moved: the full commands, no cache, no reuse.            *)
RecoverTarget(s) ==
  LET tree == target \cup merged[s]
  IN /\ merged[s] # Nothing /\ ~(target \subseteq merged[s])
     /\ Pass(tree, Full) /\ merged' = [merged EXCEPT ![s] = tree]
     /\ Recorded(tree, Full) /\ UNCHANGED <<breaks, target, head, rec>>

Batch(ss) ==
  LET tree == target \cup UNION {rec[s].ready : s \in ss}
  IN /\ ~Integrating /\ \A s \in ss : rec[s].status = "ready"
     /\ Pass(tree, BatchPlan(ss).integration) /\ target' = tree
     /\ rec' = [s \in Sessions |-> IF s \in ss THEN [rec[s] EXCEPT !.status = "succeeded"] ELSE rec[s]]
     /\ UNCHANGED <<breaks, head, merged, results>>

(* People keep the target such that the full plan passes on it.              *)
UserCommits ==
  /\ \E x \in Users \ target : target' = target \cup {x}
  /\ Pass(target', Full)
  /\ UNCHANGED <<breaks, head, rec, merged, results>>

PlanNext ==
  \/ \E s \in Sessions : \/ Begin(s) \/ Commit(s) \/ MergeTarget(s) \/ Validate(s) \/ MakeReady(s)
                         \/ Integrate(s) \/ Promote(s) \/ RecoverTarget(s)
  \/ \E ss \in SUBSET Sessions : Cardinality(ss) > 1 /\ Batch(ss)
  \/ UserCommits

PlanSpec == PlanInit /\ [][PlanNext]_planVars

------------------------------------------------------------------------------
(* Properties                                                                *)

PlanRecord ==
  [status : {"none", "active", "ready", "succeeded"}, start : Trees, ready : {Nothing} \cup Trees,
   tier : {Tiers[i].name : i \in DOMAIN Tiers} \cup {"none", "full"},
   paths : SUBSET {PathOf[x] : x \in Change}, validated : {Nothing} \cup Trees]
PlanTypeOK ==
  /\ breaks \in [Checks -> {Nothing} \cup (Trees \ {{}})] /\ target \in Trees
  /\ head \in [Sessions -> Trees] /\ merged \in [Sessions -> {Nothing} \cup Trees]
  /\ rec \in [Sessions -> PlanRecord]
  /\ results \subseteq Trees \X Checks

(* What reaches the target passes the full plan, whichever commands stood    *)
(* for it: the lighter tier, results of another tree, a batch's plan. Not    *)
(* true with a session in Stacked or in Dirty, see the README.               *)
TargetPasses == Pass(target, Full)
===============================================================================
