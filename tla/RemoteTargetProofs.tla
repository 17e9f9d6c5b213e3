--------------------------- MODULE RemoteTargetProofs ---------------------------
(* Proofs about RemoteTarget for any sessions, policies, other clones, local  *)
(* commits, rewrites, failures and deaths.                                    *)
EXTENDS RemoteTarget, TLAPS

Delivering == {"pull_request", "post_integration", "remote_promotion"}
Publishing == {"base", "push", "fetch", "replay", "revalidate", "request", "finish"}

(* What a record of a session says, on disk or in a copy that may be saved:   *)
(* its commit was validated and has the session's change, and what it says    *)
(* was promoted is in the local target. Both only grow.                       *)
Sound(s, r, trees, local_target) ==
  /\ r.status # "none" => r.rule \in Rule /\ ~Problem(r.rule)
  /\ r.phase # "none" => r.integrated \in trees /\ s \in r.integrated
  /\ r.phase \in Delivering =>
       r.promoted \in trees /\ s \in r.promoted /\ r.promoted \subseteq local_target

(* A command that runs has the lock and a copy of an unfinished record.       *)
Runs(s) ==
  /\ lock = s /\ mem[s].rule = rec[s].rule
  /\ rec[s].status \in {"ready", "review", "pending"}
  /\ mem[s].status \in {"ready", "review", "pending"}

(* Its copy is as far as its step.                                            *)
Reached(s) ==
  /\ pc[s] = "merge" => mem[s].expected \in Commit
  /\ pc[s] \in {"promote", "repromote"} => mem[s].phase # "none"
  /\ pc[s] \in Publishing => mem[s].phase \in Delivering
  /\ pc[s] = "fetch" => Mode(s) # "session-branch"
  /\ pc[s] \in {"replay", "revalidate"} => s \in staging

(* The branch has the change when the pull request is about to be opened, and *)
(* the delivery is there when the record is about to say so.                  *)
Shown(s) ==
  IF Mode(s) = "session-branch" THEN Published(s, s) ELSE Published(Shared, s) \/ rewritten
Ready(s) ==
  /\ pc[s] = "request" => Shown(s)
  /\ pc[s] = "finish" => Delivered(s)

Records == \A s \in Sessions :
  Sound(s, rec[s], validated, target) /\ Sound(s, mem[s], validated, target)
Commands == \A s \in Sessions : pc[s] # "idle" => Runs(s) /\ Reached(s) /\ Ready(s)
IInv == TypeOK /\ Records /\ Commands

(* Any save writes a record that has its type and is sound; the four ways     *)
(* that commands save and leave.                                              *)
LEMMA SaveTypes ==
  ASSUME TypeOK, NEW s \in Sessions, NEW r \in Record
  PROVE  /\ Save(s, r) => rec' \in [Sessions -> Record] /\ mem' \in [Sessions -> Record]
         /\ Keep(s, r) => rec' \in [Sessions -> Record] /\ mem' \in [Sessions -> Record]
BY DEF TypeOK, Save, Keep

Steps == {"idle", "refresh", "merge", "promote", "base", "push", "fetch",
          "replay", "revalidate", "repromote", "request", "finish"}
LEMMA GoTypes ==
  ASSUME TypeOK, NEW s \in Sessions
  PROVE  /\ \A to \in Steps : Go(s, to) =>
              pc' \in [Sessions -> Steps] /\ lock' \in Sessions \cup {None}
         /\ Leave(s) => pc' \in [Sessions -> Steps] /\ lock' \in Sessions \cup {None}
BY DEF TypeOK, Go, Leave, Steps

LEMMA FailTypes ==
  ASSUME TypeOK, NEW s \in Sessions, Fail(s) \/ FailReplayed(s)
  PROVE  /\ rec' \in [Sessions -> Record] /\ mem' \in [Sessions -> Record]
         /\ pc' \in [Sessions -> Steps] /\ lock' \in Sessions \cup {None}
<1>1. mem[s] \in Record
  BY DEF TypeOK
<1>2. [mem[s] EXCEPT !.status = IF @ = "pending" THEN @ ELSE "review"] \in Record
  BY <1>1 DEF Record
<1>3. QED
  BY <1>1, <1>2, SaveTypes, GoTypes DEF Fail, FailReplayed

(* The policy a session is enrolled under is a rule without a problem.        *)
LEMMA AcceptedRule ==
  ASSUME NEW s \in Sessions, NEW p \in Files[s], Loads(p), Accepted(p)
  PROVE  Resolved(p) \in Rule /\ ~Problem(Resolved(p))
<1>1. WellFormed(p)
  BY FilesAssumption DEF Loads
<1>2. PICK rule \in Rule : \A f \in DOMAIN p.entry : p.entry[f] = rule[f]
  BY <1>1 DEF WellFormed
<1>3. p.defaults \in Rule
  BY <1>1 DEF WellFormed
<1>4. Override(p.defaults, p.entry) \in Rule
  BY <1>2, <1>3 DEF Override, Rule
<1>5. QED
  BY <1>4 DEF Resolved, Accepted

LEMMA HeadType ==
  ASSUME TypeOK, Records, NEW s \in Sessions, mem[s].phase \in Delivering
  PROVE  Head(s) \in Sessions \cup {Shared} /\ HeadCommit(s) \in Commit
BY DEF TypeOK, Records, Sound, Head, HeadCommit, Commit, Change, Delivering

LEMMA TypeInit == ASSUME Init PROVE TypeOK
<1>1. {} \in Commit
  BY DEF Commit
<1>2. heads \in [Sessions \cup {Shared} -> Commit \cup {None}]
  BY <1>1 DEF Init
<1>3. rec \in [Sessions -> Record] /\ mem = rec
  BY RemoteAssumption DEF Init, Record
<1>4. /\ base \in Commit /\ target \in Commit /\ staging \in Commit /\ fetched \in Commit
      /\ prs = {} /\ validated = {}
  BY <1>1 DEF Init
<1>5. /\ pc = [s \in Sessions |-> "idle"] /\ lock = None /\ canonical = "none"
      /\ known = TRUE /\ rewritten = FALSE /\ crashes = 0 /\ faults = 0
  BY DEF Init
<1>6. 0 \in 0 .. MaxCrashes /\ 0 \in 0 .. MaxFaults
  BY RemoteAssumption
<1>7. QED
  BY <1>2, <1>3, <1>4, <1>5, <1>6 DEF TypeOK

(* What a step of a command writes has its type.                              *)
LEMMA TypeStep == ASSUME IInv, NEW s \in Sessions, Step(s) PROVE TypeOK'
<1> USE RemoteAssumption DEF IInv, Steps, remote, local, records
<1>0. /\ TypeOK /\ mem[s] \in Record /\ rec[s] \in Record
      /\ Sound(s, mem[s], validated, target) /\ (pc[s] # "idle" => Reached(s))
  BY DEF TypeOK, Records, Commands
<1>1. CASE Refresh(s)
  <2>1. target' \in Commit
    BY <1>0, <1>1 DEF Refresh, TypeOK
  <2>2. rec' \in [Sessions -> Record] /\ mem' \in [Sessions -> Record]
    <3> DEFINE based == [mem[s] EXCEPT !.expected = target]
               synced == [based EXCEPT !.expected = target', !.baseline = heads[Shared], !.attempts = 0]
    <3>1. based \in Record
      BY <1>0 DEF TypeOK, Record
    <3> HIDE DEF based
    <3>2. synced \in Record
      <4>1. heads[Shared] \in Commit \cup {None} /\ 0 \in 0 .. RetryLimit
        BY <1>0 DEF TypeOK
      <4>2. QED
        BY <3>1, <2>1, <4>1 DEF Record
    <3>3. (Save(s, based) \/ Save(s, synced) \/ UNCHANGED records)
      BY <1>1 DEF Refresh, based
    <3> HIDE DEF synced
    <3>4. QED
      BY <1>0, <3>1, <3>2, <3>3, SaveTypes DEF TypeOK
  <2>3. pc' \in [Sessions -> Steps] /\ lock' \in Sessions \cup {None}
    BY <1>0, <1>1, GoTypes DEF Refresh
  <2>4. QED
    BY <1>0, <1>1, <2>1, <2>2, <2>3 DEF Refresh, TypeOK
<1>2. CASE Integrate(s)
  <2>1. Integrated(s) \in Commit
    BY <1>0, <1>2 DEF Integrate, Integrated, Reached, TypeOK, Commit, Change
  <2>2. [mem[s] EXCEPT !.integrated = staging', !.phase = "promotion"] \in Record
    BY <1>0, <1>2, <2>1 DEF Integrate, Record
  <2>3. QED
    BY <1>0, <1>2, <2>1, <2>2, SaveTypes, GoTypes DEF Integrate, TypeOK
<1>3. CASE IntegrateStops(s)
  BY <1>0, <1>3, FailTypes, GoTypes DEF IntegrateStops, TypeOK
<1>4. CASE Promote(s)
  <2>1. mem[s].integrated \in Commit
    BY <1>0, <1>4 DEF Promote, Reached, Sound, TypeOK
  <2>2. \A phase \in {"pull_request", "post_integration"} :
          [mem[s] EXCEPT !.promoted = mem[s].integrated, !.phase = phase] \in Record
    BY <1>0, <2>1 DEF Record
  <2>3. QED
    BY <1>0, <1>4, <2>1, <2>2, SaveTypes, GoTypes DEF Promote, TypeOK
<1>5. CASE PromotionBlocked(s)
  <2>1. [mem[s] EXCEPT !.status = "pending", !.phase = "promotion"] \in Record
    BY <1>0 DEF Record
  <2>2. QED
    BY <1>0, <1>5, <2>1, SaveTypes, GoTypes DEF PromotionBlocked, TypeOK
<1>6. CASE CheckBase(s)
  BY <1>0, <1>6, GoTypes DEF CheckBase, TypeOK
<1>7. CASE Push(s)
  <2>1. Head(s) \in Sessions \cup {Shared} /\ HeadCommit(s) \in Commit
    BY <1>0, <1>7, HeadType DEF Push, Reached, Publishing
  <2>2. heads' \in [Sessions \cup {Shared} -> Commit \cup {None}]
    BY <1>0, <1>7, <2>1 DEF Push, TypeOK
  <2>3. faults' \in 0 .. MaxFaults
    BY <1>0, <1>7 DEF Push, Fault, TypeOK
  <2>4. /\ rec' \in [Sessions -> Record] /\ mem' \in [Sessions -> Record]
        /\ pc' \in [Sessions -> Steps] /\ lock' \in Sessions \cup {None}
    BY <1>0, <1>7, GoTypes, FailTypes DEF Push, TypeOK
  <2>5. QED
    BY <1>0, <1>7, <2>2, <2>3, <2>4 DEF Push, TypeOK
<1>8. CASE PushRejected(s)
  BY <1>0, <1>8, GoTypes, FailTypes DEF PushRejected, TypeOK
<1>9. CASE FetchContained(s)
  BY <1>0, <1>9, GoTypes DEF FetchContained, TypeOK
<1>10. CASE FetchMoved(s)
  <2>1. mem[s].attempts + 1 \in 0 .. RetryLimit
    BY <1>0, <1>10 DEF FetchMoved, Record
  <2>2. Baseline(s) \in Commit \cup {None}
    BY <1>0 DEF Baseline, Record
  <2>3. [mem[s] EXCEPT !.baseline = Baseline(s), !.attempts = @ + 1,
                       !.phase = "remote_promotion"] \in Record
    BY <1>0, <2>1, <2>2 DEF Record
  <2>4. fetched' \in Commit
    BY <1>0, <1>10 DEF FetchMoved, TypeOK
  <2>5. QED
    BY <1>0, <1>10, <2>3, <2>4, SaveTypes, GoTypes DEF FetchMoved, TypeOK
<1>11. CASE FetchStops(s)
  BY <1>0, <1>11, FailTypes DEF FetchStops, TypeOK
<1>12. CASE Replay(s)
  BY <1>0, <1>12, FailTypes, GoTypes DEF Replay, TypeOK
<1>13. CASE Revalidate(s)
  <2>1. mem[s].promoted \in Commit
    BY <1>0, <1>13 DEF Revalidate, Reached, Sound, Publishing, TypeOK
  <2>2. staging' \in Commit /\ validated' \in SUBSET Commit
    BY <1>0, <1>13 DEF Revalidate, TypeOK, Commit
  <2>3. [mem[s] EXCEPT !.integrated = staging', !.expected = mem[s].promoted,
                       !.phase = "promotion"] \in Record
    BY <1>0, <2>1, <2>2 DEF Record
  <2>4. QED
    BY <1>0, <1>13, <2>2, <2>3, SaveTypes, GoTypes DEF Revalidate, TypeOK
<1>14. CASE Request(s)
  BY <1>0, <1>14, GoTypes DEF Request, TypeOK, Head
<1>15. CASE RequestRefused(s)
  BY <1>0, <1>15, FailTypes DEF RequestRefused, TypeOK
<1>16. CASE Finish(s)
  <2>1. [mem[s] EXCEPT !.status = "succeeded", !.phase = "none"] \in Record
    BY <1>0 DEF Record
  <2>2. QED
    BY <1>0, <1>16, <2>1, SaveTypes, GoTypes DEF Finish, TypeOK
<1>17. CASE StepFails(s)
  <2>1. faults' \in 0 .. MaxFaults
    BY <1>0, <1>17 DEF StepFails, Fault, TypeOK
  <2>2. QED
    BY <1>0, <1>17, <2>1, FailTypes, GoTypes DEF StepFails, TypeOK
<1>18. QED
  BY <1>1, <1>2, <1>3, <1>4, <1>5, <1>6, <1>7, <1>8, <1>9, <1>10, <1>11, <1>12, <1>13,
     <1>14, <1>15, <1>16, <1>17 DEF Step

LEMMA TypeStart ==
  ASSUME IInv, NEW s \in Sessions, Starts(s) \/ Crash(s) PROVE TypeOK'
<1> USE RemoteAssumption DEF IInv, Steps, remote, local, records
<1>0. /\ TypeOK /\ rec[s] \in Record /\ Sound(s, rec[s], validated, target)
  BY DEF TypeOK, Records
<1>1. CASE Enroll(s)
  <2>1. PICK p \in Files[s] :
          /\ Loads(p) /\ Accepted(p)
          /\ Save(s, [rec[s] EXCEPT !.status = "ready", !.rule = Resolved(p)])
    BY <1>1 DEF Enroll
  <2>2. [rec[s] EXCEPT !.status = "ready", !.rule = Resolved(p)] \in Record
    BY <1>0, <2>1, AcceptedRule DEF Record
  <2>3. QED
    BY <1>0, <1>1, <2>1, <2>2, SaveTypes DEF Enroll, TypeOK
<1>2. CASE Begin(s)
  BY <1>0, <1>2, SaveTypes DEF Begin, TypeOK
<1>3. CASE Resume(s)
  BY <1>0, <1>3, SaveTypes DEF Resume, TypeOK
<1>4. CASE ResumeMovedTarget(s)
  <2>1. rec[s].integrated \in Commit
    BY <1>0, <1>4 DEF ResumeMovedTarget, TargetMoved, Sound, TypeOK
  <2>2. staging' \in Commit /\ validated' \in SUBSET Commit
    BY <1>0, <1>4, <2>1 DEF ResumeMovedTarget, TypeOK, Commit
  <2>3. [rec[s] EXCEPT !.integrated = staging', !.expected = target] \in Record
    BY <1>0, <2>2 DEF Record, TypeOK
  <2>4. QED
    BY <1>0, <1>4, <2>2, <2>3, SaveTypes DEF ResumeMovedTarget, TypeOK
<1>5. CASE Crash(s)
  <2>1. crashes' \in 0 .. MaxCrashes
    BY <1>0, <1>5 DEF Crash, TypeOK
  <2>2. QED
    BY <1>0, <1>5, <2>1, SaveTypes, GoTypes DEF Crash, TypeOK
<1>6. QED
  BY <1>1, <1>2, <1>3, <1>4, <1>5 DEF Starts

LEMMA TypeEnvironment == ASSUME TypeOK, Environment PROVE TypeOK'
<1> USE RemoteAssumption DEF TypeOK, remote, local, records, Commit, Change
<1>1. CASE SyncTarget
  BY <1>1 DEF SyncTarget
<1>2. CASE OthersRewrite
  BY <1>2 DEF OthersRewrite
<1>3. ASSUME NEW u \in Others, OthersPush(u) PROVE TypeOK'
  BY <1>3 DEF OthersPush
<1>4. ASSUME NEW p \in prs, OthersMerge(p) PROVE TypeOK'
  <2>1. heads[p.head] \in SUBSET Change
    BY <1>4 DEF OthersMerge, Mergeable
  <2>2. QED
    BY <1>4, <2>1 DEF OthersMerge
<1>5. ASSUME NEW u \in Others, NEW s \in Sessions, OthersRequest(u, s) PROVE TypeOK'
  BY <1>5 DEF OthersRequest, Fault
<1>6. ASSUME NEW v \in Locals, LocalCommit(v) PROVE TypeOK'
  BY <1>6 DEF LocalCommit
<1>7. CASE UserFetches
  BY <1>7 DEF UserFetches
<1>8. QED
  BY <1>1, <1>2, <1>3, <1>4, <1>5, <1>6, <1>7 DEF Environment

------------------------------------------------------------------------------
(* The local branches, the production branch and what was validated only      *)
(* grow: every step of the tool adds to what it read, or fast-forwards.       *)
LEMMA Grows ==
  ASSUME Next
  PROVE  /\ target \subseteq target' /\ staging \subseteq staging'
         /\ validated \subseteq validated' /\ base \subseteq base'
<1> USE DEF remote, local
<1>1. CASE Environment
  BY <1>1 DEF Environment, SyncTarget, SyncForward, OthersRewrite, OthersPush, OthersMerge,
              OthersRequest, LocalCommit, UserFetches
<1>2. ASSUME NEW s \in Sessions, Starts(s) \/ Crash(s)
      PROVE  /\ target' = target /\ staging \subseteq staging'
             /\ validated \subseteq validated' /\ base' = base
  BY <1>2 DEF Starts, Crash, Enroll, Begin, Resume, ResumeMovedTarget
<1>3. ASSUME NEW s \in Sessions, Step(s)
      PROVE  /\ target \subseteq target' /\ staging \subseteq staging'
             /\ validated \subseteq validated' /\ base' = base
  <2>1. CASE Refresh(s)
    BY <2>1 DEF Refresh
  <2>2. CASE Integrate(s)
    BY <2>2 DEF Integrate, Integrated
  <2>3. CASE Promote(s)
    BY <2>3 DEF Promote, Promotable
  <2>4. CASE Revalidate(s)
    BY <2>4 DEF Revalidate
  <2>5. CASE IntegrateStops(s) \/ PromotionBlocked(s) \/ CheckBase(s) \/ Push(s) \/ PushRejected(s)
             \/ FetchContained(s) \/ FetchMoved(s) \/ FetchStops(s) \/ Replay(s) \/ Request(s)
             \/ RequestRefused(s) \/ Finish(s) \/ StepFails(s)
    BY <2>5 DEF IntegrateStops, PromotionBlocked, CheckBase, Push, PushRejected, FetchContained,
                FetchMoved, FetchStops, Replay, Request, RequestRefused, Finish, StepFails
  <2>6. QED
    BY <1>3, <2>1, <2>2, <2>3, <2>4, <2>5 DEF Step
<1>4. QED
  BY <1>1, <1>2, <1>3 DEF Next

(* A sound record stays sound, and so do all records when a command writes    *)
(* one that is, or goes back to the one on disk.                              *)
LEMMA SoundGrows ==
  ASSUME NEW s, NEW r, NEW trees, NEW t, Sound(s, r, trees, t),
         NEW trees2, NEW t2, trees \subseteq trees2, t \subseteq t2
  PROVE  Sound(s, r, trees2, t2)
BY DEF Sound

LEMMA SaveSound ==
  ASSUME IInv, Next, NEW s \in Sessions, NEW r, Sound(s, r, validated', target'),
         Save(s, r) \/ Keep(s, r)
  PROVE  Records'
<1>1. ASSUME NEW x \in Sessions
      PROVE  Sound(x, rec[x], validated', target') /\ Sound(x, mem[x], validated', target')
  BY Grows, SoundGrows DEF IInv, Records
<1>2. ASSUME NEW x \in Sessions
      PROVE  rec'[x] \in {rec[x], r} /\ mem'[x] \in {mem[x], r} /\ (x # s => rec'[x] = rec[x] /\ mem'[x] = mem[x])
  BY DEF Save, Keep, IInv, TypeOK
<1>3. ASSUME NEW x \in Sessions
      PROVE  Sound(x, rec'[x], validated', target') /\ Sound(x, mem'[x], validated', target')
  BY <1>1, <1>2
<1>4. QED
  BY <1>3 DEF Records

LEMMA KeepSound ==
  ASSUME IInv, Next, UNCHANGED records
  PROVE  Records'
<1>1. ASSUME NEW x \in Sessions
      PROVE  Sound(x, rec[x], validated', target') /\ Sound(x, mem[x], validated', target')
  BY Grows, SoundGrows DEF IInv, Records
<1>2. QED
  BY <1>1 DEF Records, records

LEMMA FailSound ==
  ASSUME IInv, Next, NEW s \in Sessions, pc[s] # "idle", Fail(s) \/ FailReplayed(s)
  PROVE  Records'
<1> DEFINE failed == [mem[s] EXCEPT !.status = IF @ = "pending" THEN @ ELSE "review"]
<1>1. mem[s] \in Record /\ mem[s].status # "none" /\ Sound(s, mem[s], validated', target')
  BY Grows, SoundGrows DEF IInv, TypeOK, Records, Commands, Runs
<1>2. Sound(s, failed, validated', target')
  BY <1>1 DEF Sound, Record
<1>3. QED
  BY <1>1, <1>2, SaveSound DEF Fail, FailReplayed

LEMMA RecordsStep ==
  ASSUME IInv, Next, NEW s \in Sessions, Step(s) PROVE Records'
<1>0. /\ TypeOK /\ pc[s] # "idle" /\ mem[s] \in Record /\ Reached(s)
      /\ Sound(s, mem[s], validated', target')
  <2>1. pc[s] # "idle"
    BY DEF Step, Refresh, Integrate, IntegrateStops, Promote, PromotionBlocked, CheckBase, Push,
           PushRejected, FetchContained, FetchMoved, FetchStops, Replay, Revalidate, Request,
           RequestRefused, Finish, StepFails
  <2>2. QED
    BY <2>1, Grows, SoundGrows DEF IInv, TypeOK, Records, Commands
<1>1. CASE Refresh(s)
  <2> DEFINE based == [mem[s] EXCEPT !.expected = target]
             synced == [based EXCEPT !.expected = target', !.baseline = heads[Shared], !.attempts = 0]
  <2>1. Sound(s, based, validated', target') /\ based \in Record
    BY <1>0 DEF Sound, Record, TypeOK
  <2>2. Save(s, based) \/ Save(s, synced) \/ UNCHANGED records
    BY <1>1 DEF Refresh
  <2> HIDE DEF based
  <2>3. Sound(s, synced, validated', target')
    BY <2>1 DEF Sound, Record
  <2> HIDE DEF synced
  <2>4. QED
    BY <2>1, <2>2, <2>3, SaveSound, KeepSound
<1>2. CASE Integrate(s)
  <2> DEFINE r == [mem[s] EXCEPT !.integrated = staging', !.phase = "promotion"]
  <2>1. s \in staging' /\ staging' \in validated'
    BY <1>2 DEF Integrate, Integrated
  <2>2. Sound(s, r, validated', target')
    BY <1>0, <2>1 DEF Sound, Record, Delivering
  <2>3. Save(s, r)
    BY <1>2 DEF Integrate
  <2>4. QED
    BY <2>2, <2>3, SaveSound
<1>3. CASE Promote(s)
  <2> DEFINE r(phase) == [mem[s] EXCEPT !.promoted = mem[s].integrated, !.phase = phase]
  <2>1. mem[s].integrated \in validated' /\ s \in mem[s].integrated /\ target' = mem[s].integrated
    BY <1>0, <1>3 DEF Promote, Reached, Sound
  <2>2. \A phase \in {"pull_request", "post_integration"} : Sound(s, r(phase), validated', target')
    BY <1>0, <2>1 DEF Sound, Record
  <2>3. Save(s, r("pull_request")) \/ Save(s, r("post_integration"))
    BY <1>3 DEF Promote
  <2>4. QED
    BY <2>2, <2>3, SaveSound
<1>4. CASE PromotionBlocked(s)
  <2> DEFINE r == [mem[s] EXCEPT !.status = "pending", !.phase = "promotion"]
  <2>1. mem[s].status # "none" /\ mem[s].phase # "none"
    BY <1>0, <1>4 DEF PromotionBlocked, Reached, IInv, Commands, Runs
  <2>2. Sound(s, r, validated', target')
    BY <1>0, <2>1 DEF Sound, Record, Delivering
  <2>3. Save(s, r)
    BY <1>4 DEF PromotionBlocked
  <2>4. QED
    BY <2>2, <2>3, SaveSound
<1>5. CASE FetchMoved(s)
  <2> DEFINE r == [mem[s] EXCEPT !.baseline = Baseline(s), !.attempts = @ + 1,
                                 !.phase = "remote_promotion"]
  <2>1. mem[s].phase \in Delivering
    BY <1>0, <1>5 DEF FetchMoved, Reached, Publishing
  <2>2. Sound(s, r, validated', target')
    BY <1>0, <2>1 DEF Sound, Record, Delivering
  <2>3. Save(s, r)
    BY <1>5 DEF FetchMoved
  <2>4. QED
    BY <2>2, <2>3, SaveSound
<1>6. CASE Revalidate(s)
  <2> DEFINE r == [mem[s] EXCEPT !.integrated = staging', !.expected = mem[s].promoted,
                                 !.phase = "promotion"]
  <2>1. s \in staging' /\ staging' \in validated'
    BY <1>0, <1>6 DEF Revalidate, Reached
  <2>2. Sound(s, r, validated', target')
    BY <1>0, <2>1 DEF Sound, Record, Delivering
  <2>3. Save(s, r)
    BY <1>6 DEF Revalidate
  <2>4. QED
    BY <2>2, <2>3, SaveSound
<1>7. CASE Finish(s)
  <2> DEFINE r == [mem[s] EXCEPT !.status = "succeeded", !.phase = "none"]
  <2>1. mem[s].status # "none"
    BY <1>0 DEF IInv, Commands, Runs
  <2>2. Sound(s, r, validated', target')
    BY <1>0, <2>1 DEF Sound, Record, Delivering
  <2>3. Save(s, r)
    BY <1>7 DEF Finish
  <2>4. QED
    BY <2>2, <2>3, SaveSound
<1>8. CASE IntegrateStops(s) \/ CheckBase(s) \/ Push(s) \/ PushRejected(s) \/ FetchContained(s)
           \/ FetchStops(s) \/ Replay(s) \/ Request(s) \/ RequestRefused(s) \/ StepFails(s)
  <2>1. Fail(s) \/ FailReplayed(s) \/ UNCHANGED records
    BY <1>8 DEF IntegrateStops, CheckBase, Push, PushRejected, FetchContained, FetchStops, Replay,
                Request, RequestRefused, StepFails
  <2>2. QED
    BY <1>0, <2>1, FailSound, KeepSound
<1>9. QED
  BY <1>1, <1>2, <1>3, <1>4, <1>5, <1>6, <1>7, <1>8 DEF Step

LEMMA RecordsStart ==
  ASSUME IInv, Next, NEW s \in Sessions, Starts(s) \/ Crash(s) PROVE Records'
<1>0. rec[s] \in Record /\ Sound(s, rec[s], validated', target')
  BY Grows, SoundGrows DEF IInv, TypeOK, Records
<1>1. CASE Enroll(s)
  <2>1. PICK p \in Files[s] :
          /\ Loads(p) /\ Accepted(p)
          /\ Save(s, [rec[s] EXCEPT !.status = "ready", !.rule = Resolved(p)])
    BY <1>1 DEF Enroll
  <2> DEFINE r == [rec[s] EXCEPT !.status = "ready", !.rule = Resolved(p)]
  <2>2. Resolved(p) \in Rule /\ ~Problem(Resolved(p))
    BY <2>1, AcceptedRule
  <2>3. Sound(s, r, validated', target')
    BY <1>0, <2>2 DEF Sound, Record
  <2>4. QED
    BY <2>1, <2>3, SaveSound
<1>2. CASE ResumeMovedTarget(s)
  <2> DEFINE r == [rec[s] EXCEPT !.integrated = staging', !.expected = target]
  <2>1. s \in staging' /\ staging' \in validated'
    BY <1>0, <1>2 DEF ResumeMovedTarget, TargetMoved, Sound
  <2>2. Sound(s, r, validated', target')
    BY <1>0, <2>1 DEF Sound, Record
  <2>3. Save(s, r)
    BY <1>2 DEF ResumeMovedTarget
  <2>4. QED
    BY <2>2, <2>3, SaveSound
<1>3. CASE Begin(s) \/ Resume(s) \/ Crash(s)
  <2>1. Keep(s, rec[s])
    BY <1>3 DEF Begin, Resume, Crash
  <2>2. QED
    BY <1>0, <2>1, SaveSound
<1>4. QED
  BY <1>1, <1>2, <1>3 DEF Starts

------------------------------------------------------------------------------
(* The lock lets one command run. What a step of it leaves behind, if the     *)
(* step does not end it, is as far as the next step needs: its way on either  *)
(* saves a record that keeps the status and the rule, or saves nothing.       *)
LEMMA Alone ==
  ASSUME IInv, NEW s \in Sessions, pc[s] # "idle"
  PROVE  \A x \in Sessions \ {s} : pc[x] = "idle"
BY DEF IInv, Commands, Runs

LEMMA StillRuns ==
  ASSUME IInv, NEW s \in Sessions, pc[s] # "idle", lock' = lock,
         \/ UNCHANGED records
         \/ \E r \in Record : Save(s, r) /\ r.status = mem[s].status /\ r.rule = mem[s].rule
  PROVE  Runs(s)' /\ Mode(s)' = Mode(s)
BY DEF IInv, TypeOK, Commands, Runs, Mode, Save, records

LEMMA CommandsStep ==
  ASSUME IInv, TypeOK', Records', Next, NEW s \in Sessions, Step(s) PROVE Commands'
<1>0. /\ TypeOK /\ pc[s] # "idle" /\ mem[s] \in Record /\ rec[s] \in Record
      /\ Runs(s) /\ Reached(s) /\ Ready(s) /\ Sound(s, mem[s], validated, target)
  <2>1. pc[s] # "idle"
    BY DEF Step, Refresh, Integrate, IntegrateStops, Promote, PromotionBlocked, CheckBase, Push,
           PushRejected, FetchContained, FetchMoved, FetchStops, Replay, Revalidate, Request,
           RequestRefused, Finish, StepFails
  <2>2. QED
    BY <2>1 DEF IInv, TypeOK, Records, Commands
<1>1. \A x \in Sessions \ {s} : pc'[x] = "idle"
  <2>1. (\E to : Go(s, to)) \/ Leave(s)
    <3>1. CASE Refresh(s) \/ Integrate(s) \/ IntegrateStops(s) \/ Promote(s) \/ PromotionBlocked(s)
      BY <3>1 DEF Refresh, Integrate, IntegrateStops, Promote, PromotionBlocked, Fail
    <3>2. CASE CheckBase(s) \/ Push(s) \/ PushRejected(s) \/ FetchContained(s) \/ FetchMoved(s)
      BY <3>2 DEF CheckBase, Push, PushRejected, FetchContained, FetchMoved, Fail
    <3>3. CASE FetchStops(s) \/ Replay(s) \/ Revalidate(s) \/ Request(s) \/ RequestRefused(s)
               \/ Finish(s) \/ StepFails(s)
      BY <3>3 DEF FetchStops, Replay, Revalidate, Request, RequestRefused, Finish, StepFails,
                   Fail, FailReplayed
    <3>4. QED
      BY <3>1, <3>2, <3>3 DEF Step
  <2>2. QED
    BY <1>0, <2>1, Alone DEF Go, Leave, TypeOK
<1> SUFFICES ASSUME pc'[s] # "idle" PROVE Runs(s)' /\ Reached(s)' /\ Ready(s)'
  BY <1>1 DEF Commands
<1>2. ~Leave(s) /\ ~Fail(s) /\ ~FailReplayed(s)
  BY <1>0 DEF Leave, Fail, FailReplayed, TypeOK
<1>3. mem'[s] \in Record /\ Sound(s, mem'[s], validated', target')
  BY DEF TypeOK, Records
<1>4. CASE Refresh(s)
  <2>1. pc'[s] = "merge" /\ lock' = lock
    BY <1>0, <1>2, <1>4 DEF Refresh, Go, TypeOK
  <2>2. /\ mem'[s].expected \in Commit
        /\ Save(s, mem'[s]) /\ mem'[s].status = mem[s].status /\ mem'[s].rule = mem[s].rule
    <3> DEFINE based == [mem[s] EXCEPT !.expected = target]
               synced == [based EXCEPT !.expected = target', !.baseline = heads[Shared], !.attempts = 0]
    <3>1. /\ based \in Record /\ based.status = mem[s].status /\ based.rule = mem[s].rule
          /\ based.expected \in Commit
      BY <1>0 DEF Record, TypeOK
    <3>2. Save(s, based) \/ Save(s, synced)
      BY <1>2, <1>4 DEF Refresh
    <3> HIDE DEF based
    <3>3. synced.status = mem[s].status /\ synced.rule = mem[s].rule /\ synced.expected \in Commit
      BY <3>1 DEF Record, TypeOK
    <3> HIDE DEF synced
    <3>4. QED
      BY <1>0, <3>1, <3>2, <3>3 DEF Save, TypeOK
  <2>3. QED
    BY <1>0, <1>3, <2>1, <2>2, StillRuns DEF Reached, Ready, Publishing
<1>5. CASE Integrate(s)
  <2>1. pc'[s] = "promote" /\ lock' = lock
    BY <1>0, <1>5 DEF Integrate, Go, TypeOK
  <2>2. /\ mem'[s].phase # "none"
        /\ Save(s, mem'[s]) /\ mem'[s].status = mem[s].status /\ mem'[s].rule = mem[s].rule
    BY <1>0, <1>5 DEF Integrate, Save, TypeOK, Record
  <2>3. QED
    BY <1>0, <1>3, <2>1, <2>2, StillRuns DEF Reached, Ready, Publishing
<1>6. CASE Promote(s)
  <2>1. pc'[s] \in {"base", "push"} /\ lock' = lock
    BY <1>0, <1>6 DEF Promote, Go, TypeOK
  <2>2. /\ mem'[s].phase \in Delivering
        /\ Save(s, mem'[s]) /\ mem'[s].status = mem[s].status /\ mem'[s].rule = mem[s].rule
    BY <1>0, <1>6 DEF Promote, Save, TypeOK, Record, Delivering
  <2>3. QED
    BY <1>0, <1>3, <2>1, <2>2, StillRuns DEF Reached, Ready
<1>7. CASE CheckBase(s)
  <2>1. pc'[s] \in {"finish", "push"} /\ lock' = lock /\ UNCHANGED <<remote, local, records>>
    BY <1>0, <1>7 DEF CheckBase, Go, TypeOK
  <2>2. Runs(s)' /\ Mode(s)' = Mode(s) /\ mem' = mem
    BY <1>0, <2>1, StillRuns DEF records
  <2>3. ASSUME pc'[s] = "finish" PROVE Delivered(s)'
    <3>1. /\ rec[s].rule \in Rule /\ ~Problem(rec[s].rule)
          /\ s \in mem[s].promoted /\ s \in target
      BY <1>0, <1>7 DEF CheckBase, Reached, Publishing, Sound, Runs
    <3>2. Mode(s) = "none" \/ s \in base
      BY <1>0, <1>7, <2>3, <3>1 DEF CheckBase, Go, TypeOK, HeadCommit
    <3>3. Delivered(s)
      BY <3>1, <3>2 DEF Delivered, OnItsWay, Problem, Mode
    <3>4. QED
      BY <2>1, <3>3 DEF Delivered, OnItsWay, Published, Head, Mode, remote, local, records
  <2>4. QED
    BY <1>0, <1>7, <2>1, <2>2, <2>3 DEF CheckBase, Reached, Ready, Publishing
<1>8. CASE Push(s)
  <2>1. pc'[s] \in {"request", "fetch"} /\ lock' = lock /\ UNCHANGED records
    BY <1>0, <1>2, <1>8 DEF Push, Go, TypeOK
  <2>2. Runs(s)' /\ Mode(s)' = Mode(s) /\ mem' = mem
    BY <1>0, <2>1, StillRuns DEF records
  <2>3. mem[s].phase \in Delivering /\ s \in mem[s].promoted
    BY <1>0, <1>8 DEF Push, Reached, Publishing, Sound
  <2>4. heads'[Head(s)] = HeadCommit(s) /\ s \in HeadCommit(s) /\ HeadCommit(s) # None
    <3>1. Head(s) \in Sessions \cup {Shared} /\ HeadCommit(s) \in Commit
      BY <2>3, HeadType DEF IInv
    <3>2. s \in HeadCommit(s)
      BY <2>3 DEF HeadCommit
    <3>3. HeadCommit(s) # None
      BY <3>1, RemoteAssumption DEF Commit, Change
    <3>4. QED
      BY <1>0, <1>8, <3>1, <3>2, <3>3 DEF Push, TypeOK
  <2>5. Shown(s)'
    BY <2>2, <2>4 DEF Shown, Published, Head
  <2>6. pc'[s] = "fetch" => Mode(s) # "session-branch"
    BY <1>0, <1>2, <1>8 DEF Push, Go, TypeOK
  <2>7. QED
    BY <2>1, <2>2, <2>3, <2>5, <2>6 DEF Reached, Ready, Publishing
<1>9. CASE PushRejected(s)
  <2>1. pc'[s] = "fetch" /\ lock' = lock /\ UNCHANGED records /\ Mode(s) # "session-branch"
    BY <1>0, <1>2, <1>9 DEF PushRejected, Go, TypeOK
  <2>2. Runs(s)' /\ Mode(s)' = Mode(s) /\ mem' = mem
    BY <1>0, <2>1, StillRuns DEF records
  <2>3. QED
    BY <1>0, <1>9, <2>1, <2>2 DEF PushRejected, Reached, Ready, Publishing
<1>10. CASE FetchContained(s)
  <2>1. pc'[s] = "request" /\ lock' = lock /\ UNCHANGED <<remote, records>>
    BY <1>0, <1>10 DEF FetchContained, Go, TypeOK
  <2>2. Runs(s)' /\ Mode(s)' = Mode(s) /\ mem' = mem
    BY <1>0, <2>1, StillRuns DEF records
  <2>3. /\ mem[s].phase \in Delivering /\ s \in mem[s].promoted /\ Mode(s) # "session-branch"
        /\ heads[Shared] # None /\ mem[s].promoted \subseteq heads[Shared]
    BY <1>0, <1>10 DEF FetchContained, Contains, HeadCommit, Reached, Publishing, Sound
  <2>4. Shown(s)'
    BY <2>1, <2>2, <2>3 DEF Shown, Published, remote
  <2>5. QED
    BY <2>1, <2>2, <2>3, <2>4 DEF Reached, Ready, Publishing
<1>11. CASE FetchMoved(s)
  <2>1. pc'[s] = "replay" /\ lock' = lock /\ staging' = staging
    BY <1>0, <1>11 DEF FetchMoved, Go, TypeOK, local
  <2>2. s \in staging
    BY <1>0, <1>11 DEF FetchMoved, Recoverable, Reached, Publishing, Sound, Delivering
  <2>3. /\ mem'[s].phase \in Delivering
        /\ Save(s, mem'[s]) /\ mem'[s].status = mem[s].status /\ mem'[s].rule = mem[s].rule
    BY <1>0, <1>11 DEF FetchMoved, Save, TypeOK, Record, Delivering
  <2>4. QED
    BY <1>0, <1>3, <2>1, <2>2, <2>3, StillRuns DEF Reached, Ready
<1>12. CASE Replay(s)
  <2>1. pc'[s] = "revalidate" /\ lock' = lock /\ UNCHANGED <<staging, records>>
    BY <1>0, <1>2, <1>12 DEF Replay, Go, TypeOK
  <2>2. Runs(s)' /\ mem' = mem
    BY <1>0, <2>1, StillRuns DEF records
  <2>3. QED
    BY <1>0, <1>12, <2>1, <2>2 DEF Replay, Reached, Ready, Publishing
<1>13. CASE Revalidate(s)
  <2>1. pc'[s] = "repromote" /\ lock' = lock
    BY <1>0, <1>13 DEF Revalidate, Go, TypeOK
  <2>2. /\ mem'[s].phase # "none"
        /\ Save(s, mem'[s]) /\ mem'[s].status = mem[s].status /\ mem'[s].rule = mem[s].rule
    BY <1>0, <1>13 DEF Revalidate, Save, TypeOK, Record
  <2>3. QED
    BY <1>0, <1>3, <2>1, <2>2, StillRuns DEF Reached, Ready, Publishing
<1>14. CASE Request(s)
  <2>1. /\ pc'[s] = "finish" /\ lock' = lock
        /\ UNCHANGED <<heads, base, rewritten, target, records>>
    BY <1>0, <1>14 DEF Request, Go, TypeOK, local
  <2>2. Runs(s)' /\ Mode(s)' = Mode(s) /\ mem' = mem
    BY <1>0, <2>1, StillRuns DEF records
  <2>3. /\ rec[s].rule \in Rule /\ ~Problem(rec[s].rule) /\ Shown(s) /\ s \in target
    BY <1>0, <1>14 DEF Request, Reached, Ready, Publishing, Sound, Runs
  <2>4. \E p \in prs' : p.head = Head(s) /\ (Mode(s) = "session-branch" => p.by = s)
    <3>1. CASE Requests(s) = {}
      <4>1. [head |-> Head(s), by |-> s] \in prs'
        BY <1>14, <3>1 DEF Request
      <4>2. QED
        BY <4>1
    <3>2. CASE Requests(s) # {}
      BY <1>14, <3>2 DEF Request, Requestable, Requests
    <3>3. QED
      BY <3>1, <3>2
  <2>5. Mode(s) # "none" => OnItsWay(s)'
    BY <2>1, <2>2, <2>3, <2>4 DEF OnItsWay, Shown, Published, Head, Rule, Mode
  <2>6. rec[s].rule.completion = "target-pushed" => Published(Shared, s) \/ rewritten
    BY <2>3 DEF Shown, Problem, Mode
  <2>7. Delivered(s)'
    BY <2>1, <2>2, <2>3, <2>5, <2>6 DEF Delivered, Problem, Mode, Published, records
  <2>8. QED
    BY <1>0, <1>14, <2>1, <2>2, <2>7 DEF Request, Reached, Ready, Publishing
<1>15. CASE IntegrateStops(s) \/ PromotionBlocked(s) \/ FetchStops(s) \/ RequestRefused(s)
            \/ Finish(s) \/ StepFails(s)
  BY <1>2, <1>15 DEF IntegrateStops, PromotionBlocked, FetchStops, RequestRefused, Finish, StepFails
<1>16. QED
  BY <1>4, <1>5, <1>6, <1>7, <1>8, <1>9, <1>10, <1>11, <1>12, <1>13, <1>14, <1>15 DEF Step

(* A command starts where its record says, when nothing runs; one that dies   *)
(* leaves nothing running. Enrolling another session disturbs no command.     *)
LEMMA CommandsStart ==
  ASSUME IInv, NEW s \in Sessions, Starts(s) \/ Crash(s) PROVE Commands'
<1>0. TypeOK /\ rec[s] \in Record /\ Sound(s, rec[s], validated, target)
  BY DEF IInv, TypeOK, Records
<1> USE DEF remote, local
<1>1. CASE Enroll(s)
  <2>1. UNCHANGED <<heads, base, prs, rewritten, target, staging, pc, lock>> /\ pc[s] = "idle"
    BY <1>1 DEF Enroll
  <2>2. \A x \in Sessions \ {s} : rec'[x] = rec[x] /\ mem'[x] = mem[x]
    BY <1>0, <1>1 DEF Enroll, Save, TypeOK
  <2>3. ASSUME NEW x \in Sessions, pc'[x] # "idle" PROVE Runs(x)' /\ Reached(x)' /\ Ready(x)'
    <3>1. /\ Runs(x) /\ Reached(x) /\ Ready(x)
          /\ rec'[x] = rec[x] /\ mem'[x] = mem[x] /\ Mode(x)' = Mode(x) /\ Head(x)' = Head(x)
      BY <2>1, <2>2, <2>3 DEF IInv, Commands, Mode, Head
    <3>2. QED
      BY <2>1, <3>1 DEF Runs, Reached, Ready, Shown, Delivered, OnItsWay, Published
  <2>4. QED
    BY <2>3 DEF Commands
<1>2. ASSUME Begin(s) \/ Resume(s) \/ ResumeMovedTarget(s)
      PROVE  /\ \A x \in Sessions \ {s} : pc'[x] = "idle"
             /\ lock' = s /\ pc'[s] \in {"refresh", "base", "promote"}
             /\ rec[s].status \in {"ready", "review", "pending"}
  <2>1. \A x \in Sessions : pc[x] = "idle"
    BY <1>2, RemoteAssumption DEF IInv, Commands, Runs, Begin, Resume, ResumeMovedTarget
  <2>2. QED
    BY <1>0, <1>2, <2>1 DEF Begin, Resume, ResumeMovedTarget, TypeOK
<1>3. CASE Begin(s)
  <2>1. pc'[s] = "refresh" /\ mem'[s] = rec[s] /\ rec' = rec
    BY <1>0, <1>3 DEF Begin, Keep, TypeOK
  <2>2. QED
    BY <1>2, <1>3, <2>1 DEF Commands, Runs, Reached, Ready, Publishing
<1>4. CASE Resume(s)
  <2>1. /\ mem'[s] = rec[s] /\ rec' = rec /\ rec[s].phase # "none"
        /\ pc'[s] = "base" => rec[s].phase \in Delivering
    BY <1>0, <1>4 DEF Resume, Resumable, Keep, TypeOK, Delivering
  <2>2. QED
    BY <1>2, <1>4, <2>1 DEF Commands, Runs, Reached, Ready, Publishing
<1>5. CASE ResumeMovedTarget(s)
  <2>1. /\ pc'[s] = "promote" /\ rec'[s] = mem'[s] /\ rec'[s].status = rec[s].status
        /\ rec'[s].phase = "promotion"
    BY <1>0, <1>5 DEF ResumeMovedTarget, TargetMoved, Save, TypeOK, Record
  <2>2. QED
    BY <1>2, <1>5, <2>1 DEF Commands, Runs, Reached, Ready, Publishing
<1>6. CASE Crash(s)
  <2>1. \A x \in Sessions : pc'[x] = "idle"
    BY <1>0, <1>6, Alone DEF Crash, Leave, TypeOK
  <2>2. QED
    BY <2>1 DEF Commands
<1>7. QED
  BY <1>1, <1>3, <1>4, <1>5, <1>6 DEF Starts

(* Others take nothing back from a delivery but what a rewrite of the shared  *)
(* target takes, and a pull request that is merged leaves its change on the   *)
(* production branch.                                                         *)
LEMMA EnvironmentKeeps ==
  ASSUME IInv, TypeOK', Next, Environment, NEW s \in Sessions, pc[s] # "idle"
  PROVE  (Shown(s) => Shown(s)') /\ (Delivered(s) => Delivered(s)')
<1>0. /\ TypeOK /\ Runs(s) /\ rec[s].rule \in Rule /\ ~Problem(rec[s].rule)
      /\ target \subseteq target' /\ base \subseteq base'
  BY Grows DEF IInv, TypeOK, Records, Commands, Runs, Sound
<1>1. UNCHANGED records /\ Mode(s)' = Mode(s) /\ Head(s)' = Head(s)
  BY DEF Environment, SyncTarget, OthersRewrite, OthersPush, OthersMerge, OthersRequest, LocalCommit,
         UserFetches, records, Mode, Head
<1>2. rewritten => rewritten'
  BY DEF Environment, SyncTarget, OthersRewrite, OthersPush, OthersMerge, OthersRequest, LocalCommit,
         UserFetches, remote
<1>3. \A h \in Sessions \cup {Shared} :
        Published(h, s) => Published(h, s)' \/ (h = Shared /\ rewritten')
  <2>1. CASE SyncTarget \/ UserFetches \/ (\E p \in prs : OthersMerge(p))
             \/ (\E v \in Locals : LocalCommit(v))
             \/ (\E u \in Others, x \in Sessions : OthersRequest(u, x))
    BY <2>1 DEF SyncTarget, OthersMerge, OthersRequest, LocalCommit, UserFetches, remote, Published
  <2>2. CASE OthersRewrite
    BY <1>0, <2>2 DEF OthersRewrite, Published, TypeOK
  <2>3. ASSUME NEW u \in Others, OthersPush(u)
        PROVE  \A h \in Sessions \cup {Shared} : Published(h, s) => Published(h, s)'
    <3>1. heads[Shared] \cup {u} \in Commit
      BY <1>0, <2>3 DEF OthersPush, TypeOK, Commit, Change
    <3>2. heads[Shared] \cup {u} # None
      BY <3>1, RemoteAssumption DEF Commit, Change
    <3>3. QED
      BY <1>0, <2>3, <3>2 DEF OthersPush, Published, TypeOK
  <2>4. QED
    BY <2>1, <2>2, <2>3 DEF Environment
<1>4. Shown(s) => Shown(s)'
  BY <1>1, <1>2, <1>3, RemoteAssumption DEF Shown
<1>5. OnItsWay(s) /\ Mode(s) # "none" => OnItsWay(s)'
  <2> SUFFICES ASSUME OnItsWay(s), Mode(s) # "none", s \notin base',
                      ~(Mode(s) = "shared-target" /\ rewritten')
               PROVE  OnItsWay(s)'
    BY <1>1 DEF OnItsWay
  <2>1. PICK p \in prs : p.head = Head(s) /\ (Mode(s) = "session-branch" => p.by = s)
    BY <1>0, <1>2 DEF OnItsWay
  <2>2. Published(Head(s), s)
    BY <1>0, <1>2 DEF OnItsWay
  <2>3. Mode(s) = "session-branch" \/ Mode(s) = "shared-target"
    BY <1>0 DEF Mode, Rule
  <2>4. Published(Head(s), s)'
    BY <1>1, <1>3, <2>2, <2>3, RemoteAssumption DEF Head
  <2>5. p \in prs'
    <3>1. CASE OthersRewrite
      BY <2>1, <2>3, <3>1, RemoteAssumption DEF OthersRewrite, Head
    <3>2. ASSUME NEW q \in prs, OthersMerge(q) PROVE p \in prs'
      BY <2>1, <2>2, <3>2 DEF OthersMerge, Published
    <3>3. CASE SyncTarget \/ UserFetches \/ (\E u \in Others : OthersPush(u))
               \/ (\E v \in Locals : LocalCommit(v))
               \/ (\E u \in Others, x \in Sessions : OthersRequest(u, x))
      BY <3>3 DEF SyncTarget, OthersPush, LocalCommit, UserFetches, OthersRequest, remote
    <3>4. QED
      BY <3>1, <3>2, <3>3 DEF Environment
  <2>6. QED
    BY <1>1, <2>1, <2>4, <2>5 DEF OnItsWay
<1>6. Delivered(s) => Delivered(s)'
  BY <1>0, <1>1, <1>2, <1>3, <1>5 DEF Delivered, Problem, Mode, records
<1>7. QED
  BY <1>4, <1>6

LEMMA EnvironmentStep ==
  ASSUME IInv, TypeOK', Next, Environment PROVE Records' /\ Commands'
<1>1. UNCHANGED <<records, pc, lock>>
  BY DEF Environment, SyncTarget, OthersRewrite, OthersPush, OthersMerge, OthersRequest, LocalCommit,
         UserFetches, records
<1>2. ASSUME NEW s \in Sessions, pc'[s] # "idle" PROVE Runs(s)' /\ Reached(s)' /\ Ready(s)'
  <2>1. Runs(s) /\ Reached(s) /\ Ready(s)
    BY <1>1, <1>2 DEF IInv, Commands
  <2>2. Mode(s)' = Mode(s) /\ staging \subseteq staging'
    BY <1>1, Grows DEF Mode, records
  <2>3. (Shown(s) => Shown(s)') /\ (Delivered(s) => Delivered(s)')
    BY <1>1, <1>2, EnvironmentKeeps
  <2>4. QED
    BY <1>1, <2>1, <2>2, <2>3 DEF Runs, Reached, Ready, records
<1>3. QED
  BY <1>1, <1>2, KeepSound DEF Commands, records

LEMMA Inductive == ASSUME IInv, [Next]_vars PROVE IInv'
<1>1. CASE Environment
  <2>1. Next
    BY <1>1 DEF Next
  <2>2. TypeOK'
    BY <1>1, TypeEnvironment DEF IInv
  <2>3. QED
    BY <1>1, <2>1, <2>2, EnvironmentStep DEF IInv
<1>2. ASSUME NEW s \in Sessions, Step(s) PROVE IInv'
  <2>1. Next
    BY <1>2 DEF Next
  <2>2. TypeOK' /\ Records'
    BY <1>2, <2>1, TypeStep, RecordsStep
  <2>3. QED
    BY <1>2, <2>1, <2>2, CommandsStep DEF IInv
<1>3. ASSUME NEW s \in Sessions, Starts(s) \/ Crash(s) PROVE IInv'
  <2>1. Next
    BY <1>3 DEF Next
  <2>2. TypeOK' /\ Records' /\ Commands'
    BY <1>3, <2>1, TypeStart, RecordsStart, CommandsStart
  <2>3. QED
    BY <2>2 DEF IInv
<1>4. CASE UNCHANGED vars
  BY <1>4 DEF vars, IInv, TypeOK, Records, Commands, Runs, Reached, Ready, Shown, Delivered, OnItsWay,
              Published, Mode, Head
<1>5. QED
  BY <1>1, <1>2, <1>3, <1>4 DEF Next

LEMMA InitInvariant == ASSUME Init PROVE IInv
<1>1. \A s \in Sessions : rec[s].status = "none" /\ rec[s].phase = "none" /\ mem[s] = rec[s]
                         /\ pc[s] = "idle"
  BY DEF Init
<1>2. QED
  BY <1>1, TypeInit DEF IInv, Records, Commands, Sound, Delivering

(* RemoteTarget's state keeps its type and IInv holds, for any sessions,      *)
(* policies, clones, conflicts, rewrites, deaths and failures.                *)
THEOREM TypeCorrect == Spec => [](TypeOK /\ Records /\ Commands)
<1>1. Init => IInv
  BY InitInvariant
<1>2. IInv /\ [Next]_vars => IInv'
  BY Inductive
<1>3. IInv => TypeOK /\ Records /\ Commands
  BY DEF IInv
<1>4. QED
  BY <1>1, <1>2, <1>3, PTL DEF Spec

------------------------------------------------------------------------------
(* A step of a command pushes only from the step "push", and only there is a  *)
(* branch of the remote touched: Git accepts an addition alone, and what goes *)
(* to the shared target is a commit the record says was promoted.             *)
LEMMA PushAdds ==
  ASSUME IInv, NEW s \in Sessions, Step(s)
  PROVE  /\ \A h \in DOMAIN heads : heads[h] # None => heads[h] \subseteq heads'[h]
         /\ heads'[Shared] # heads[Shared] => heads'[Shared] \in validated
<1>1. CASE Push(s)
  <2>1. /\ TypeOK /\ mem[s].phase \in Delivering /\ mem[s].promoted \in validated
    BY <1>1 DEF IInv, Commands, Records, Reached, Sound, Push, Publishing
  <2>2. heads' = [heads EXCEPT ![Head(s)] = HeadCommit(s)] /\ Accepts(Head(s), HeadCommit(s))
    BY <1>1 DEF Push
  <2>3. Head(s) = Shared => HeadCommit(s) \in validated
    BY <2>1, RemoteAssumption DEF Head, HeadCommit
  <2>4. QED
    BY <2>1, <2>2, <2>3 DEF TypeOK, Accepts
<1>2. CASE ~Push(s)
  <2>1. heads' = heads
    BY <1>2 DEF Step, Refresh, Integrate, IntegrateStops, Promote, PromotionBlocked, CheckBase,
           PushRejected, FetchContained, FetchMoved, FetchStops, Replay, Revalidate, Request,
           RequestRefused, Finish, StepFails, remote
  <2>2. QED
    BY <2>1
<1>3. QED
  BY <1>1, <1>2

(* Nothing is overwritten and nothing unchecked is published, however often a *)
(* remote moves under a push: OnlyForward, for any number of sessions.        *)
THEOREM NothingOverwritten == Spec => OnlyForward
<1> DEFINE Adds ==
      /\ \A h \in DOMAIN heads : heads[h] # None => heads[h] \subseteq heads'[h]
      /\ heads'[Shared] # heads[Shared] => heads'[Shared] \in validated
    A == target \subseteq target' /\ staging \subseteq staging' /\ (Pushes => Adds)
<1>1. ASSUME IInv, [Next]_vars PROVE [A]_vars
  <2> SUFFICES ASSUME Next PROVE A
    BY <1>1
  <2>1. target \subseteq target' /\ staging \subseteq staging'
    BY Grows
  <2>2. ASSUME Pushes PROVE Adds
    <3>1. CASE Environment
      BY <3>1, <2>2 DEF Pushes, Environment, SyncTarget, OthersRewrite, OthersPush, OthersMerge,
                        OthersRequest, LocalCommit, UserFetches
    <3>2. ASSUME NEW s \in Sessions, Step(s) PROVE Adds
      BY <1>1, <3>2, PushAdds
    <3>3. ASSUME NEW s \in Sessions, Starts(s) \/ Crash(s) PROVE Adds
      BY <3>3 DEF Starts, Crash, Enroll, Begin, Resume, ResumeMovedTarget, remote
    <3>4. QED
      BY <3>1, <3>2, <3>3 DEF Next
  <2>3. QED
    BY <2>1, <2>2
<1>2. IInv /\ [Next]_vars => [A]_vars
  BY <1>1
<1>3. Init => IInv
  BY InitInvariant
<1>4. IInv /\ [Next]_vars => IInv'
  BY Inductive
<1>5. QED
  BY <1>2, <1>3, <1>4, PTL DEF Spec, OnlyForward

------------------------------------------------------------------------------
(* Only the last step of a command says that its session succeeded, and then  *)
(* the command is Ready.                                                      *)
LEMMA OnlyFinishSucceeds ==
  ASSUME IInv, Next, NEW s \in Sessions, rec[s].status # "succeeded", rec'[s].status = "succeeded"
  PROVE  Finish(s)
<1>0. TypeOK
  BY DEF IInv
<1>1. ASSUME NEW x \in Sessions, NEW r, Save(x, r), r.status # "succeeded" PROVE FALSE
  BY <1>0, <1>1 DEF Save, TypeOK
<1>2. ASSUME UNCHANGED rec PROVE FALSE
  BY <1>2
<1>3. ASSUME NEW x \in Sessions, pc[x] # "idle", Fail(x) \/ FailReplayed(x) PROVE FALSE
  <2> DEFINE failed == [mem[x] EXCEPT !.status = IF @ = "pending" THEN @ ELSE "review"]
  <2>1. mem[x] \in Record
    BY <1>0 DEF TypeOK
  <2>2. failed.status # "succeeded"
    BY <2>1 DEF Record
  <2>3. Save(x, failed) \/ (mem[x].status = "ready" /\ Save(x, mem[x]))
    BY <1>3 DEF Fail, FailReplayed
  <2> HIDE DEF failed
  <2>4. QED
    BY <1>1, <2>2, <2>3
<1>4. CASE Environment
  BY <1>2, <1>4 DEF Environment, SyncTarget, OthersRewrite, OthersPush, OthersMerge, OthersRequest,
                    LocalCommit, UserFetches, records
<1>5. ASSUME NEW x \in Sessions, Starts(x) \/ Crash(x) PROVE FALSE
  <2>1. CASE Enroll(x)
    <3>1. PICK p \in Files[x] : Save(x, [rec[x] EXCEPT !.status = "ready", !.rule = Resolved(p)])
      BY <2>1 DEF Enroll
    <3> DEFINE r == [rec[x] EXCEPT !.status = "ready", !.rule = Resolved(p)]
    <3>2. r.status = "ready"
      BY <1>0 DEF TypeOK, Record
    <3> HIDE DEF r
    <3>3. QED
      BY <1>1, <3>1, <3>2 DEF r
  <2>2. CASE ResumeMovedTarget(x)
    <3> DEFINE r == [rec[x] EXCEPT !.integrated = staging', !.expected = target]
    <3>1. r.status = rec[x].status /\ rec[x].status # "succeeded"
      BY <1>0, <2>2 DEF ResumeMovedTarget, TypeOK, Record
    <3>2. Save(x, r)
      BY <2>2 DEF ResumeMovedTarget
    <3> HIDE DEF r
    <3>3. QED
      BY <1>1, <3>1, <3>2
  <2>3. CASE Begin(x) \/ Resume(x) \/ Crash(x)
    BY <1>2, <2>3 DEF Begin, Resume, Crash, Keep
  <2>4. QED
    BY <1>5, <2>1, <2>2, <2>3 DEF Starts
<1>6. ASSUME NEW x \in Sessions, Step(x), ~Finish(x) PROVE FALSE
  <2>1. pc[x] # "idle"
    BY <1>6 DEF Step, Refresh, Integrate, IntegrateStops, Promote, PromotionBlocked, CheckBase, Push,
           PushRejected, FetchContained, FetchMoved, FetchStops, Replay, Revalidate, Request,
           RequestRefused, Finish, StepFails
  <2>2. mem[x] \in Record /\ mem[x].status # "succeeded"
    BY <1>0, <2>1 DEF IInv, TypeOK, Commands, Runs
  <2>3. CASE pc[x] \in {"refresh"} /\ Refresh(x)
    <3> DEFINE based == [mem[x] EXCEPT !.expected = target]
               synced == [based EXCEPT !.expected = target', !.baseline = heads[Shared], !.attempts = 0]
    <3>1. based \in Record /\ based.status # "succeeded"
      BY <1>0, <2>2 DEF TypeOK, Record
    <3>2. Save(x, based) \/ Save(x, synced) \/ UNCHANGED rec
      BY <2>3 DEF Refresh, records
    <3> HIDE DEF based
    <3>3. synced.status # "succeeded"
      BY <3>1 DEF Record
    <3> HIDE DEF synced
    <3>4. QED
      BY <1>1, <1>2, <3>1, <3>2, <3>3
  <2>4. CASE Integrate(x) \/ Promote(x) \/ PromotionBlocked(x) \/ FetchMoved(x) \/ Revalidate(x)
    <3>1. CASE Integrate(x)
      BY <1>0, <2>2, <3>1 DEF Integrate, Save, TypeOK, Record
    <3>2. CASE Promote(x)
      BY <1>0, <2>2, <3>2 DEF Promote, Save, TypeOK, Record
    <3>3. CASE FetchMoved(x)
      BY <1>0, <2>2, <3>3 DEF FetchMoved, Save, TypeOK, Record
    <3>4. CASE Revalidate(x)
      BY <1>0, <2>2, <3>4 DEF Revalidate, Save, TypeOK, Record
    <3>5. CASE PromotionBlocked(x)
      BY <1>0, <2>2, <3>5 DEF PromotionBlocked, Save, TypeOK, Record
    <3>6. QED
      BY <2>4, <3>1, <3>2, <3>3, <3>4, <3>5
  <2>5. CASE IntegrateStops(x) \/ CheckBase(x) \/ Push(x) \/ PushRejected(x) \/ FetchContained(x)
           \/ FetchStops(x) \/ Replay(x) \/ Request(x) \/ RequestRefused(x) \/ StepFails(x)
    <3>1. Fail(x) \/ FailReplayed(x) \/ UNCHANGED rec
      BY <2>5 DEF IntegrateStops, CheckBase, Push, PushRejected, FetchContained, FetchStops, Replay,
                  Request, RequestRefused, StepFails, records
    <3>2. QED
      BY <1>2, <1>3, <2>1, <3>1
  <2>6. QED
    BY <1>6, <2>3, <2>4, <2>5 DEF Step, Refresh
<1>7. ASSUME NEW x \in Sessions, Finish(x) PROVE x = s
  BY <1>0, <1>7 DEF Finish, Save, TypeOK
<1>8. QED
  BY <1>4, <1>5, <1>6, <1>7 DEF Next

(* A session succeeds only when its change is where its rule promised it, or  *)
(* on the way there: SucceededDelivered, for every policy that is accepted.   *)
THEOREM SuccessIsDelivery == Spec => SucceededDelivered
<1> DEFINE A == \A s \in Sessions :
      rec[s].status # "succeeded" /\ rec'[s].status = "succeeded" => Delivered(s) \/ Delivered(s)'
<1>1. ASSUME IInv, [Next]_vars PROVE [A]_vars
  <2> SUFFICES ASSUME Next, NEW s \in Sessions,
                      rec[s].status # "succeeded", rec'[s].status = "succeeded"
               PROVE  Delivered(s)
    BY <1>1
  <2>1. Finish(s)
    BY <1>1, OnlyFinishSucceeds
  <2>2. QED
    BY <1>1, <2>1 DEF Finish, IInv, Commands, Ready
<1>2. IInv /\ [Next]_vars => [A]_vars
  BY <1>1
<1>3. Init => IInv
  BY InitInvariant
<1>4. IInv /\ [Next]_vars => IInv'
  BY Inductive
<1>5. QED
  BY <1>2, <1>3, <1>4, PTL DEF Spec, SucceededDelivered
================================================================================
