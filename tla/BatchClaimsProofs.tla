--------------------------- MODULE BatchClaimsProofs ---------------------------
(***************************************************************************)
(* Proofs about BatchClaims for any set of sessions, any dependencies, any *)
(* number of members, commands and crashes, and with every race it models. *)
(***************************************************************************)
EXTENDS BatchClaims, WellFoundedInduction, TLAPS

(* The records a step may write have the type of a record.                 *)
LEMMA FreshIsRecord == FreshRecord \in Record /\ NoPlan \in Plan /\ NoBatch \in BatchEntry
BY DEF FreshRecord, Record, NoPlan, Plan, NoBatch, BatchEntry, Outcomes

LEMMA RecordFields ==
  ASSUME NEW r \in Record
  PROVE  /\ \A n \in Nat : [r EXCEPT !.wait = n] \in Record
         /\ [r EXCEPT !.started = TRUE] \in Record
         /\ [r EXCEPT !.status = "ready", !.replay = TRUE] \in Record
         /\ \A t \in {"ready", "succeeded", "failed"} :
              [r EXCEPT !.status = t] \in Record
         /\ \A b \in BatchEntry : [r EXCEPT !.batch = b] \in Record
         /\ \A o \in Outcomes \cup {"none", "open"} :
              [r EXCEPT !.batch.outcome = o] \in Record
         /\ r.wait \in Nat /\ r.batch.outcome \in Outcomes \cup {"none", "open"}
BY DEF Record, BatchEntry

LEMMA HeldType ==
  ASSUME TypeOK, NEW l \in Sessions, NEW s \in Sessions
  PROVE  /\ Held(l, s) \in Record
         /\ \A r \in Record :
              Hold(l, s, r) => mem' \in [Sessions -> Record] /\ copy' \in [Sessions -> Record]
BY DEF TypeOK, Held, Hold

LEMMA ForgetType == ASSUME Forget
  PROVE /\ cands' \in SUBSET Sessions /\ group' \in SUBSET Sessions
        /\ copy' \in [Sessions -> Record] /\ plan' \in [Sessions -> Plan]
BY FreshIsRecord DEF Forget

LEMMA VanishType == ASSUME TypeOK, NEW s \in Sessions, Vanish(s)
  PROVE mem' \in [Sessions -> Record] /\ since' \in [Sessions -> Nat]
BY FreshIsRecord DEF Vanish, TypeOK

LEMMA TypeBegin == ASSUME TypeOK, NEW s \in Sessions, Begin(s) PROVE TypeOK'
BY DEF TypeOK, Begin, Goto, PCs, batchVars

(* Releasing a stale claim changes the outcome of the claim only.           *)
LEMMA ReleaseFields ==
  ASSUME NEW r \in Record, NEW s \in Sessions
  PROVE  /\ ReleaseStale(r, s) \in Record
         /\ ReleaseStale(r, s).status = r.status
<1>1. [r EXCEPT !.batch.outcome = "released"] \in Record
  BY RecordFields DEF Outcomes
<1>2. [r EXCEPT !.batch.outcome = "released"].status = r.status
  BY DEF Record
<1>3. QED
  BY <1>1, <1>2 DEF ReleaseStale

LEMMA TypeWait == ASSUME TypeOK, NEW s \in Sessions, WaitStep(s) PROVE TypeOK'
<1> USE DEF TypeOK, Goto, PCs, memory, batchVars, Waiting, Inside, Batching
<1>1. CASE Advertise(s)
  <2>1. [mem[s] EXCEPT !.wait = run[s]] \in Record
    BY RecordFields
  <2>2. mem' \in [Sessions -> Record] /\ rec' \in [Sessions -> Record]
    BY <1>1, <2>1 DEF Advertise
  <2>3. QED
    BY <1>1, <2>2 DEF Advertise
<1>2. CASE DependencyBlocks(s) \/ PollAgain(s) \/ ExpireBetweenChecks(s) \/ FindStaleLock(s)
  BY <1>2 DEF DependencyBlocks, PollAgain, ExpireBetweenChecks, FindStaleLock
<1>3. CASE Lock(s)
  BY <1>3 DEF Lock
<1>4. CASE Watch(s)
  BY <1>4 DEF Watch, AtPoll
<1>5. CASE Expire(s)
  <2>1. [rec[s] EXCEPT !.wait = 0] \in Record
    BY RecordFields
  <2>2. QED
    BY <1>5, <2>1 DEF Expire, AtDeadline
<1>6. CASE LeaveWait(s)
  BY <1>6, VanishType DEF LeaveWait, Report, Reread
<1>7. CASE LeadOrReport(s)
  <2> DEFINE r == [ReleaseStale(rec[s], s) EXCEPT !.wait = 0]
  <2>1. r \in Record
    <3>1. ReleaseStale(rec[s], s) \in Record
      BY ReleaseFields
    <3>2. QED
      BY <3>1, RecordFields
  <2>2. CASE Resolved(rec[s], s)
    BY <1>7, <2>2 DEF LeadOrReport, Reread
  <2>3. CASE ~Resolved(rec[s], s)
    <3>1. mem' = [mem EXCEPT ![s] = r] /\ rec' = [rec EXCEPT ![s] = mem'[s]]
      BY <1>7, <2>3 DEF LeadOrReport, Reread
    <3>2. QED
      BY <1>7, <2>1, <2>3, <3>1 DEF LeadOrReport, Reread
  <2>4. QED
    BY <2>2, <2>3
<1>8. QED
  BY <1>1, <1>2, <1>3, <1>4, <1>5, <1>6, <1>7 DEF WaitStep

LEMMA TypeEnd == ASSUME TypeOK, NEW s \in Sessions, EndStep(s) PROVE TypeOK'
<1> USE DEF TypeOK, Goto, PCs, batchVars, memory, Waiting, Inside, Batching
<1>1. CASE LandAlone(s)
  <2>1. mem[s] \in Record
    OBVIOUS
  <2>2. [mem[s] EXCEPT !.started = TRUE, !.status = "succeeded"] \in Record
    BY <2>1 DEF Record
  <2>3. mem' \in [Sessions -> Record]
    BY <1>1, <2>2 DEF LandAlone
  <2>4. QED
    BY <1>1, <2>3 DEF LandAlone
<1>2. CASE RecordAlone(s)
  <2>1. /\ [mem[s] EXCEPT !.status = "failed"] \in Record
        /\ [mem[s] EXCEPT !.status = "ready", !.replay = TRUE] \in Record
    BY RecordFields
  <2>2. QED
    BY <1>2, <2>1 DEF RecordAlone
<1>3. CASE FailOwn(s)
  <2>1. [mem[s] EXCEPT !.status = "failed"] \in Record
    BY RecordFields
  <2>2. \A t \in {"ready", "failed"} :
          [mem[s] EXCEPT !.started = TRUE, !.status = t] \in Record
    <3>1. mem[s] \in Record
      OBVIOUS
    <3>2. QED
      BY <3>1 DEF Record
  <2>3. mem' \in [Sessions -> Record]
    BY <1>3, <2>1, <2>2 DEF FailOwn
  <2>4. QED
    BY <1>3, <2>3 DEF FailOwn
<1>4. CASE SaveFailure(s)
  <2>1. [mem[s] EXCEPT !.wait = 0] \in Record
    BY RecordFields
  <2>2. mem' \in [Sessions -> Record] /\ rec' \in [Sessions -> Record]
    BY <1>4, <2>1 DEF SaveFailure
  <2>3. QED
    BY <1>4, <2>2 DEF SaveFailure
<1>5. CASE Unlock(s)
  BY <1>5, VanishType DEF Unlock, Report, Released, Free
<1>6. CASE SaveLate(s)
  BY <1>6, VanishType DEF SaveLate
<1>7. QED
  BY <1>1, <1>2, <1>3, <1>4, <1>5, <1>6 DEF EndStep

(* The oldest candidate exists.                                            *)
LEMMA Oldest ==
  ASSUME NEW S, S \subseteq Nat, S # {}
  PROVE  \E c \in S : \A d \in S : c <= d
<1>1. \E c \in S : \A d \in S : <<d, c>> \notin OpToRel(<, Nat)
  BY WFMin, NatLessThanWellFounded
<1>2. \A c, d \in Nat : d < c => <<d, c>> \in OpToRel(<, Nat)
  BY DEF OpToRel
<1>3. \A c, d \in Nat : ~(d < c) => c <= d
  OBVIOUS
<1>4. QED
  BY <1>1, <1>2, <1>3

(* A claim looks at one candidate, and changes its record or nothing.      *)
Claimed(l, s, e) ==
  /\ Claimable(l, s) /\ e = Entry(l, rec[s].wait)
  /\ rec' = [rec EXCEPT ![s] = [rec[s] EXCEPT !.batch = e]]
  /\ copy' = [copy EXCEPT ![s] = [rec[s] EXCEPT !.batch = e]]
  /\ plan' = [plan EXCEPT ![s] = [stage |-> "open", outcome |-> "none"]]
  /\ DependenciesMet(s)

LEMMA ClaimOne ==
  ASSUME TypeOK, NEW l \in Sessions, Claim(l)
  PROVE  \E s \in Sessions, e \in BatchEntry :
           /\ cands' = cands \ {s}
           /\ Claimed(l, s, e) \/ UNCHANGED <<rec, copy, plan>>
<1> DEFINE s == CHOOSE c \in cands : \A d \in cands : c <= d
           e == Entry(l, rec[s].wait)
<1>1. cands \subseteq Sessions /\ cands # {}
  BY DEF Claim, TypeOK
<1>2. \E c \in cands : \A d \in cands : c <= d
  BY <1>1, ConstantsAssumption, Oldest
<1>3. s \in Sessions
  BY <1>1, <1>2
<1>4. e \in BatchEntry
  BY <1>3, RecordFields DEF Entry, BatchEntry, TypeOK
<1>5. cands' = cands \ {s}
  BY DEF Claim
<1>6. CASE DependenciesMet(s) /\ Claimable(l, s)
  <2>1. /\ rec' = [rec EXCEPT ![s].batch = e]
        /\ copy' = [copy EXCEPT ![s] = rec'[s]]
        /\ plan' = [plan EXCEPT ![s] = [stage |-> "open", outcome |-> "none"]]
    BY <1>6 DEF Claim
  <2>2. e = Entry(l, rec[s].wait)
    OBVIOUS
  <2> HIDE DEF s, e
  <2>3. Claimed(l, s, e)
    BY <1>3, <1>6, <2>1, <2>2 DEF Claimed, TypeOK
  <2>4. QED
    BY <1>3, <1>4, <1>5, <2>3
<1>7. CASE ~(DependenciesMet(s) /\ Claimable(l, s))
  <2>1. UNCHANGED <<rec, copy, plan>>
    BY <1>7 DEF Claim
  <2> HIDE DEF s, e
  <2>2. QED
    BY <1>3, <1>4, <1>5, <2>1
<1>8. QED
  BY <1>6, <1>7

LEMMA TypeLead == ASSUME TypeOK, NEW l \in Sessions, LeadStep(l) PROVE TypeOK'
<1> USE DEF TypeOK, Goto, PCs, batchVars, memory, Waiting, Inside, Batching
<1>1. CASE StartBatch(l) \/ ReadCandidates(l) \/ SkipBatch(l)
  BY <1>1 DEF StartBatch, ReadCandidates, SkipBatch
<1>2. CASE Claim(l)
  <2>1. PICK s \in Sessions, e \in BatchEntry :
          /\ cands' = cands \ {s}
          /\ Claimed(l, s, e) \/ UNCHANGED <<rec, copy, plan>>
    BY <1>2, ClaimOne
  <2>2. [rec[s] EXCEPT !.batch = e] \in Record
    BY RecordFields
  <2>3. rec' \in [Sessions -> Record] /\ copy' \in [Sessions -> Record]
    BY <2>1, <2>2 DEF Claimed
  <2>4. [stage |-> "open", outcome |-> "none"] \in Plan
    BY DEF Plan
  <2>5. plan' \in [Sessions -> Plan]
    BY <2>1, <2>4 DEF Claimed
  <2>6. QED
    BY <1>2, <2>1, <2>3, <2>5 DEF Claim
<1>3. CASE EndClaims(l)
  <2> DEFINE e == Entry(l, run[l])
  <2>1. CASE Members(l) = {}
    BY <1>3, <2>1 DEF EndClaims
  <2>2. CASE Members(l) # {}
    <3>1. e \in BatchEntry
      BY DEF Entry, BatchEntry
    <3>2. mem[l] \in Record
      OBVIOUS
    <3>3. [mem[l] EXCEPT !.batch = e] \in Record
      BY <3>1, <3>2, RecordFields
    <3>4. mem' = [mem EXCEPT ![l].batch = e] /\ rec' = [rec EXCEPT ![l] = mem'[l]]
          /\ plan' = [plan EXCEPT ![l] = [stage |-> "open", outcome |-> "none"]]
      BY <1>3, <2>2 DEF EndClaims
    <3>5. mem' \in [Sessions -> Record] /\ rec' \in [Sessions -> Record]
      BY <3>3, <3>4
    <3>6. plan' \in [Sessions -> Plan]
      BY <3>4 DEF Plan
    <3>7. QED
      BY <1>3, <2>2, <3>5, <3>6 DEF EndClaims
  <2>3. QED
    BY <2>1, <2>2
<1>4. CASE EndBatch(l)
  BY <1>4, ForgetType DEF EndBatch
<1>5. CASE Promote(l) \/ Block(l) 
  <2>1. ASSUME NEW bad, Decide(l, bad)
        PROVE mem' \in [Sessions -> Record] /\ copy' \in [Sessions -> Record]
    <3> DEFINE result(s) == [Held(l, s) EXCEPT
                  !.status = IF s \in bad THEN "failed" ELSE "succeeded"]
    <3>1. ASSUME NEW s \in Sessions PROVE result(s) \in Record
      BY HeldType, RecordFields
    <3>2. mem' = IF l \in group THEN [mem EXCEPT ![l] = result(l)] ELSE mem
      BY <2>1 DEF Decide
    <3>3. copy' = [s \in Sessions |->
                     IF s \in group \ {l} THEN result(s) ELSE copy[s]]
      BY <2>1 DEF Decide
    <3> HIDE DEF result
    <3>4. QED
      BY <3>1, <3>2, <3>3
  <2>2. mem' \in [Sessions -> Record] /\ copy' \in [Sessions -> Record]
    BY <1>5, <2>1 DEF Promote, Block
  <2>3. plan' \in [Sessions -> Plan]
    BY <1>5 DEF Promote, Block, Plan, Outcomes
  <2>4. QED
    BY <1>5, <2>2, <2>3 DEF Promote, Block
<1>6. CASE StopEarly(l)
  <2>1. \A s \in Sessions : [mem[s] EXCEPT !.status = "failed"] \in Record
                            /\ [copy[s] EXCEPT !.status = "failed"] \in Record
    BY RecordFields
  <2>2. mem' \in [Sessions -> Record] /\ copy' \in [Sessions -> Record]
    BY <1>6, <2>1 DEF StopEarly
  <2>3. plan' \in [Sessions -> Plan]
    BY <1>6 DEF StopEarly, Plan, Outcomes
  <2>4. QED
    BY <1>6, <2>2, <2>3 DEF StopEarly
<1>7. ASSUME NEW g \in SUBSET At({"open"}), Stage(l, g) PROVE TypeOK'
  <2>1. g \subseteq Sessions
    BY DEF At
  <2>2. plan' \in [Sessions -> Plan]
    BY <1>7 DEF Stage, Plan, Outcomes
  <2>3. QED
    BY <1>7, <2>1, <2>2 DEF Stage
<1>8. ASSUME NEW s \in Sessions,
             SaveMember(l, s) \/ RecordStaged(l, s) \/ FailAlone(l, s)
               \/ Exclude(l, s) \/ RecordResult(l, s) \/ Settle(l, s)
      PROVE TypeOK'
  <2>1. Held(l, s) \in Record
    BY HeldType
  <2>2. ASSUME NEW r \in Record, Hold(l, s, r)
        PROVE mem' \in [Sessions -> Record] /\ copy' \in [Sessions -> Record]
    BY <2>2, HeldType
  <2>3. CASE SaveMember(l, s)
    BY <2>1, <2>3 DEF SaveMember
  <2>4. CASE RecordStaged(l, s)
    <3> DEFINE r == [Held(l, s) EXCEPT !.started = TRUE]
    <3>1. r \in Record
      BY <2>1, RecordFields
    <3>2. Hold(l, s, r) /\ rec' = [rec EXCEPT ![s] = r]
      BY <2>4 DEF RecordStaged
    <3>3. plan' \in [Sessions -> Plan]
      BY <2>4 DEF RecordStaged, Plan
    <3> HIDE DEF r
    <3>4. QED
      BY <2>2, <2>4, <3>1, <3>2, <3>3 DEF RecordStaged
  <2>5. CASE FailAlone(l, s)
    <3> DEFINE r == [Held(l, s) EXCEPT !.status = "failed"]
    <3>1. r \in Record
      BY <2>1, RecordFields
    <3>2. Hold(l, s, r)
      BY <2>5 DEF FailAlone
    <3>3. plan' \in [Sessions -> Plan]
      BY <2>5 DEF FailAlone, Plan, Outcomes
    <3> HIDE DEF r
    <3>4. QED
      BY <2>2, <2>5, <3>1, <3>2, <3>3 DEF FailAlone
  <2>6. CASE Exclude(l, s)
    BY <2>6 DEF Exclude, Plan, Outcomes
  <2>7. CASE RecordResult(l, s)
    <3> DEFINE n == IF s # l /\ Held(l, s).status = "failed" THEN 0
                    ELSE Held(l, s).wait
               r == [Held(l, s) EXCEPT !.wait = n]
    <3>1. r \in Record
      <4>1. n \in Nat
        BY <2>1, RecordFields
      <4> HIDE DEF n
      <4>2. QED
        BY <2>1, <4>1, RecordFields
    <3>2. Hold(l, s, r) /\ rec' = [rec EXCEPT ![s] = r]
      BY <2>7 DEF RecordResult
    <3>3. plan' \in [Sessions -> Plan]
      BY <2>7 DEF RecordResult, Plan
    <3> HIDE DEF r
    <3>4. QED
      BY <2>2, <2>7, <3>1, <3>2, <3>3 DEF RecordResult
  <2>8. CASE Settle(l, s)
    <3> DEFINE o == plan[s].outcome
               n == IF s # l /\ o \in {"batched", "isolated"} THEN 0
                    ELSE Held(l, s).wait
               r == [Held(l, s) EXCEPT !.batch.outcome = o, !.wait = n]
    <3>1. r \in Record
      <4>1. n \in Nat /\ o \in Outcomes \cup {"none", "open"}
        BY <2>1, RecordFields DEF Plan
      <4> HIDE DEF n, o
      <4>2. [Held(l, s) EXCEPT !.batch.outcome = o] \in Record
        BY <2>1, <4>1, RecordFields
      <4>3. r = [[Held(l, s) EXCEPT !.batch.outcome = o] EXCEPT !.wait = n]
        OBVIOUS
      <4>4. QED
        BY <4>1, <4>2, <4>3, RecordFields
    <3>2. Hold(l, s, r) /\ rec' = [rec EXCEPT ![s] = r]
      BY <2>8 DEF Settle
    <3>3. plan' \in [Sessions -> Plan]
      BY <2>8, FreshIsRecord DEF Settle
    <3> HIDE DEF r
    <3>4. QED
      BY <2>2, <2>8, <3>1, <3>2, <3>3 DEF Settle
  <2>9. QED
    BY <1>8, <2>3, <2>4, <2>5, <2>6, <2>7, <2>8
<1>9. QED
  BY <1>1, <1>2, <1>3, <1>4, <1>5, <1>6, <1>7, <1>8 DEF LeadStep

LEMMA TypeCrash ==
  ASSUME TypeOK, (\E s \in Sessions : Crash(s)) \/ RemoveStaleLock
  PROVE  TypeOK'
<1>1. ASSUME NEW s \in Sessions, Crash(s) PROVE TypeOK'
  <2>1. mem' \in [Sessions -> Record] /\ since' \in [Sessions -> Nat]
    BY <1>1, VanishType DEF Crash
  <2>2. /\ cands' \in SUBSET Sessions /\ group' \in SUBSET Sessions
        /\ copy' \in [Sessions -> Record] /\ plan' \in [Sessions -> Plan]
    BY <1>1, ForgetType DEF Crash, batchVars, TypeOK
  <2>3. pc' \in [Sessions -> PCs] /\ crashed' \in Nat
    BY <1>1 DEF Crash, TypeOK, PCs
  <2>4. QED
    BY <1>1, <2>1, <2>2, <2>3 DEF Crash, TypeOK
<1>2. CASE RemoveStaleLock
  BY <1>2 DEF RemoveStaleLock, memory, TypeOK, Free
<1>3. QED
  BY <1>1, <1>2

LEMMA TypeInit == Init => TypeOK
BY FreshIsRecord DEF Init, TypeOK, PCs, Free

LEMMA TypeNext == TypeOK /\ [Next]_vars => TypeOK'
<1> SUFFICES ASSUME TypeOK, [Next]_vars PROVE TypeOK'
  OBVIOUS
<1>1. CASE UNCHANGED vars
  BY <1>1 DEF vars, TypeOK
<1>2. CASE Next
  BY <1>2, TypeBegin, TypeWait, TypeLead, TypeEnd, TypeCrash DEF Next
<1>3. QED
  BY <1>1, <1>2

(* Every variable keeps its type: every record on disk and in memory is a  *)
(* well-formed session record at every step of every command.              *)
THEOREM TypeCorrect == Spec => []TypeOK
BY TypeInit, TypeNext, PTL DEF Spec

------------------------------------------------------------------------------
(* One integrator.  The lock names the run as well as the session, so that *)
(* the lock of an earlier, dead run is not taken for the current one.      *)
Owned ==
  \A s \in Sessions : pc[s] \in Inside => lock = [by |-> s, run |-> run[s]]

LEMMA OwnedNext == TypeOK /\ Owned /\ [Next]_vars => Owned'
<1> SUFFICES ASSUME TypeOK, Owned, [Next]_vars PROVE Owned'
  OBVIOUS
<1> USE DEF Goto, Inside, Batching
<1> DEFINE Kept(s) ==
      /\ pc' = [pc EXCEPT ![s] = pc'[s]]
      /\ pc'[s] \in Inside => pc[s] \in Inside
      /\ run' = run /\ lock' = lock
<1>1. ASSUME NEW s \in Sessions, Kept(s) PROVE Owned'
  BY <1>1 DEF Owned, TypeOK
<1>2. ASSUME NEW s \in Sessions, Begin(s) PROVE Owned'
  BY <1>2 DEF Begin, Owned, TypeOK
<1>3. ASSUME NEW s \in Sessions, Lock(s) PROVE Owned'
  <2>1. \A t \in Sessions : pc[t] \notin Inside
    BY <1>3, ConstantsAssumption DEF Lock, Owned, Free
  <2>2. QED
    BY <1>3, <2>1 DEF Lock, Owned, TypeOK
<1>4. ASSUME NEW s \in Sessions, WaitStep(s), ~Lock(s) PROVE Owned'
  <2>1. Kept(s)
    BY <1>4 DEF WaitStep, Advertise, DependencyBlocks, Watch, FindStaleLock,
      PollAgain, Expire, ExpireBetweenChecks, LeaveWait, Report, LeadOrReport, AtPoll,
      AtDeadline, TypeOK, memory, batchVars
  <2>2. QED
    BY <1>1, <2>1
<1>5. ASSUME NEW s \in Sessions, LeadStep(s) PROVE Owned'
  <2>1. Kept(s)
    BY <1>5 DEF LeadStep, StartBatch, ReadCandidates, Claim, EndClaims,
      SkipBatch, Promote, Block, StopEarly, EndBatch, Stage, SaveMember,
      RecordStaged, FailAlone, Exclude, RecordResult, Settle, Recording,
      TypeOK
  <2>2. QED
    BY <1>1, <2>1
<1>6. ASSUME NEW s \in Sessions, EndStep(s), ~Unlock(s) PROVE Owned'
  <2>1. Kept(s)
    BY <1>6 DEF EndStep, LandAlone, RecordAlone, FailOwn, SaveFailure, SaveLate,
      TypeOK
  <2>2. QED
    BY <1>1, <2>1
<1>7. ASSUME NEW s \in Sessions, Unlock(s) PROVE Owned'
  BY <1>7 DEF Unlock, Report, Released, Owned, Holds, TypeOK
<1>8. ASSUME NEW s \in Sessions, Crash(s) PROVE Owned'
  <2>1. Kept(s)
    BY <1>8 DEF Crash, TypeOK
  <2>2. QED
    BY <1>1, <2>1
<1>9. CASE RemoveStaleLock
  BY <1>9 DEF RemoveStaleLock, StaleLock, Alive, Owned
<1>10. CASE UNCHANGED vars
  BY <1>10 DEF vars, Owned
<1>11. QED
  BY <1>2, <1>3, <1>4, <1>5, <1>6, <1>7, <1>8, <1>9, <1>10 DEF Next, EndStep

(* At most one command integrates in a repository, whatever stops.         *)
THEOREM IntegratorIsOne == Spec => []OneIntegrator
<1>1. Init => Owned
  BY DEF Init, Owned, Inside, Batching
<1>2. Owned => OneIntegrator
  BY DEF Owned, OneIntegrator, Holds, Inside, Batching
<1>3. QED
  BY <1>1, <1>2, TypeInit, TypeNext, OwnedNext, PTL DEF Spec

------------------------------------------------------------------------------
(* Succeeded sessions have landed.  What a command holds in memory may be  *)
(* saved later, so it has to be true of every copy of a record.            *)
Recorded ==
  \A s \in Sessions :
    "succeeded" \in {rec[s].status, mem[s].status, copy[s].status} => s \in landed

(* A session lands after its dependencies: checked when a command gets the *)
(* lock and when a member is claimed, and true as long as it is used.      *)
Past == {"leading", "alone", "directLanded", "aloneLanded"} \cup Batching

Ordered ==
  \A s \in Sessions :
    s \in landed \/ s \in group \/ plan[s].stage # "none" \/ pc[s] \in Past
      => DependsOn[s] \subseteq landed

LEMMA RecordedLead ==
  ASSUME TypeOK, Recorded, NEW l \in Sessions, LeadStep(l)
  PROVE  Recorded'
<1>1. CASE StartBatch(l) \/ ReadCandidates(l) \/ SkipBatch(l)
           \/ \E g \in SUBSET At({"open"}) : Stage(l, g)
  BY <1>1 DEF StartBatch, ReadCandidates, SkipBatch, Stage, memory, batchVars, TypeOK, Recorded
<1>2. CASE Claim(l)
  <2>1. PICK s \in Sessions, e \in BatchEntry :
          Claimed(l, s, e) \/ UNCHANGED <<rec, copy, plan>>
    BY <1>2, ClaimOne
  <2>2. [rec[s] EXCEPT !.batch = e].status = rec[s].status
    BY DEF Record
  <2>3. QED
    BY <1>2, <2>1, <2>2 DEF Claim, Claimed, TypeOK, Recorded
<1>3. CASE EndClaims(l)
  <2>2. CASE Members(l) = {}
    BY <1>3, <2>2 DEF EndClaims, TypeOK, Recorded
  <2>3. CASE Members(l) # {}
    <3>1. mem' = [mem EXCEPT ![l].batch = Entry(l, run[l])] /\ rec' = [rec EXCEPT ![l] = mem'[l]]
          /\ copy' = copy /\ landed' = landed
      BY <1>3, <2>3 DEF EndClaims
    <3>2. mem'[l].status = mem[l].status /\ rec'[l].status = mem[l].status
      BY <3>1 DEF TypeOK, Record
    <3>3. \A x \in Sessions \ {l} : mem'[x] = mem[x] /\ rec'[x] = rec[x]
      BY <3>1
    <3>4. QED
      BY <3>1, <3>2, <3>3 DEF Recorded
  <2>4. QED
    BY <2>2, <2>3
<1>4. CASE EndBatch(l)
  BY <1>4 DEF EndBatch, Forget, FreshRecord, TypeOK, Recorded
<1>5. ASSUME NEW bad, bad \subseteq group, Decide(l, bad), rec' = rec,
             landed \subseteq landed', group \ bad \subseteq landed'
      PROVE  Recorded'
  <2>1. \A s \in group : Held(l, s) \in Record
    BY HeldType DEF TypeOK
  <2>2. \A s \in group \ bad : s \in landed'
    BY <1>5
  <2>3. \A s \in group : s \in bad =>
          [Held(l, s) EXCEPT !.status = "failed"].status = "failed"
    BY <2>1 DEF Record
  <2>4. QED
    BY <1>5, <2>2, <2>3 DEF Decide, TypeOK, Recorded
<1>6. CASE StopEarly(l)
  BY <1>6 DEF StopEarly, Record, TypeOK, Recorded
<1>7. ASSUME NEW s \in Sessions,
             SaveMember(l, s) \/ RecordStaged(l, s) \/ FailAlone(l, s)
               \/ Exclude(l, s) \/ RecordResult(l, s) \/ Settle(l, s)
      PROVE  Recorded'
  <2>1. Held(l, s) \in Record
    BY HeldType
  <2>2. landed' = landed
    BY <1>7 DEF SaveMember, RecordStaged, FailAlone, Exclude, RecordResult, Settle
  <2>3. CASE SaveMember(l, s)
    BY <2>2, <2>3 DEF SaveMember, memory, TypeOK, Recorded, Held
  <2>4. CASE Exclude(l, s)
    BY <2>4 DEF Exclude, Recorded
  <2>5. CASE RecordStaged(l, s)
    <3> DEFINE r == [Held(l, s) EXCEPT !.started = TRUE]
    <3>1. Hold(l, s, r) /\ rec' = [rec EXCEPT ![s] = r]
      BY <2>5 DEF RecordStaged
    <3>2. r.status = Held(l, s).status
      BY <2>1 DEF Record
    <3> HIDE DEF r
    <3>3. QED
      BY <2>2, <3>1, <3>2 DEF TypeOK, Recorded, Hold, Held
  <2>6. CASE FailAlone(l, s)
    <3> DEFINE r == [Held(l, s) EXCEPT !.status = "failed"]
    <3>1. Hold(l, s, r) /\ rec' = rec
      BY <2>6 DEF FailAlone
    <3>2. r.status = "failed"
      BY <2>1 DEF Record
    <3> HIDE DEF r
    <3>3. QED
      BY <2>2, <3>1, <3>2 DEF TypeOK, Recorded, Hold, Held
  <2>7. CASE RecordResult(l, s)
    <3> DEFINE r == [Held(l, s) EXCEPT !.wait =
                       IF s # l /\ Held(l, s).status = "failed" THEN 0 ELSE @]
    <3>1. Hold(l, s, r) /\ rec' = [rec EXCEPT ![s] = r]
      BY <2>7 DEF RecordResult
    <3>2. r.status = Held(l, s).status
      BY <2>1 DEF Record
    <3> HIDE DEF r
    <3>3. QED
      BY <2>2, <3>1, <3>2 DEF TypeOK, Recorded, Hold, Held
  <2>8. CASE Settle(l, s)
    <3> DEFINE o == plan[s].outcome
               r == [Held(l, s) EXCEPT !.batch.outcome = o,
                       !.wait = IF s # l /\ o \in {"batched", "isolated"}
                                THEN 0 ELSE @]
    <3>1. Hold(l, s, r) /\ rec' = [rec EXCEPT ![s] = r]
      BY <2>8 DEF Settle
    <3>2. r.status = Held(l, s).status
      BY <2>1 DEF Record
    <3> HIDE DEF r
    <3>3. QED
      BY <2>2, <3>1, <3>2 DEF TypeOK, Recorded, Hold, Held
  <2>9. QED
    BY <1>7, <2>3, <2>4, <2>5, <2>6, <2>7, <2>8
<1>8. QED
  BY <1>1, <1>2, <1>3, <1>4, <1>5, <1>6, <1>7 DEF LeadStep, Promote, Block

LEMMA RecordedNext == TypeOK /\ Recorded /\ [Next]_vars => Recorded'
<1> SUFFICES ASSUME TypeOK, Recorded, [Next]_vars PROVE Recorded'
  OBVIOUS
<1> USE DEF TypeOK, Recorded, memory, batchVars, Vanish, Forget, FreshRecord
<1>1. ASSUME NEW s \in Sessions, Begin(s) PROVE Recorded'
  BY <1>1 DEF Begin
<1>2. ASSUME NEW s \in Sessions, WaitStep(s) PROVE Recorded'
  <2>1. CASE DependencyBlocks(s) \/ Lock(s) \/ Watch(s) \/ FindStaleLock(s)
             \/ PollAgain(s) \/ ExpireBetweenChecks(s) \/ LeaveWait(s)
    BY <2>1 DEF DependencyBlocks, Lock, Watch, FindStaleLock, PollAgain,
      ExpireBetweenChecks, LeaveWait, Report, Reread
  <2>2. CASE Advertise(s)
    BY <2>2 DEF Advertise, Record
  <2>3. CASE Expire(s)
    <3>1. [rec[s] EXCEPT !.wait = 0].status = rec[s].status
      BY DEF Record
    <3>2. /\ rec'[s].status = rec[s].status /\ UNCHANGED <<mem, copy, landed>>
          /\ \A t \in Sessions \ {s} : rec'[t] = rec[t]
      BY <2>3, <3>1 DEF Expire
    <3>3. QED
      BY <3>2
  <2>4. CASE LeadOrReport(s)
    <3> DEFINE r == [ReleaseStale(rec[s], s) EXCEPT !.wait = 0]
    <3>1. r.status = rec[s].status
      <4>1. /\ ReleaseStale(rec[s], s) \in Record
            /\ ReleaseStale(rec[s], s).status = rec[s].status
        BY ReleaseFields
      <4>2. QED
        BY <4>1 DEF Record
    <3>2. mem'[s].status = rec[s].status /\ rec'[s].status = rec[s].status
      <4>1. CASE Resolved(rec[s], s)
        BY <2>4, <4>1 DEF LeadOrReport, Reread
      <4>2. CASE ~Resolved(rec[s], s)
        <5>1. mem' = [mem EXCEPT ![s] = r] /\ rec' = [rec EXCEPT ![s] = mem'[s]]
          BY <2>4, <4>2 DEF LeadOrReport, Reread
        <5> HIDE DEF r
        <5>2. QED
          BY <3>1, <5>1
      <4>3. QED
        BY <4>1, <4>2
    <3>3. \A t \in Sessions \ {s} : mem'[t] = mem[t] /\ rec'[t] = rec[t]
      BY <2>4 DEF LeadOrReport, Reread
    <3>4. QED
      BY <2>4, <3>2, <3>3 DEF LeadOrReport, Reread
  <2>5. QED
    BY <1>2, <2>1, <2>2, <2>3, <2>4 DEF WaitStep
<1>3. ASSUME NEW s \in Sessions, EndStep(s) PROVE Recorded'
  <2>1. CASE LandAlone(s)
    BY <2>1 DEF LandAlone
  <2>2. CASE RecordAlone(s)
    <3>1. /\ [mem[s] EXCEPT !.status = "failed"].status = "failed"
          /\ [mem[s] EXCEPT !.status = "ready", !.replay = TRUE].status = "ready"
      BY DEF Record
    <3>2. /\ mem'[s].status \in {mem[s].status, "ready", "failed"}
          /\ rec'[s].status \in {rec[s].status, mem[s].status}
          /\ \A t \in Sessions \ {s} : mem'[t] = mem[t] /\ rec'[t] = rec[t]
          /\ UNCHANGED <<copy, landed>>
      BY <2>2, <3>1 DEF RecordAlone
    <3>3. QED
      BY <3>2
  <2>3. CASE FailOwn(s)
    <3>1. \A t \in {"ready", "failed"} :
            [mem[s] EXCEPT !.started = TRUE, !.status = t].status = t
      BY DEF Record
    <3>2. mem'[s].status \in {mem[s].status, "ready", "failed"}
      BY <2>3, <3>1 DEF FailOwn, Record
    <3>3. \A t \in Sessions \ {s} : mem'[t] = mem[t]
      BY <2>3 DEF FailOwn
    <3>4. QED
      BY <2>3, <3>2, <3>3 DEF FailOwn
  <2>4. CASE SaveFailure(s)
    BY <2>4 DEF SaveFailure, Record
  <2>5. CASE Unlock(s)
    BY <2>5 DEF Unlock, Report
  <2>6. CASE SaveLate(s)
    BY <2>6 DEF SaveLate
  <2>7. QED
    BY <1>3, <2>1, <2>2, <2>3, <2>4, <2>5, <2>6 DEF EndStep
<1>4. ASSUME NEW s \in Sessions, Crash(s) PROVE Recorded'
  BY <1>4 DEF Crash
<1>5. CASE RemoveStaleLock \/ UNCHANGED vars
  BY <1>5 DEF RemoveStaleLock, vars
<1>6. QED
  BY <1>1, <1>2, <1>3, <1>4, <1>5, RecordedLead DEF Next

(* A record says succeeded only when the commit is in the target: also     *)
(* when copies of it are saved late or by another session's command.       *)
THEOREM SucceededHasLanded == Spec => []SucceededLanded
<1>1. Init => Recorded
  BY DEF Init, Recorded, FreshRecord
<1>2. Recorded => SucceededLanded
  BY DEF Recorded, SucceededLanded
<1>3. QED
  BY <1>1, <1>2, TypeInit, TypeNext, RecordedNext, PTL DEF Spec

LEMMA OrderedNext == TypeOK /\ Recorded /\ Ordered /\ [Next]_vars => Ordered'
<1> SUFFICES ASSUME TypeOK, Recorded, Ordered, [Next]_vars PROVE Ordered'
  OBVIOUS
<1> USE DEF TypeOK, Ordered, Past, Batching, Goto, memory, batchVars, NoPlan
<1>1. \A s \in Sessions : DependenciesMet(s) => DependsOn[s] \subseteq landed
  BY ConstantsAssumption DEF DependenciesMet, Recorded
<1>2. ASSUME NEW s \in Sessions, Begin(s) PROVE Ordered'
  BY <1>2 DEF Begin
<1>3. ASSUME NEW s \in Sessions, WaitStep(s) PROVE Ordered'
  BY <1>1, <1>3 DEF WaitStep, Advertise, DependencyBlocks, Lock, Watch,
    FindStaleLock, PollAgain, Expire, ExpireBetweenChecks, LeaveWait, Report,
    LeadOrReport, AtPoll, AtDeadline
<1>4. ASSUME NEW l \in Sessions, LeadStep(l) PROVE Ordered'
  <2>1. CASE Claim(l)
    <3>1. PICK s \in Sessions, e \in BatchEntry :
            Claimed(l, s, e) \/ UNCHANGED <<rec, copy, plan>>
      BY <2>1, ClaimOne
    <3>2. QED
      BY <1>1, <2>1, <3>1 DEF Claim, Claimed
  <2>2. CASE StartBatch(l) \/ ReadCandidates(l) \/ SkipBatch(l)
    BY <2>2 DEF StartBatch, ReadCandidates, SkipBatch
  <2>3. CASE EndClaims(l)
    BY <2>3 DEF EndClaims
  <2>4. CASE EndBatch(l)
    BY <2>4 DEF EndBatch, Recording, Forget
  <2>5. CASE Promote(l)
    BY <2>5 DEF Promote
  <2>6. CASE Block(l) \/ StopEarly(l)
    BY <2>6 DEF Block, StopEarly, At
  <2>7. ASSUME NEW g \in SUBSET At({"open"}), Stage(l, g) PROVE Ordered'
    BY <2>7 DEF Stage, At
  <2>8. ASSUME NEW s \in Sessions,
               SaveMember(l, s) \/ RecordStaged(l, s) \/ FailAlone(l, s)
                 \/ Exclude(l, s) \/ RecordResult(l, s) \/ Settle(l, s)
        PROVE  Ordered'
    BY <2>8 DEF SaveMember, RecordStaged, FailAlone, Exclude, RecordResult,
      Settle, Plan
  <2>9. QED
    BY <1>4, <2>1, <2>2, <2>3, <2>4, <2>5, <2>6, <2>7, <2>8 DEF LeadStep
<1>5. ASSUME NEW s \in Sessions, EndStep(s) PROVE Ordered'
  BY <1>5 DEF EndStep, LandAlone, RecordAlone, FailOwn, SaveFailure, Unlock, Report,
    SaveLate
<1>6. ASSUME NEW s \in Sessions, Crash(s) PROVE Ordered'
  BY <1>6 DEF Crash, Forget
<1>7. CASE RemoveStaleLock \/ UNCHANGED vars
  BY <1>7 DEF RemoveStaleLock, vars
<1>8. QED
  BY <1>2, <1>3, <1>4, <1>5, <1>6, <1>7 DEF Next

(* A session lands only after every session it depends on, whether its own *)
(* command integrates it or a leader does.                                 *)
THEOREM DependenciesLandFirst == Spec => []DependenciesFirst
<1>1. Init => Ordered /\ Recorded
  BY DEF Init, Ordered, Recorded, Past, Batching, NoPlan, FreshRecord
<1>2. TypeOK /\ Ordered => DependenciesFirst
  BY DEF Ordered, DependenciesFirst, TypeOK
<1>3. QED
  BY <1>1, <1>2, TypeInit, TypeNext, RecordedNext, OrderedNext, PTL DEF Spec

------------------------------------------------------------------------------
(* Results.  A command stops waiting when it reads a result, and the result   *)
(* is still there when it reads its record again: a session whose record has  *)
(* one is in nobody's batch any more, so that no leader saves a copy of it    *)
(* over the result, and no copy its own command holds is older than that.     *)
Done == {"batched", "isolated"}
Settling == {"claiming", "processing", "stopping"}

PlanHasLeader ==
  /\ \A s \in Sessions : plan[s].stage # "none" => \E l \in Sessions : pc[l] \in Settling
  /\ \A l \in Sessions : pc[l] = "claiming" => plan[l].stage = "none" /\ group = {}
  /\ \A s \in group : plan[s].stage \in {"staging", "staged"}
ClaimsOpen ==
  \A l, s \in Sessions :
    pc[l] \in Batching /\ plan[s].stage # "none" => Held(l, s).batch.outcome = "open"
ResultsFinal ==
  \A s \in Sessions :
    /\ rec[s].batch.outcome \in Done => plan[s].stage = "none"
    /\ mem[s].batch.outcome \in Done => rec[s].batch.outcome \in Done
Results == PlanHasLeader /\ ClaimsOpen /\ ResultsFinal /\ StoppedIsResolved

(* The lock lets one command be past the wait.                                *)
LEMMA OneInside ==
  ASSUME Owned, NEW l \in Sessions, NEW s \in Sessions, pc[l] \in Inside, pc[s] \in Inside
  PROVE  l = s
<1>1. lock.by = l /\ lock.by = s
  BY DEF Owned
<1>2. QED
  BY <1>1

(* A command outside a batch touches its own record and copy only, and does   *)
(* no harm if it neither invents a result nor forgets one.                    *)
Outside(s) ==
  /\ pc[s] \notin Batching /\ pc' = [pc EXCEPT ![s] = pc'[s]] /\ pc'[s] \notin Batching
  /\ plan' = plan /\ copy' = copy /\ group' = group
  /\ \A x \in Sessions \ {s} : rec'[x] = rec[x] /\ mem'[x] = mem[x] /\ since'[x] = since[x]

LEMMA OutsideKeeps ==
  ASSUME TypeOK, Results, NEW s \in Sessions, Outside(s),
         rec'[s].batch.outcome \in Done => rec[s].batch.outcome \in Done,
         mem'[s].batch.outcome \in Done => rec'[s].batch.outcome \in Done,
         pc'[s] = "stopped" => Resolved(rec[s], s)'
  PROVE  Results'
<1> USE DEF Results, TypeOK
<1>1. \A x \in Sessions \ {s} : pc'[x] = pc[x]
  BY DEF Outside
<1>2. PlanHasLeader'
  BY <1>1 DEF PlanHasLeader, Outside, Batching, Settling
<1>3. ClaimsOpen'
  <2>1. ASSUME NEW l \in Sessions, NEW x \in Sessions, pc'[l] \in Batching, plan'[x].stage # "none"
        PROVE  l # s /\ pc[l] \in Batching /\ plan[x].stage # "none" /\ Held(l, x)' = Held(l, x)
    BY <1>1, <2>1 DEF Outside, Held
  <2>2. QED
    BY <2>1 DEF ClaimsOpen
<1>4. ResultsFinal'
  BY DEF ResultsFinal, Outside
<1>5. StoppedIsResolved'
  BY <1>1 DEF StoppedIsResolved, Outside, Resolved, Joined
<1>6. QED
  BY <1>2, <1>3, <1>4, <1>5

LEMMA ReleaseOutcome ==
  ASSUME NEW r \in Record, NEW s \in Sessions
  PROVE  [ReleaseStale(r, s) EXCEPT !.wait = 0].batch.outcome \in {"released", r.batch.outcome}
<1>1. ReleaseStale(r, s) \in Record
  BY ReleaseFields
<1>2. [r EXCEPT !.batch.outcome = "released"].batch.outcome = "released"
  BY DEF Record, BatchEntry
<1>3. ReleaseStale(r, s).batch.outcome \in {"released", r.batch.outcome}
  BY <1>2 DEF ReleaseStale
<1>4. [ReleaseStale(r, s) EXCEPT !.wait = 0].batch = ReleaseStale(r, s).batch
  BY <1>1 DEF Record
<1>5. QED
  BY <1>3, <1>4

LEMMA ResultsWait ==
  ASSUME TypeOK, Results, NEW s \in Sessions, WaitStep(s) \/ Begin(s) PROVE Results'
<1> USE DEF TypeOK, Goto, memory, batchVars, Waiting, Batching, Outside
<1>0. /\ mem[s].batch.outcome \in Done => rec[s].batch.outcome \in Done
      /\ mem[s] \in Record /\ rec[s] \in Record
      /\ FreshRecord.batch.outcome \notin Done
  BY DEF Results, ResultsFinal, FreshRecord, NoBatch, Done
<1>1. CASE Begin(s)
  BY <1>0, <1>1, OutsideKeeps DEF Begin
<1>2. CASE Advertise(s)
  <2>1. [mem[s] EXCEPT !.wait = run[s]].batch = mem[s].batch
    BY <1>0 DEF Record
  <2>2. QED
    BY <1>0, <1>2, <2>1, OutsideKeeps DEF Advertise
<1>3. CASE DependencyBlocks(s) \/ Lock(s) \/ FindStaleLock(s) \/ PollAgain(s) \/ ExpireBetweenChecks(s)
  <2>1. Outside(s) /\ rec' = rec /\ mem' = mem /\ pc'[s] # "stopped"
    BY <1>3 DEF DependencyBlocks, Lock, FindStaleLock, PollAgain, ExpireBetweenChecks
  <2>2. QED
    BY <1>0, <2>1, OutsideKeeps
<1>4. CASE Watch(s)
  <2>1. Outside(s) /\ rec' = rec /\ mem' = mem /\ since' = since
    BY <1>4 DEF Watch, AtPoll
  <2>2. pc'[s] = "stopped" => Resolved(rec[s], s)'
    BY <1>4, <2>1 DEF Watch, AtPoll, Resolved, Joined
  <2>3. QED
    BY <1>0, <2>1, <2>2, OutsideKeeps
<1>5. CASE Expire(s)
  <2>1. Outside(s) /\ mem' = mem /\ since' = since
    BY <1>5 DEF Expire, AtDeadline
  <2>2. rec'[s].batch = rec[s].batch
    BY <1>0, <1>5 DEF Expire, Record
  <2>3. pc'[s] = "stopped" => Resolved(rec[s], s)'
    BY <1>5, <2>1, <2>2 DEF Expire, AtDeadline, Resolved, Joined
  <2>4. QED
    BY <1>0, <2>1, <2>2, <2>3, OutsideKeeps
<1>6. CASE LeaveWait(s)
  <2>1. Outside(s) /\ rec' = rec /\ pc'[s] # "stopped" /\ mem'[s] \in {rec[s], FreshRecord}
    BY <1>6 DEF LeaveWait, Report, Reread, Vanish
  <2>2. QED
    BY <1>0, <2>1, OutsideKeeps
<1>7. CASE LeadOrReport(s)
  <2> DEFINE r == [ReleaseStale(rec[s], s) EXCEPT !.wait = 0]
  <2>1. r.batch.outcome \in {"released", rec[s].batch.outcome}
    BY <1>0, ReleaseOutcome
  <2> HIDE DEF r
  <2>2. \/ mem' = [mem EXCEPT ![s] = rec[s]] /\ rec' = rec
        \/ mem' = [mem EXCEPT ![s] = r] /\ rec' = [rec EXCEPT ![s] = r]
    BY <1>7 DEF LeadOrReport, Reread, r
  <2>3. pc' = [pc EXCEPT ![s] = pc'[s]] /\ pc'[s] \in {"finishing", "leading", "failing"}
        /\ pc[s] = "locked" /\ since' = since /\ UNCHANGED batchVars
    BY <1>7 DEF LeadOrReport
  <2>4. Outside(s)
    BY <2>2, <2>3
  <2>5. QED
    BY <1>0, <2>1, <2>2, <2>3, <2>4, OutsideKeeps DEF Done
<1>8. QED
  BY <1>1, <1>2, <1>3, <1>4, <1>5, <1>6, <1>7 DEF WaitStep

LEMMA ResultsEnd ==
  ASSUME TypeOK, Results, NEW s \in Sessions, EndStep(s) \/ (Crash(s) /\ pc[s] \notin Batching)
  PROVE  Results'
<1> USE DEF TypeOK, Goto, memory, batchVars, Batching, Outside
<1>0. /\ mem[s].batch.outcome \in Done => rec[s].batch.outcome \in Done
      /\ mem[s] \in Record /\ rec[s] \in Record
      /\ FreshRecord.batch.outcome \notin Done
  BY DEF Results, ResultsFinal, FreshRecord, NoBatch, Done
<1>1. Outside(s) /\ pc'[s] # "stopped"
  BY DEF EndStep, Crash, LandAlone, RecordAlone, FailOwn, SaveFailure, Unlock, Report, Vanish, SaveLate
<1>2. ASSUME rec'[s].batch.outcome \in {rec[s].batch.outcome, mem[s].batch.outcome},
             mem'[s].batch.outcome \in {mem[s].batch.outcome, "none"},
             mem'[s].batch.outcome = "none" \/ rec'[s].batch.outcome = mem'[s].batch.outcome
               \/ rec'[s] = rec[s]
      PROVE  Results'
  <2>1. "none" \notin Done
    BY DEF Done
  <2>2. QED
    BY <1>0, <1>1, <1>2, <2>1, OutsideKeeps
<1>3. CASE LandAlone(s)
  <2>1. mem'[s].batch = mem[s].batch /\ rec' = rec
    BY <1>0, <1>3 DEF LandAlone, Record
  <2>2. QED
    BY <1>2, <2>1
<1>4. CASE RecordAlone(s)
  <2>1. mem'[s].batch = mem[s].batch /\ (rec' = rec \/ rec'[s] = mem'[s])
    BY <1>0, <1>4 DEF RecordAlone, Record
  <2>2. QED
    BY <1>2, <2>1
<1>5. CASE FailOwn(s)
  <2>1. \A t \in {"ready", "failed"} :
          [mem[s] EXCEPT !.started = TRUE, !.status = t].batch = mem[s].batch
    BY <1>0 DEF Record
  <2>2. mem'[s].batch = mem[s].batch /\ rec' = rec
    BY <1>0, <1>5, <2>1 DEF FailOwn, Record
  <2>3. QED
    BY <1>2, <2>2
<1>6. CASE SaveFailure(s)
  <2>1. mem'[s].batch = mem[s].batch /\ rec'[s] = mem'[s]
    BY <1>0, <1>6 DEF SaveFailure, Record
  <2>2. QED
    BY <1>2, <2>1
<1>7. CASE Unlock(s)
  <2>1. mem'[s] \in {mem[s], FreshRecord} /\ rec' = rec
    BY <1>7 DEF Unlock, Report, Vanish
  <2>2. QED
    BY <1>2, <2>1 DEF FreshRecord, NoBatch
<1>8. CASE SaveLate(s)
  <2>1. mem'[s] \in {mem[s], FreshRecord} /\ rec'[s] = mem[s]
    BY <1>8 DEF SaveLate, Vanish
  <2>2. QED
    BY <1>2, <2>1 DEF FreshRecord, NoBatch
<1>9. CASE Crash(s)
  <2>1. mem'[s] = FreshRecord /\ rec' = rec
    BY <1>9 DEF Crash, Vanish
  <2>2. QED
    BY <1>2, <2>1 DEF FreshRecord, NoBatch
<1>10. QED
  BY <1>3, <1>4, <1>5, <1>6, <1>7, <1>8, <1>9 DEF EndStep

(* A leader in its batch.  It is alone in there; what it saves for a claimed  *)
(* session says that the claim is open until it settles it, and then the      *)
(* session is out of the batch.                                               *)
LEMMA ResultsLead ==
  ASSUME TypeOK, Owned, Results, NEW l \in Sessions, LeadStep(l) PROVE Results'
<1> USE DEF TypeOK, Results, Goto, batchVars, memory
<1>0. /\ pc[l] \in {"leading"} \cup Batching
      /\ \A x \in Sessions \ {l} : pc[x] \notin Inside /\ pc'[x] = pc[x] /\ since'[x] = since[x]
      /\ pc'[l] \in Inside \cup {"failing"}
  <2>1. pc[l] \in {"leading"} \cup Batching
    BY DEF LeadStep, StartBatch, ReadCandidates, Claim, EndClaims, SkipBatch, Promote, Block, StopEarly,
           EndBatch, Stage, SaveMember, RecordStaged, FailAlone, Exclude, RecordResult, Settle, Recording,
           Batching
  <2>2. \A x \in Sessions \ {l} : pc'[x] = pc[x] /\ since'[x] = since[x]
    BY DEF LeadStep, StartBatch, ReadCandidates, Claim, EndClaims, SkipBatch, Promote, Block, StopEarly,
           EndBatch, Stage, SaveMember, RecordStaged, FailAlone, Exclude, RecordResult, Settle
  <2>3. pc'[l] \in Inside \cup {"failing"}
    BY <2>1 DEF LeadStep, StartBatch, ReadCandidates, Claim, EndClaims, SkipBatch, Promote, Block,
           StopEarly, EndBatch, Stage, SaveMember, RecordStaged, FailAlone, Exclude, RecordResult, Settle,
           Batching, Inside
  <2>4. QED
    BY <2>1, <2>2, <2>3, OneInside DEF Inside
<1>1. ASSUME NEW x \in Sessions, plan[x].stage # "none" PROVE pc[l] \in Settling
  BY <1>0, <1>1 DEF PlanHasLeader, Settling, Inside, Batching
<1>2. pc[l] \in {"leading", "joining"} => \A x \in Sessions : plan[x].stage = "none"
  BY <1>1 DEF Settling
<1>3. ASSUME NEW x \in Sessions, pc'[x] \in Batching PROVE x = l
  BY <1>0, <1>3 DEF Inside
<1>4. \A x \in Sessions : pc'[x] = "stopped" => pc[x] = "stopped" /\ x # l
  BY <1>0 DEF Inside, Batching
<1>5. ASSUME rec' = rec, since' = since PROVE StoppedIsResolved'
  BY <1>4, <1>5 DEF StoppedIsResolved, Resolved, Joined
<1>6. ASSUME NEW s \in Sessions, plan[s].stage # "none", since' = since,
             \A x \in Sessions \ {s} : rec'[x] = rec[x]
      PROVE  StoppedIsResolved'
  <2>1. pc[s] # "stopped"
    BY <1>6 DEF StoppedIsResolved, ResultsFinal, Resolved, Done
  <2>2. QED
    BY <1>4, <1>6, <2>1 DEF StoppedIsResolved, Resolved, Joined
<1>7. \A x \in Sessions : pc[l] \in Batching /\ plan[x].stage # "none" =>
        /\ Held(l, x).batch.outcome = "open" /\ Held(l, x) \in Record
        /\ rec[x].batch.outcome \notin Done /\ mem[x].batch.outcome \notin Done
  BY HeldType DEF ClaimsOpen, ResultsFinal
<1>8. CASE StartBatch(l) \/ ReadCandidates(l) \/ SkipBatch(l)
  <2>1. /\ rec' = rec /\ mem' = mem /\ copy' = copy /\ plan' = plan /\ group' = group /\ since' = since
        /\ pc[l] \in {"leading", "joining"}
    BY <1>8 DEF StartBatch, ReadCandidates, SkipBatch
  <2>2. \A x \in Sessions : plan'[x].stage = "none"
    BY <1>2, <2>1
  <2>3. group' = {}
    BY <1>2, <2>1 DEF PlanHasLeader
  <2>4. PlanHasLeader' /\ ClaimsOpen' /\ ResultsFinal'
    BY <2>1, <2>2, <2>3 DEF PlanHasLeader, ClaimsOpen, ResultsFinal
  <2>5. QED
    BY <1>5, <2>1, <2>4
<1>9. CASE Claim(l)
  <2>1. PICK s \in Sessions, e \in BatchEntry : Claimed(l, s, e) \/ UNCHANGED <<rec, copy, plan>>
    BY <1>9, ClaimOne
  <2>2. mem' = mem /\ pc' = pc /\ group' = group /\ since' = since /\ pc[l] = "claiming"
    BY <1>9 DEF Claim
  <2>3. CASE UNCHANGED <<rec, copy, plan>>
    BY <1>5, <2>2, <2>3 DEF PlanHasLeader, ClaimsOpen, ResultsFinal, Held
  <2>4. CASE Claimed(l, s, e)
    <3>1. /\ s # l /\ e.outcome = "open" /\ rec[s].batch.outcome \in {"none", "released"}
      BY <2>4 DEF Claimed, Claimable, Entry, NoBatch
    <3>2. [rec[s] EXCEPT !.batch = e].batch = e
      BY DEF Record
    <3>3. /\ rec'[s].batch.outcome = "open" /\ copy'[s].batch.outcome = "open" /\ plan'[s].stage = "open"
          /\ \A x \in Sessions \ {s} : rec'[x] = rec[x] /\ copy'[x] = copy[x] /\ plan'[x] = plan[x]
      BY <2>4, <3>1, <3>2 DEF Claimed
    <3>4. PlanHasLeader'
      <4>1. \A x \in Sessions : pc[x] = "claiming" => x = l
        BY <1>3, <2>2 DEF Batching
      <4>2. QED
        BY <2>2, <3>1, <3>3, <4>1 DEF PlanHasLeader, Settling
    <3>5. ClaimsOpen'
      BY <1>3, <1>7, <2>2, <3>1, <3>3 DEF ClaimsOpen, Held, Batching
    <3>6. ResultsFinal'
      BY <2>2, <3>1, <3>3 DEF ResultsFinal, Done
    <3>7. StoppedIsResolved'
      BY <2>2, <3>1, <3>3 DEF StoppedIsResolved, Resolved, Joined
    <3>8. QED
      BY <3>4, <3>5, <3>6, <3>7
  <2>5. QED
    BY <2>1, <2>3, <2>4
<1>10. ASSUME pc'[l] \in {"processing", "stopping"},
              \A s \in group' : plan'[s].stage \in {"staging", "staged"}
       PROVE  PlanHasLeader'
  BY <1>3, <1>10 DEF PlanHasLeader, Settling, Batching
<1>11. ASSUME \A x \in Sessions : plan'[x].stage # "none" => Held(l, x)'.batch.outcome = "open"
       PROVE  ClaimsOpen'
  BY <1>3, <1>11 DEF ClaimsOpen
<1>12. ASSUME pc[l] \in Batching, since' = since, NEW s \in Sessions, plan[s].stage # "none",
              \A x \in Sessions : /\ mem'[x].batch = mem[x].batch /\ copy'[x].batch = copy[x].batch
                                  /\ plan'[x].stage # "none" <=> plan[x].stage # "none",
              \A x \in Sessions \ {s} : rec'[x] = rec[x],
              rec'[s].batch \in {rec[s].batch, Held(l, s).batch}
       PROVE  ClaimsOpen' /\ ResultsFinal' /\ StoppedIsResolved'
  <2>1. ClaimsOpen'
    BY <1>7, <1>11, <1>12 DEF Held
  <2>2. ResultsFinal'
    BY <1>7, <1>12 DEF ResultsFinal, Done
  <2>3. QED
    BY <1>6, <1>12, <2>1, <2>2
<1>13. CASE EndClaims(l)
  <2>1. pc[l] = "claiming" /\ group' = group /\ group = {} /\ since' = since /\ plan[l].stage = "none"
    BY <1>13 DEF EndClaims, PlanHasLeader
  <2>2. CASE Members(l) = {}
    <3>1. \A x \in Sessions : plan[x].stage = "none"
      BY <2>1, <2>2 DEF Members
    <3>2. rec' = rec /\ mem' = mem /\ plan' = plan /\ copy' = copy /\ pc'[l] = "alone"
      BY <1>13, <2>2 DEF EndClaims
    <3>3. PlanHasLeader' /\ ClaimsOpen' /\ ResultsFinal'
      BY <1>3, <2>1, <3>1, <3>2 DEF PlanHasLeader, ClaimsOpen, ResultsFinal, Batching
    <3>4. QED
      BY <1>5, <2>1, <3>2, <3>3
  <2>3. CASE Members(l) # {}
    <3> DEFINE r == [mem[l] EXCEPT !.batch = Entry(l, run[l])]
    <3>1. r.batch.outcome = "open"
      BY DEF Record, Entry
    <3> HIDE DEF r
    <3>2. /\ mem' = [mem EXCEPT ![l] = r] /\ rec' = [rec EXCEPT ![l] = r] /\ copy' = copy
          /\ plan' = [plan EXCEPT ![l] = [stage |-> "open", outcome |-> "none"]]
          /\ pc'[l] = "processing"
      BY <1>13, <2>3 DEF EndClaims, r
    <3>3. PlanHasLeader'
      BY <1>10, <2>1, <3>2
    <3>4. ClaimsOpen'
      BY <1>7, <1>11, <2>1, <3>1, <3>2 DEF Held, Batching
    <3>5. ResultsFinal'
      BY <3>1, <3>2 DEF ResultsFinal, Done
    <3>6. StoppedIsResolved'
      BY <1>4, <2>1, <3>2 DEF StoppedIsResolved, Resolved, Joined
    <3>7. QED
      BY <3>3, <3>4, <3>5, <3>6
  <2>4. QED
    BY <2>2, <2>3
<1>14. ASSUME \E bad \in SUBSET group : Decide(l, bad)
       PROVE  \A x \in Sessions : mem'[x].batch = mem[x].batch /\ copy'[x].batch = copy[x].batch
  <2>1. PICK bad \in SUBSET group : Decide(l, bad)
    BY <1>14
  <2>2. \A x \in Sessions, t \in {"failed", "succeeded"} :
          [Held(l, x) EXCEPT !.status = t].batch = Held(l, x).batch
    BY HeldType DEF Record
  <2>3. QED
    BY <2>1, <2>2 DEF Decide, Held
<1>15. CASE Promote(l) \/ Block(l)
  <2>1. /\ group # {} /\ group' = {} /\ rec' = rec /\ since' = since /\ pc[l] = "processing"
        /\ pc'[l] \in {"processing", "stopping"}
    BY <1>15 DEF Promote, Block
  <2>2. \A x \in Sessions : plan'[x].stage # "none" <=> plan[x].stage # "none"
    <3>1. CASE Promote(l)
      BY <3>1 DEF PlanHasLeader, Promote, Plan
    <3>2. CASE Block(l)
      BY <3>2 DEF PlanHasLeader, Block, Plan
    <3>3. QED
      BY <1>15, <3>1, <3>2
  <2>3. \E bad \in SUBSET group : Decide(l, bad)
    BY <1>15 DEF Promote, Block
  <2>4. PICK s \in group : TRUE
    BY <2>1
  <2>5. s \in Sessions /\ plan[s].stage # "none"
    BY <2>4 DEF PlanHasLeader
  <2>6. QED
    BY <1>10, <1>12, <1>14, <2>1, <2>2, <2>3, <2>5 DEF Batching
<1>16. CASE StopEarly(l)
  <2>1. /\ group' = {} /\ rec' = rec /\ since' = since /\ pc[l] = "processing" /\ pc'[l] = "stopping"
        /\ At({"open", "staging"}) # {}
    BY <1>16 DEF StopEarly
  <2>2. \A x \in Sessions : plan'[x].stage # "none" <=> plan[x].stage # "none"
    BY <1>16 DEF StopEarly, Plan, At
  <2>3. \A x \in Sessions : [mem[x] EXCEPT !.status = "failed"].batch = mem[x].batch
                         /\ [copy[x] EXCEPT !.status = "failed"].batch = copy[x].batch
    BY DEF Record
  <2>4. \A x \in Sessions : mem'[x].batch = mem[x].batch /\ copy'[x].batch = copy[x].batch
    BY <1>16, <2>3 DEF StopEarly
  <2>5. PICK s \in Sessions : plan[s].stage # "none"
    BY <2>1 DEF At
  <2>6. QED
    BY <1>10, <1>12, <2>1, <2>2, <2>4, <2>5 DEF Batching
<1>17. CASE \E g \in SUBSET At({"open"}) : Stage(l, g)
  <2>1. PICK g \in SUBSET At({"open"}) : Stage(l, g)
    BY <1>17
  <2>2. /\ group' = g /\ rec' = rec /\ mem' = mem /\ copy' = copy /\ since' = since
        /\ pc[l] = "processing" /\ pc' = pc
        /\ g # {}
    BY <2>1 DEF Stage
  <2>3. \A x \in Sessions : /\ plan'[x].stage # "none" <=> plan[x].stage # "none"
                            /\ x \in g => plan'[x].stage = "staging"
    BY <2>1 DEF Stage, At
  <2>4. PICK s \in Sessions : plan[s].stage # "none"
    BY <2>1, <2>2 DEF At
  <2>5. \A x \in group' : plan'[x].stage \in {"staging", "staged"}
    BY <2>1, <2>2, <2>3 DEF At
  <2>6. QED
    BY <1>10, <1>12, <2>2, <2>3, <2>4, <2>5 DEF Batching
<1>18. ASSUME NEW s \in Sessions, SaveMember(l, s) \/ RecordStaged(l, s) \/ RecordResult(l, s)
       PROVE  Results'
  <2>1. /\ pc[l] \in {"processing", "stopping"} /\ pc' = pc /\ since' = since /\ group' = group
        /\ plan[s].stage # "none"
    BY <1>18 DEF SaveMember, RecordStaged, RecordResult, Recording
  <2>2. \A x \in Sessions : plan'[x].stage # "none" <=> plan[x].stage # "none"
    BY <1>18 DEF SaveMember, RecordStaged, RecordResult, Plan
  <2>3. \A x \in group' : plan'[x].stage \in {"staging", "staged"}
    BY <1>18, <2>1 DEF PlanHasLeader, SaveMember, RecordStaged, RecordResult, Plan
  <2> DEFINE h == Held(l, s)
  <2>h. h \in Record
    BY HeldType
  <2>4. \E r \in Record : /\ r.batch = h.batch /\ rec' = [rec EXCEPT ![s] = r]
                          /\ Hold(l, s, r) \/ UNCHANGED <<mem, copy>>
    <3>1. CASE SaveMember(l, s)
      BY <3>1, HeldType DEF SaveMember
    <3>2. CASE RecordStaged(l, s)
      <4> DEFINE r == [h EXCEPT !.started = TRUE]
      <4>1. r \in Record /\ r.batch = h.batch
        <5> HIDE DEF h
        <5>1. QED
          BY <2>h DEF Record
      <4>2. rec' = [rec EXCEPT ![s] = r] /\ Hold(l, s, r)
        BY <3>2 DEF RecordStaged
      <4> HIDE DEF r
      <4>3. QED
        BY <4>1, <4>2
    <3>3. CASE RecordResult(l, s)
      <4> DEFINE r == [h EXCEPT !.wait =
                         IF s # l /\ h.status = "failed" THEN 0 ELSE @]
      <4>1. r \in Record /\ r.batch = h.batch
        <5> HIDE DEF h
        <5>1. QED
          BY <2>h DEF Record
      <4>2. rec' = [rec EXCEPT ![s] = r] /\ Hold(l, s, r)
        BY <3>3 DEF RecordResult
      <4> HIDE DEF r
      <4>3. QED
        BY <4>1, <4>2
    <3>4. QED
      BY <1>18, <3>1, <3>2, <3>3
  <2>5. /\ \A x \in Sessions : mem'[x].batch = mem[x].batch /\ copy'[x].batch = copy[x].batch
        /\ \A x \in Sessions \ {s} : rec'[x] = rec[x]
        /\ rec'[s].batch = Held(l, s).batch
    BY <2>4 DEF Hold, Held
  <2>6. QED
    BY <1>10, <1>12, <2>1, <2>2, <2>3, <2>5 DEF Batching
<1>19. ASSUME NEW s \in Sessions, FailAlone(l, s) \/ Exclude(l, s) PROVE Results'
  <2>1. /\ pc[l] = "processing" /\ pc' = pc /\ since' = since /\ group' = group /\ group = {}
        /\ plan[s].stage = "open" /\ rec' = rec
    BY <1>19 DEF FailAlone, Exclude
  <2>2. \A x \in Sessions : plan'[x].stage # "none" <=> plan[x].stage # "none"
    BY <1>19, <2>1 DEF FailAlone, Exclude
  <2>3. [Held(l, s) EXCEPT !.status = "failed"].batch = Held(l, s).batch
    BY HeldType DEF Record
  <2>4. \A x \in Sessions : mem'[x].batch = mem[x].batch /\ copy'[x].batch = copy[x].batch
    BY <1>19, <2>3 DEF FailAlone, Exclude, Hold, Held
  <2>5. QED
    BY <1>10, <1>12, <2>1, <2>2, <2>4 DEF Batching
<1>20. ASSUME NEW s \in Sessions, Settle(l, s) PROVE Results'
  <2> DEFINE r == [Held(l, s) EXCEPT
                     !.batch.outcome = plan[s].outcome,
                     !.wait = IF s # l /\ plan[s].outcome \in {"batched", "isolated"} THEN 0 ELSE @]
  <2>1. Hold(l, s, r) /\ rec' = [rec EXCEPT ![s] = r]
    BY <1>20 DEF Settle
  <2> HIDE DEF r
  <2>2. /\ pc[l] \in {"processing", "stopping"} /\ pc' = pc /\ since' = since /\ group' = group
        /\ plan[s].stage = "recorded" /\ plan' = [plan EXCEPT ![s] = NoPlan]
    BY <1>20 DEF Settle, Recording
  <2>3. PlanHasLeader'
    <3>1. s \notin group
      BY <2>2 DEF PlanHasLeader
    <3>2. \A x \in group' : plan'[x].stage \in {"staging", "staged"}
      BY <2>2, <3>1 DEF PlanHasLeader
    <3>3. QED
      BY <1>10, <2>2, <3>2
  <2>4. plan'[s].stage = "none" /\ \A x \in Sessions \ {s} : plan'[x] = plan[x] /\ rec'[x] = rec[x]
    BY <2>1, <2>2 DEF NoPlan
  <2>5. ClaimsOpen'
    BY <1>7, <1>11, <2>1, <2>2, <2>4 DEF Hold, Held, Batching
  <2>6. ResultsFinal'
    <3>1. \A x \in Sessions \ {s} : mem'[x] = mem[x]
      BY <2>1 DEF Hold
    <3>2. mem'[s] \in {mem[s], rec'[s]}
      BY <2>1 DEF Hold
    <3>3. mem[s].batch.outcome \notin Done
      BY <1>7, <2>2 DEF Batching
    <3>4. QED
      BY <2>4, <3>1, <3>2, <3>3 DEF ResultsFinal
  <2>7. StoppedIsResolved'
    BY <1>6, <2>2, <2>4
  <2>8. QED
    BY <2>3, <2>5, <2>6, <2>7
<1>21. CASE EndBatch(l)
  <2>1. /\ rec' = rec /\ mem' = mem /\ since' = since /\ group' = {}
        /\ plan' = [x \in Sessions |-> NoPlan] /\ pc'[l] \notin Batching
    BY <1>21 DEF EndBatch, Forget, Batching
  <2>2. \A x \in Sessions : plan'[x].stage = "none"
    BY <2>1 DEF NoPlan
  <2>3. PlanHasLeader' /\ ClaimsOpen' /\ ResultsFinal'
    BY <1>3, <2>1, <2>2 DEF PlanHasLeader, ClaimsOpen, ResultsFinal, Batching
  <2>4. QED
    BY <1>5, <2>1, <2>3
<1>22. QED
  BY <1>8, <1>9, <1>13, <1>15, <1>16, <1>17, <1>18, <1>19, <1>20, <1>21 DEF LeadStep

LEMMA ResultsCrash ==
  ASSUME TypeOK, Owned, Results, NEW s \in Sessions, Crash(s), pc[s] \in Batching
  PROVE  Results'
<1> USE DEF TypeOK, Results
<1>1. /\ rec' = rec /\ mem' = [mem EXCEPT ![s] = FreshRecord] /\ pc' = [pc EXCEPT ![s] = "none"]
      /\ since' = [since EXCEPT ![s] = 0] /\ group' = {} /\ plan' = [x \in Sessions |-> NoPlan]
  BY DEF Crash, Forget, Vanish
<1>2. \A x \in Sessions : plan'[x].stage = "none" /\ pc'[x] \notin Batching
  BY <1>1, OneInside DEF NoPlan, Inside, Batching
<1>3. PlanHasLeader' /\ ClaimsOpen' /\ ResultsFinal'
  BY <1>1, <1>2 DEF PlanHasLeader, ClaimsOpen, ResultsFinal, Batching, FreshRecord, NoBatch, Done
<1>4. StoppedIsResolved'
  BY <1>1 DEF StoppedIsResolved, Resolved, Joined
<1>5. QED
  BY <1>3, <1>4

LEMMA ResultsInit == Init => Results
BY DEF Init, Results, PlanHasLeader, ClaimsOpen, ResultsFinal, StoppedIsResolved, NoPlan, FreshRecord,
       NoBatch, Done

LEMMA ResultsNext == TypeOK /\ Owned /\ Results /\ [Next]_vars => Results'
<1> SUFFICES ASSUME TypeOK, Owned, Results, [Next]_vars PROVE Results'
  OBVIOUS
<1>1. CASE UNCHANGED vars \/ RemoveStaleLock
  BY <1>1 DEF vars, RemoveStaleLock, memory, Results, PlanHasLeader, ClaimsOpen, ResultsFinal, Held,
              StoppedIsResolved, Resolved, Joined
<1>2. ASSUME NEW s \in Sessions, Begin(s) \/ WaitStep(s) \/ LeadStep(s) \/ EndStep(s) \/ Crash(s)
      PROVE  Results'
  BY <1>2, ResultsWait, ResultsLead, ResultsEnd, ResultsCrash
<1>3. QED
  BY <1>1, <1>2 DEF Next

(* A command that stopped waiting because its leader resolved it finds that   *)
(* result when it reads its record again, whoever crashes and however the     *)
(* batch ends: integrateCommand never leaves the wait with neither the lock   *)
(* nor a result to report.                                                    *)
THEOREM StoppedFindsResult == Spec => []StoppedIsResolved
<1>1. Init => TypeOK /\ Owned /\ Results
  BY TypeInit, ResultsInit DEF Init, Owned, Inside, Batching
<1>2. QED
  BY <1>1, TypeNext, OwnedNext, ResultsNext, PTL DEF Spec, Results

------------------------------------------------------------------------------
(* Claims, in a repository where no process dies and none of the races        *)
(* occurs.  The run with crashes and each race alone break the properties     *)
(* below, so that the assumption says exactly what the code does not handle.  *)
(* Only a leader in its batch makes an open claim, the claimed session waits  *)
(* until the leader settles it, and the leader settles all before it leaves.  *)
Undisturbed == Crashes = 0 /\ Races = {}

Final == Done \cup {"excluded"}
Before == Waiting \cup {"none", "starting", "locked"}

(* A record that some command may still read: it waits for no later run than  *)
(* the session has had, and its membership has a result or is open.           *)
Genuine(r, n) ==
  /\ r.wait <= n /\ r.batch.outcome # "released"
  /\ r.batch.leader # None => r.batch.outcome # "none"

(* What leader l has of the session s it claimed.                             *)
Claimant(l, s) ==
  /\ pc[s] \in Waiting
  /\ rec[s].batch = Entry(l, run[s]) /\ copy[s].batch = Entry(l, run[s])
  /\ since[s] <= batches

(* What holds of every session: an open claim is in a plan and its session    *)
(* waits; a command that is over with waiting has withdrawn its integration-  *)
(* Wait or has a result, so that nobody claims it any more.                   *)
Tidy(s) ==
  /\ OpenClaim(s) => plan[s].stage # "none" /\ pc[s] \in Waiting
  /\ mem[s].batch.outcome = "open" => mem[s].batch.leader = s
  /\ Genuine(rec[s], run[s]) /\ Genuine(mem[s], run[s]) /\ Genuine(copy[s], run[s])
  /\ plan[s].stage \notin {"none", "open"} => plan[s].outcome \in Final
  /\ since[s] <= batches + 1
  /\ pc[s] # "none" => run[s] > 0
  /\ pc[s] \in {"starting"} \cup Past => mem[s].wait # run[s]
  /\ pc[s] = "starting" => rec[s].wait # run[s]
  /\ pc[s] \notin Before /\ rec[s].wait = run[s] => rec[s].batch.outcome \in Final
  /\ pc[s] \notin Before \cup {"stopped", "timedOut"} /\ mem[s].wait = run[s] =>
       mem[s].batch.outcome \in Final

MembersClaimed ==
  \A l, s \in Sessions :
    pc[l] \in Batching /\ plan[s].stage # "none" /\ s # l => Claimant(l, s)
OwnerAlive ==
  lock.by # None => lock.run = run[lock.by] /\ pc[lock.by] \in Inside \cup {"failing", "unlocking"}
SinceBeforeClaims ==
  (\E l \in Sessions : pc[l] \in {"joining", "claiming"}) => \A s \in Sessions : since[s] <= batches
Claims == (\A s \in Sessions : Tidy(s)) /\ MembersClaimed /\ OwnerAlive /\ SinceBeforeClaims

(* A planned session that is not in a batch itself waits for a leader that    *)
(* has the lock and will find it joined.                                      *)
LEMMA PlannedWaits ==
  ASSUME TypeOK, Owned, Results, Claims, NEW s \in Sessions, plan[s].stage # "none",
         pc[s] \notin Batching
  PROVE  \E l \in Sessions : /\ Claimant(l, s) /\ l # s
                             /\ lock = [by |-> l, run |-> run[l]]
                             /\ rec[s].batch.outcome = "open" /\ Joined(rec[s], s)
<1>1. PICK l \in Sessions : pc[l] \in Settling
  BY DEF Results, PlanHasLeader
<1>2. pc[l] \in Batching /\ l # s
  BY <1>1 DEF Settling, Batching
<1>3. Claimant(l, s)
  BY <1>2 DEF Claims, MembersClaimed
<1>4. lock = [by |-> l, run |-> run[l]]
  BY <1>2 DEF Owned, Inside
<1>5. rec[s].batch.outcome = "open" /\ Joined(rec[s], s)
  BY <1>2, <1>3, ConstantsAssumption DEF Claimant, Entry, Joined, TypeOK
<1>6. QED
  BY <1>2, <1>3, <1>4, <1>5

LEMMA NoStaleLock == ASSUME TypeOK, Claims PROVE ~StaleLock
BY DEF Claims, OwnerAlive, StaleLock, Alive, Inside, Batching, TypeOK

(* What a command outside a batch does disturbs nobody else's part; the lemma *)
(* leaves what is to be shown of the command itself.                          *)
Own(s) ==
  /\ pc[s] \notin Batching /\ pc' = [pc EXCEPT ![s] = pc'[s]] /\ pc'[s] \notin Batching
  /\ plan' = plan /\ copy' = copy /\ group' = group /\ batches' = batches
  /\ \A x \in Sessions \ {s} :
       rec'[x] = rec[x] /\ mem'[x] = mem[x] /\ since'[x] = since[x] /\ run'[x] = run[x]

LEMMA OwnKeeps ==
  ASSUME TypeOK, Owned, Results, Claims, NEW s \in Sessions, Own(s),
         Tidy(s)', OwnerAlive',
         since'[s] = since[s] \/ (\A x \in Sessions : pc[x] \notin {"joining", "claiming"})
           \/ since'[s] = 0,
         plan[s].stage = "none" \/ (pc'[s] \in Waiting /\ rec'[s].batch = rec[s].batch
                                    /\ since'[s] = since[s] /\ run'[s] = run[s])
  PROVE  Claims'
<1> USE DEF TypeOK, Claims
<1>1. \A x \in Sessions \ {s} : pc'[x] = pc[x]
  BY DEF Own
<1>2. ASSUME NEW x \in Sessions PROVE Tidy(x)'
  <2>1. CASE x # s
    BY <1>1, <2>1 DEF Own, Tidy, OpenClaim, Genuine
  <2>2. QED
    BY <2>1
<1>3. MembersClaimed'
  <2> SUFFICES ASSUME NEW l \in Sessions, NEW x \in Sessions,
                      pc'[l] \in Batching, plan'[x].stage # "none", x # l
               PROVE  Claimant(l, x)'
    BY DEF MembersClaimed
  <2>1. l # s /\ pc[l] \in Batching /\ plan[x].stage # "none" /\ Claimant(l, x)
    BY <1>1 DEF Own, MembersClaimed
  <2>2. QED
    BY <1>1, <2>1 DEF Own, Claimant, Entry
<1>4. SinceBeforeClaims'
  BY <1>1 DEF Own, SinceBeforeClaims, Batching
<1>5. QED
  BY <1>2, <1>3, <1>4

LEMMA ClaimsBegin ==
  ASSUME Undisturbed, TypeOK, Owned, Results, Claims, NEW s \in Sessions, Begin(s)
  PROVE  Claims'
<1> USE DEF TypeOK, Goto, batchVars
<1>1. Tidy(s)
  BY DEF Claims
<1>2. /\ pc[s] = "none" /\ pc' = [pc EXCEPT ![s] = "starting"] /\ run' = [run EXCEPT ![s] = @ + 1]
      /\ mem' = [mem EXCEPT ![s] = rec[s]] /\ since' = [since EXCEPT ![s] = batches + 1]
      /\ \A l \in Sessions : pc[l] \notin {"joining", "claiming"}
      /\ UNCHANGED <<rec, lock, batches, copy, plan, group>>
  BY DEF Begin, Undisturbed
<1>3. ~OpenClaim(s) /\ plan[s].stage = "none"
  BY <1>1, <1>2, PlannedWaits DEF Tidy, Waiting, Claimant, Batching
<1>4. rec[s].wait \in Nat /\ mem[s].wait \in Nat /\ copy[s].wait \in Nat
  BY RecordFields
<1>5. run'[s] = run[s] + 1 /\ rec[s].wait < run'[s] /\ mem'[s] = rec[s] /\ pc'[s] = "starting"
      /\ copy[s].wait <= run'[s] /\ since'[s] = batches + 1
  BY <1>1, <1>2, <1>4 DEF Tidy, Genuine
<1>6. Tidy(s)'
  BY <1>1, <1>2, <1>3, <1>4, <1>5 DEF Tidy, OpenClaim, Genuine, Before
<1>7. OwnerAlive'
  BY <1>2 DEF Claims, OwnerAlive, Inside, Batching
<1>8. Own(s)
  BY <1>2 DEF Own, Batching
<1>9. QED
  BY <1>2, <1>3, <1>6, <1>7, <1>8, OwnKeeps

LEMMA ClaimsWait ==
  ASSUME Undisturbed, TypeOK, Owned, Results, Claims, NEW s \in Sessions, WaitStep(s)
  PROVE  Claims'
<1> USE DEF TypeOK, Goto, batchVars, memory
<1>1. Tidy(s) /\ OwnerAlive /\ rec[s] \in Record /\ mem[s] \in Record
      /\ rec[s].wait \in Nat /\ mem[s].wait \in Nat /\ run[s] \in Nat
  BY RecordFields DEF Claims
<1>2. ~StaleLock
  BY NoStaleLock
<1>3. pc[s] \notin Batching /\ pc'[s] \notin Batching
  BY DEF WaitStep, Advertise, DependencyBlocks, Lock, Watch, FindStaleLock, PollAgain, Expire,
         ExpireBetweenChecks, LeaveWait, Report, LeadOrReport, AtPoll, AtDeadline, Batching, Waiting
<1>4. plan[s].stage # "none" =>
        pc[s] \in Waiting /\ lock # Free /\ rec[s].batch.outcome = "open" /\ Joined(rec[s], s)
  BY <1>3, PlannedWaits, ConstantsAssumption DEF Claimant, Free
<1>5. CASE Advertise(s)
  <2> DEFINE r == [mem[s] EXCEPT !.wait = run[s]]
  <2>1. r.batch = mem[s].batch /\ r.wait = run[s]
    BY <1>1 DEF Record
  <2> HIDE DEF r
  <2>2. /\ pc[s] = "starting" /\ pc' = [pc EXCEPT ![s] = "polling"]
        /\ mem' = [mem EXCEPT ![s] = r] /\ rec' = [rec EXCEPT ![s] = r]
        /\ UNCHANGED <<run, since, lock, batches, copy, plan, group>>
    BY <1>5 DEF Advertise, r
  <2>3. plan[s].stage = "none"
    BY <1>4, <2>2 DEF Waiting
  <2>4. Tidy(s)'
    BY <1>1, <2>1, <2>2 DEF Tidy, OpenClaim, Genuine, Before, Waiting, Past, Batching
  <2>5. OwnerAlive'
    BY <1>1, <2>2 DEF OwnerAlive, Inside, Batching
  <2>6. Own(s)
    BY <1>3, <2>2 DEF Own
  <2>7. QED
    BY <2>2, <2>3, <2>4, <2>5, <2>6, OwnKeeps
<1>6. CASE DependencyBlocks(s)
  <2>1. pc[s] = "starting" /\ pc' = [pc EXCEPT ![s] = "failing"]
        /\ UNCHANGED <<rec, mem, since, copy, plan, group, run, lock, batches>>
    BY <1>6 DEF DependencyBlocks
  <2>2. plan[s].stage = "none"
    BY <1>4, <2>1 DEF Waiting
  <2>3. Tidy(s)'
    BY <1>1, <2>1 DEF Tidy, OpenClaim, Genuine, Waiting, Past, Batching
  <2>4. OwnerAlive' /\ Own(s)
    BY <1>1, <1>3, <2>1 DEF OwnerAlive, Own
  <2>5. QED
    BY <2>1, <2>2, <2>3, <2>4, OwnKeeps
<1>7. CASE Lock(s)
  <2>1. pc[s] = "polling" /\ pc' = [pc EXCEPT ![s] = "locked"] /\ lock = Free
        /\ lock' = [by |-> s, run |-> run[s]]
        /\ UNCHANGED <<rec, mem, since, copy, plan, group, run, batches>>
    BY <1>7 DEF Lock
  <2>2. plan[s].stage = "none"
    BY <1>4, <2>1
  <2>3. Tidy(s)'
    BY <1>1, <2>1, <2>2 DEF Tidy, OpenClaim, Genuine, Before, Waiting, Past, Batching
  <2>4. OwnerAlive' /\ Own(s)
    BY <1>3, <2>1 DEF OwnerAlive, Own, Inside
  <2>5. QED
    BY <2>1, <2>2, <2>3, <2>4, OwnKeeps
<1>8. CASE Watch(s) \/ FindStaleLock(s) \/ PollAgain(s) \/ ExpireBetweenChecks(s)
  <2>1. pc[s] \in Waiting /\ pc' = [pc EXCEPT ![s] = pc'[s]]
        /\ UNCHANGED <<rec, mem, since, copy, plan, group, run, lock, batches>>
    BY <1>8 DEF Watch, FindStaleLock, PollAgain, ExpireBetweenChecks, Waiting
  <2>2. pc'[s] \in Waiting \/ (pc'[s] = "stopped" /\ Resolved(rec[s], s))
    BY <1>2, <1>8 DEF Watch, FindStaleLock, PollAgain, ExpireBetweenChecks, Waiting, AtPoll, Undisturbed
  <2>3. plan[s].stage # "none" => pc'[s] \in Waiting
    BY <1>4, <2>2 DEF Resolved
  <2>4. Tidy(s)'
    BY <1>1, <2>1, <2>2, <2>3
      DEF Tidy, OpenClaim, Genuine, Before, Waiting, Past, Batching, Resolved, Final, Done
  <2>5. OwnerAlive' /\ Own(s)
    BY <1>1, <1>3, <2>1 DEF OwnerAlive, Own, Inside, Waiting, Batching
  <2>6. QED
    BY <2>1, <2>3, <2>4, <2>5, OwnKeeps
<1>9. CASE Expire(s)
  <2>1. pc[s] = "waitCheck" /\ pc' = [pc EXCEPT ![s] = pc'[s]]
        /\ UNCHANGED <<mem, since, copy, plan, group, run, lock, batches>>
    BY <1>9 DEF Expire
  <2>2. OwnerAlive'
    BY <1>1, <2>1 DEF OwnerAlive, Inside, Waiting, Batching
  <2>3. CASE ~Joined(rec[s], s)
    <3> DEFINE r == [rec[s] EXCEPT !.wait = 0]
    <3>1. r.batch = rec[s].batch /\ r.wait = 0
      BY <1>1 DEF Record
    <3> HIDE DEF r
    <3>2. rec' = [rec EXCEPT ![s] = r] /\ pc'[s] = "timedOut"
      BY <1>9, <2>3 DEF Expire, r
    <3>3. plan[s].stage = "none"
      BY <1>4, <2>3
    <3>4. Tidy(s)'
      BY <1>1, <2>1, <3>1, <3>2, <3>3
        DEF Tidy, OpenClaim, Genuine, Waiting, Past, Batching
    <3>5. Own(s)
      BY <1>3, <2>1, <3>2 DEF Own
    <3>6. QED
      BY <2>1, <2>2, <3>3, <3>4, <3>5, OwnKeeps
  <2>4. CASE Joined(rec[s], s)
    <3>1. rec' = rec /\ pc'[s] = AtDeadline(s)
      BY <1>9, <2>4 DEF Expire
    <3>2. \/ pc'[s] = "polling"
          \/ pc'[s] \in {"stopped", "timedOut"} /\ rec[s].batch.outcome \in Final
      <4>1. rec[s].batch.outcome \in Final \cup {"open"}
        BY <1>1, <2>4, RecordFields DEF Tidy, Genuine, Joined, Final, Done, Outcomes
      <4>2. QED
        BY <3>1, <4>1 DEF AtDeadline, Resolved, Final, Done
    <3>3. plan[s].stage # "none" => pc'[s] \in Waiting
      BY <1>4, <3>2 DEF Waiting, Final, Done
    <3>4. Tidy(s)'
      BY <1>1, <2>1, <3>1, <3>2, <3>3
        DEF Tidy, OpenClaim, Genuine, Before, Waiting, Past, Batching, Final, Done
    <3>5. Own(s)
      BY <1>3, <2>1, <3>1 DEF Own
    <3>6. QED
      BY <2>1, <2>2, <3>1, <3>3, <3>4, <3>5, OwnKeeps
  <2>5. QED
    BY <2>3, <2>4
<1>10. CASE LeaveWait(s)
  <2>1. /\ pc[s] \in {"stopped", "timedOut", "foundStale"} /\ pc' = [pc EXCEPT ![s] = pc'[s]]
        /\ pc'[s] \in {"late", "none", "failing"}
        /\ \/ mem' = [mem EXCEPT ![s] = rec[s]] /\ since' = since
           \/ Vanish(s) /\ pc'[s] = "none"
        /\ UNCHANGED <<rec, copy, plan, group, run, lock, batches>>
    BY <1>10 DEF LeaveWait, Report, Reread
  <2>2. plan[s].stage = "none"
    BY <1>4, <2>1 DEF Waiting
  <2>3. OwnerAlive'
    BY <1>1, <2>1 DEF OwnerAlive, Inside, Waiting, Batching
  <2>4. CASE mem' = [mem EXCEPT ![s] = rec[s]] /\ since' = since
    <3>1. Tidy(s)'
      BY <1>1, <2>1, <2>2, <2>4 DEF Tidy, OpenClaim, Genuine, Before, Waiting, Past, Batching
    <3>2. Own(s)
      BY <1>3, <2>1, <2>4 DEF Own
    <3>3. QED
      BY <2>2, <2>3, <2>4, <3>1, <3>2, OwnKeeps
  <2>5. CASE Vanish(s) /\ pc'[s] = "none"
    <3>1. mem' = [mem EXCEPT ![s] = FreshRecord] /\ since' = [since EXCEPT ![s] = 0]
      BY <2>5 DEF Vanish
    <3>2. Tidy(s)'
      BY <1>1, <2>1, <2>2, <2>5, <3>1
        DEF Tidy, OpenClaim, Genuine, Before, Waiting, Past, Batching, FreshRecord, NoBatch
    <3>3. Own(s)
      BY <1>3, <2>1, <3>1 DEF Own
    <3>4. QED
      BY <2>2, <2>3, <3>1, <3>2, <3>3, OwnKeeps
  <2>6. QED
    BY <2>1, <2>4, <2>5
<1>11. CASE LeadOrReport(s)
  <2>1. pc[s] = "locked" /\ UNCHANGED <<run, since, lock, batches, copy, plan, group>>
    BY <1>11 DEF LeadOrReport
  <2>2. ~OpenClaim(s) /\ plan[s].stage = "none"
    BY <1>1, <1>4, <2>1 DEF Tidy, Waiting
  <2>3. CASE Resolved(rec[s], s)
    <3>1. pc' = [pc EXCEPT ![s] = "finishing"] /\ mem' = [mem EXCEPT ![s] = rec[s]] /\ rec' = rec
      BY <1>11, <2>3 DEF LeadOrReport, Reread
    <3>2. Tidy(s)'
      BY <1>1, <2>1, <2>2, <2>3, <3>1
        DEF Tidy, OpenClaim, Genuine, Before, Past, Batching, Resolved, Final, Done
    <3>3. OwnerAlive' /\ Own(s)
      BY <1>1, <1>3, <2>1, <3>1 DEF OwnerAlive, Own, Inside
    <3>4. QED
      BY <2>1, <2>2, <3>2, <3>3, OwnKeeps
  <2>4. CASE ~Resolved(rec[s], s)
    <3> DEFINE r == [rec[s] EXCEPT !.wait = 0]
    <3>1. r.batch = rec[s].batch /\ r.wait = 0
      BY <1>1 DEF Record
    <3>2. ReleaseStale(rec[s], s) = rec[s]
      BY <2>2 DEF ReleaseStale, OpenClaim
    <3>3. mem' = [mem EXCEPT ![s] = r] /\ rec' = [rec EXCEPT ![s] = r]
          /\ pc' = [pc EXCEPT ![s] = pc'[s]] /\ pc'[s] \in {"leading", "failing"}
      BY <1>11, <2>4, <3>2 DEF LeadOrReport, Reread
    <3> HIDE DEF r
    <3>4. Tidy(s)'
      BY <1>1, <2>1, <2>2, <3>1, <3>3
        DEF Tidy, OpenClaim, Genuine, Before, Past, Batching
    <3>5. OwnerAlive' /\ Own(s)
      BY <1>1, <1>3, <2>1, <3>3 DEF OwnerAlive, Own, Inside
    <3>6. QED
      BY <2>1, <2>2, <3>4, <3>5, OwnKeeps
  <2>5. QED
    BY <2>3, <2>4
<1>12. QED
  BY <1>5, <1>6, <1>7, <1>8, <1>9, <1>10, <1>11 DEF WaitStep

LEMMA ClaimsEnd ==
  ASSUME Undisturbed, TypeOK, Owned, Results, Claims, NEW s \in Sessions, EndStep(s)
  PROVE  Claims'
<1> USE DEF TypeOK, Goto, batchVars, memory
<1>1. Tidy(s) /\ OwnerAlive /\ rec[s] \in Record /\ mem[s] \in Record
      /\ rec[s].wait \in Nat /\ mem[s].wait \in Nat /\ run[s] \in Nat
  BY RecordFields DEF Claims
<1>2. /\ pc[s] \in {"leading", "alone", "directLanded", "aloneLanded", "failing", "unlocking", "finishing", "unlocked", "late"}
      /\ pc' = [pc EXCEPT ![s] = pc'[s]]
      /\ pc'[s] \in {"directLanded", "aloneLanded", "failing", "finishing", "unlocking", "unlocked", "late", "none"}
      /\ UNCHANGED <<run, batches, copy, plan, group>>
  BY DEF EndStep, LandAlone, RecordAlone, FailOwn, SaveFailure, Unlock, Report, SaveLate
<1>3. plan[s].stage = "none" /\ ~OpenClaim(s)
  BY <1>1, <1>2, PlannedWaits DEF Claimant, Waiting, Batching, Tidy
(* Saving the copy, or not, and changing no membership.                       *)
<1>4. ASSUME NEW r \in Record, r.batch = mem[s].batch, r.wait \in {mem[s].wait, 0},
             rec' = rec \/ rec' = [rec EXCEPT ![s] = r],
             \/ mem' = [mem EXCEPT ![s] = r] /\ since' = since
             \/ Vanish(s) /\ pc'[s] = "none",
             pc'[s] \in {"directLanded", "aloneLanded"} => pc[s] \in Past,
             OwnerAlive'
      PROVE  Claims'
  <2>2. r.wait \in Nat
    BY <1>4, RecordFields
  <2>3. Own(s)
    BY <1>2, <1>4 DEF Own, Vanish, Batching
  <2>4. Tidy(s)'
    <3>1. rec'[s] \in {rec[s], r} /\ since'[s] \in {since[s], 0} /\ copy'[s] = copy[s] /\ plan'[s] = plan[s]
      BY <1>2, <1>4 DEF Vanish
    <3>2. mem'[s] = r \/ (mem'[s] = FreshRecord /\ pc'[s] = "none")
      BY <1>4 DEF Vanish
    <3>3. /\ Genuine(r, run[s])
          /\ r.wait = run[s] => r.batch.outcome \in Final
          /\ r.batch.outcome = "open" => r.batch.leader = s
      BY <1>1, <1>2, <1>4, <2>2
        DEF Tidy, Genuine, Before, Waiting
    <3>4. rec[s].wait = run[s] => rec[s].batch.outcome \in Final
      BY <1>1, <1>2 DEF Tidy, Before, Waiting
    <3>5. pc'[s] \in {"directLanded", "aloneLanded"} => r.wait # run[s]
      BY <1>1, <1>2, <1>4 DEF Tidy, Past, Batching
    <3>6. Genuine(FreshRecord, run[s]) /\ FreshRecord.batch.outcome = "none"
      BY <1>1 DEF Genuine, FreshRecord, NoBatch
    <3>7. ~OpenClaim(s)'
      BY <1>3, <3>1, <3>3 DEF OpenClaim
    <3>8. /\ Genuine(rec'[s], run[s]) /\ Genuine(mem'[s], run[s])
          /\ mem'[s].batch.outcome = "open" => mem'[s].batch.leader = s
          /\ rec'[s].wait = run[s] => rec'[s].batch.outcome \in Final
          /\ pc'[s] # "none" => mem'[s] = r
      BY <1>1, <3>1, <3>2, <3>3, <3>4, <3>6 DEF Tidy
    <3>9. pc'[s] \notin {"starting", "leading", "alone"} \cup Batching
      BY <1>2 DEF Batching
    <3>10. since'[s] <= batches + 1 /\ run'[s] = run[s] /\ batches' = batches /\ (pc'[s] # "none" => run[s] > 0)
      BY <1>1, <1>2, <3>1 DEF Tidy
    <3>11. QED
      BY <1>1, <3>1, <3>3, <3>5, <3>7, <3>8, <3>9, <3>10 DEF Tidy, Past, Before
  <2>5. QED
    BY <1>3, <1>4, <2>3, <2>4, OwnKeeps DEF Vanish
<1>5. lock' = lock /\ pc'[s] \in Inside \cup {"failing", "unlocking"} => OwnerAlive'
  BY <1>1, <1>2 DEF OwnerAlive
<1>6. CASE LandAlone(s)
  <2> DEFINE r == [mem[s] EXCEPT !.started = TRUE, !.status = "succeeded"]
  <2>1. r \in Record /\ r.batch = mem[s].batch /\ r.wait = mem[s].wait
    BY <1>1 DEF Record
  <2>2. /\ mem' = [mem EXCEPT ![s] = r] /\ rec' = rec /\ since' = since /\ lock' = lock
        /\ pc'[s] \in {"directLanded", "aloneLanded"} /\ pc[s] \in Past
    BY <1>6 DEF LandAlone, Past
  <2> HIDE DEF r
  <2>3. QED
    BY <1>4, <1>5, <2>1, <2>2 DEF Inside
<1>7. CASE RecordAlone(s)
  <2>1. CASE rec' = [rec EXCEPT ![s] = mem[s]] /\ mem' = mem
    <3>1. mem = [mem EXCEPT ![s] = mem[s]] /\ since' = since /\ lock' = lock /\ pc'[s] \in {"failing", "finishing"}
      BY <1>7, <2>1 DEF RecordAlone
    <3>2. QED
      BY <1>1, <1>4, <1>5, <2>1, <3>1 DEF Inside
  <2>2. CASE mem' = [mem EXCEPT ![s].status = "failed"] /\ rec' = rec
    <3> DEFINE r == [mem[s] EXCEPT !.status = "failed"]
    <3>1. r \in Record /\ r.batch = mem[s].batch /\ r.wait = mem[s].wait
      BY <1>1 DEF Record
    <3>2. mem' = [mem EXCEPT ![s] = r] /\ since' = since /\ lock' = lock /\ pc'[s] \in {"failing", "finishing"}
      BY <1>7, <2>2 DEF RecordAlone
    <3> HIDE DEF r
    <3>3. QED
      BY <1>4, <1>5, <2>2, <3>1, <3>2 DEF Inside
  <2>3. CASE mem' = [mem EXCEPT ![s].status = "ready", ![s].replay = TRUE] /\ rec' = rec
    <3> DEFINE r == [mem[s] EXCEPT !.status = "ready", !.replay = TRUE]
    <3>1. r \in Record /\ r.batch = mem[s].batch /\ r.wait = mem[s].wait
      BY <1>1 DEF Record
    <3>2. mem' = [mem EXCEPT ![s] = r] /\ since' = since /\ lock' = lock /\ pc'[s] \in {"failing", "finishing"}
      BY <1>7, <2>3 DEF RecordAlone
    <3> HIDE DEF r
    <3>3. QED
      BY <1>4, <1>5, <2>3, <3>1, <3>2 DEF Inside
  <2>4. QED
    BY <1>7, <2>1, <2>2, <2>3 DEF RecordAlone
<1>8. CASE FailOwn(s)
  <2>1. rec' = rec /\ since' = since /\ lock' = lock /\ pc'[s] = "failing"
    BY <1>8 DEF FailOwn
  <2>2. \E r \in Record : /\ r.batch = mem[s].batch /\ r.wait = mem[s].wait
                          /\ mem' = [mem EXCEPT ![s] = r]
    <3>1. CASE mem' = mem
      BY <1>1, <3>1
    <3>2. CASE mem' = [mem EXCEPT ![s].status = "failed"]
      <4> DEFINE r == [mem[s] EXCEPT !.status = "failed"]
      <4>1. r \in Record /\ r.batch = mem[s].batch /\ r.wait = mem[s].wait
        BY <1>1 DEF Record
      <4>2. QED
        BY <3>2, <4>1
    <3>3. ASSUME NEW t \in {"ready", "failed"},
                 mem' = [mem EXCEPT ![s].started = TRUE, ![s].status = t]
          PROVE  \E r \in Record : /\ r.batch = mem[s].batch /\ r.wait = mem[s].wait
                                   /\ mem' = [mem EXCEPT ![s] = r]
      <4> DEFINE r == [mem[s] EXCEPT !.started = TRUE, !.status = t]
      <4>1. r \in Record /\ r.batch = mem[s].batch /\ r.wait = mem[s].wait
        BY <1>1 DEF Record
      <4>2. mem' = [mem EXCEPT ![s] = r]
        BY <3>3
      <4> HIDE DEF r
      <4>3. QED
        BY <4>1, <4>2
    <3>4. QED
      BY <1>8, <3>1, <3>2, <3>3 DEF FailOwn
  <2>3. QED
    BY <1>4, <1>5, <2>1, <2>2
<1>9. CASE SaveFailure(s)
  <2> DEFINE r == [mem[s] EXCEPT !.wait = 0]
  <2>1. r \in Record /\ r.batch = mem[s].batch /\ r.wait = 0
    BY <1>1 DEF Record
  <2>2. /\ mem' = [mem EXCEPT ![s] = r] /\ rec' = [rec EXCEPT ![s] = r] /\ since' = since /\ lock' = lock
        /\ pc'[s] = "unlocking"
    BY <1>9 DEF SaveFailure
  <2> HIDE DEF r
  <2>3. QED
    BY <1>4, <1>5, <2>1, <2>2
<1>10. CASE Unlock(s)
  <2>1. rec' = rec /\ lock' = Released(s) /\ pc'[s] \in {"unlocked", "late", "none"} /\ pc[s] # "none"
    BY <1>10 DEF Unlock, Report
  <2>2. (mem' = mem /\ since' = since) \/ (Vanish(s) /\ pc'[s] = "none")
    BY <1>10 DEF Unlock, Report
  <2>3. OwnerAlive'
    <3>1. CASE lock.by = s
      BY <1>1, <2>1, <3>1 DEF OwnerAlive, Released, Holds, Free
    <3>2. CASE lock.by # s
      BY <1>1, <1>2, <2>1, <3>2 DEF OwnerAlive, Released, Holds, Free
    <3>3. QED
      BY <3>1, <3>2
  <2>4. mem = [mem EXCEPT ![s] = mem[s]]
    OBVIOUS
  <2>5. QED
    BY <1>1, <1>4, <2>1, <2>2, <2>3, <2>4
<1>11. CASE SaveLate(s)
  <2>1. /\ rec' = [rec EXCEPT ![s] = mem[s]] /\ lock' = lock /\ pc'[s] \in {"late", "none"}
        /\ pc[s] \in {"unlocked", "late"}
        /\ (mem' = mem /\ since' = since) \/ (Vanish(s) /\ pc'[s] = "none")
    BY <1>11 DEF SaveLate
  <2>2. OwnerAlive'
    BY <1>1, <1>2, <2>1 DEF OwnerAlive, Inside, Batching
  <2>3. mem = [mem EXCEPT ![s] = mem[s]]
    OBVIOUS
  <2>4. QED
    BY <1>1, <1>4, <2>1, <2>2, <2>3
<1>12. QED
  BY <1>6, <1>7, <1>8, <1>9, <1>10, <1>11 DEF EndStep

(* What every step of a leader leaves alone.                                  *)
LEMMA LeadFrame ==
  ASSUME TypeOK, Owned, NEW l \in Sessions, LeadStep(l)
  PROVE  /\ pc[l] \in {"leading"} \cup Batching
         /\ pc'[l] \in Batching \cup {"alone", "finishing", "failing"}
         /\ pc' = [pc EXCEPT ![l] = pc'[l]]
         /\ UNCHANGED <<run, since, lock>>
         /\ \A x \in Sessions \ {l} : pc[x] \notin Inside
<1> USE DEF TypeOK, Goto, batchVars, memory
<1>1. pc[l] \in {"leading"} \cup Batching
  BY DEF LeadStep, StartBatch, ReadCandidates, Claim, EndClaims, SkipBatch, Promote, Block, StopEarly,
         EndBatch, Stage, SaveMember, RecordStaged, FailAlone, Exclude, RecordResult, Settle, Recording,
         Batching
<1>2. pc'[l] \in Batching \cup {"alone", "finishing", "failing"} /\ pc' = [pc EXCEPT ![l] = pc'[l]]
  <2>1. CASE StartBatch(l) \/ ReadCandidates(l) \/ EndClaims(l) \/ SkipBatch(l) \/ Block(l)
               \/ StopEarly(l) \/ EndBatch(l)
    BY <2>1 DEF StartBatch, ReadCandidates, EndClaims, SkipBatch, Block, StopEarly, EndBatch, Batching
  <2>2. CASE pc' = pc
    <3>1. ~SkipBatch(l) /\ ~StartBatch(l) => pc[l] \in Batching
      BY DEF LeadStep, ReadCandidates, Claim, EndClaims, Promote, Block, StopEarly, EndBatch, Stage,
             SaveMember, RecordStaged, FailAlone, Exclude, RecordResult, Settle, Recording, Batching
    <3>2. QED
      BY <2>1, <2>2, <3>1
  <2>3. QED
    BY <2>1, <2>2 DEF LeadStep, Claim, Promote, Stage, SaveMember, RecordStaged, FailAlone, Exclude,
                      RecordResult, Settle
<1>3. UNCHANGED <<run, since, lock>>
  BY DEF LeadStep, StartBatch, ReadCandidates, Claim, EndClaims, SkipBatch, Promote, Block, StopEarly,
         EndBatch, Stage, SaveMember, RecordStaged, FailAlone, Exclude, RecordResult, Settle
<1>4. \A x \in Sessions \ {l} : pc[x] \notin Inside
  BY <1>1, OneInside DEF Inside
<1>5. QED
  BY <1>1, <1>2, <1>3, <1>4

LEMMA OwnerKeeps ==
  ASSUME TypeOK, Owned, Claims, NEW l \in Sessions, LeadStep(l)
  PROVE  OwnerAlive' /\ (\A x \in Sessions \ {l} : pc'[x] = pc[x])
BY LeadFrame DEF Claims, OwnerAlive, TypeOK, Inside

(* The members of a leader and the leader itself, with what they have.        *)
LEMMA LeaderKnows ==
  ASSUME TypeOK, Owned, Results, Claims, NEW l \in Sessions, pc[l] \in Batching, NEW s \in Sessions
  PROVE  /\ Held(l, s) \in Record /\ Held(l, s).wait \in Nat
         /\ Genuine(Held(l, s), run[s])
         /\ plan[s].stage # "none" /\ s # l => Claimant(l, s)
         /\ Held(l, l) = mem[l] /\ mem[l].wait # run[l] /\ run[l] > 0
<1>1. Held(l, s) \in Record /\ Held(l, s).wait \in Nat
  BY HeldType, RecordFields
<1>2. Tidy(l) /\ Tidy(s)
  BY DEF Claims
<1>3. QED
  BY <1>1, <1>2 DEF Tidy, Held, Claims, MembersClaimed, Past, Batching, Waiting

(* A step inside a batch that saves the copy of at most one planned session   *)
(* and makes or settles no claim.                                             *)
Keeping(l, s) ==
  /\ pc[l] \in {"processing", "stopping"} /\ pc'[l] \in {"processing", "stopping"}
  /\ batches' = batches
  /\ \A x \in Sessions :
       /\ mem'[x].batch = mem[x].batch /\ mem'[x].wait \in {mem[x].wait, 0}
       /\ copy'[x].batch = copy[x].batch /\ copy'[x].wait \in {copy[x].wait, 0}
       /\ plan'[x].stage # "none" <=> plan[x].stage # "none"
       /\ plan'[x].stage \notin {"none", "open"} => plan'[x].outcome \in Final
  /\ \A x \in Sessions \ {s} : rec'[x] = rec[x]
  /\ \/ rec'[s] = rec[s]
     \/ rec'[s].batch = Held(l, s).batch /\ rec'[s].wait \in {Held(l, s).wait, 0}
  /\ plan[s].stage # "none"

LEMMA KeepingKeeps ==
  ASSUME TypeOK, Owned, Results, Claims, NEW l \in Sessions, LeadStep(l), NEW s \in Sessions,
         Keeping(l, s)
  PROVE  Claims'
<1> USE DEF TypeOK
<1>1. /\ pc[l] \in Batching /\ pc'[l] \in Batching /\ \A x \in Sessions \ {l} : pc'[x] = pc[x] /\ pc[x] \notin Inside
      /\ UNCHANGED <<run, since, batches>> /\ OwnerAlive'
  BY LeadFrame, OwnerKeeps DEF Keeping, Batching
<1>2. ASSUME NEW x \in Sessions PROVE Tidy(x)'
  <2>1. Tidy(x) /\ run[x] \in Nat /\ mem[x].wait \in Nat /\ copy[x].wait \in Nat /\ rec[x].wait \in Nat
    BY RecordFields DEF Claims
  <2>2. Genuine(mem[x], run[x])' /\ Genuine(copy[x], run[x])'
    BY <1>1, <2>1 DEF Keeping, Tidy, Genuine
  <2>3. /\ mem'[x].batch.outcome = "open" => mem'[x].batch.leader = x
        /\ since'[x] <= batches' + 1
        /\ plan'[x].stage \notin {"none", "open"} => plan'[x].outcome \in Final
        /\ pc'[x] # "none" => run'[x] > 0
    BY <1>1, <2>1 DEF Keeping, Tidy, Batching
  <2>4. CASE x = l
    <3>1. mem[l].wait # run[l] /\ run[l] > 0 /\ Held(l, l) = mem[l]
      BY <1>1, LeaderKnows
    <3>2. mem'[l].wait # run[l]
      BY <2>1, <2>4, <3>1 DEF Keeping
    <3>3. rec'[l] = rec[l] \/ (rec'[l].batch = mem[l].batch /\ rec'[l].wait \in {mem[l].wait, 0})
      BY <3>1 DEF Keeping
    <3>4. Genuine(rec[l], run[l])' /\ (rec'[l].wait = run[l] => rec'[l].batch.outcome \in Final)
      BY <1>1, <2>1, <2>4, <3>1, <3>3 DEF Tidy, Genuine, Before, Batching, Waiting
    <3>5. ~OpenClaim(l)'
      BY <1>1, <2>1, <2>4, <3>3 DEF Tidy, OpenClaim, Batching, Waiting
    <3>6. QED
      BY <1>1, <2>2, <2>3, <2>4, <3>2, <3>4, <3>5 DEF Tidy, Batching
  <2>5. CASE x # l /\ x # s
    <3>1. rec'[x] = rec[x] /\ pc'[x] = pc[x] /\ run'[x] = run[x] /\ pc[x] \notin Inside
      BY <1>1, <2>5 DEF Keeping
    <3>2. OpenClaim(x)' => plan'[x].stage # "none" /\ pc'[x] \in Waiting
      BY <2>1, <3>1 DEF Tidy, OpenClaim, Keeping
    <3>3. pc[x] # "none" => (mem'[x].wait = run[x] => mem[x].wait = run[x])
      BY <2>1 DEF Keeping, Tidy
    <3>4. mem'[x].batch = mem[x].batch
      BY DEF Keeping
    <3>5. QED
      BY <2>1, <2>2, <2>3, <3>1, <3>2, <3>3, <3>4 DEF Tidy, Past, Inside, Before
  <2>6. CASE x # l /\ x = s
    <3>1. Claimant(l, s) /\ Held(l, s) = copy[s] /\ pc'[s] = pc[s]
      BY <1>1, <2>6, LeaderKnows DEF Keeping, Held
    <3>2. rec'[s].batch = rec[s].batch /\ (rec'[s].wait \in {rec[s].wait, copy[s].wait, 0})
      BY <3>1 DEF Claimant, Keeping
    <3>3. Genuine(rec[s], run[s])'
      BY <1>1, <2>1, <2>6, <3>2 DEF Tidy, Genuine
    <3>4. plan'[s].stage # "none" /\ pc'[s] \in Waiting
      BY <3>1 DEF Keeping, Claimant
    <3>5. QED
      BY <2>2, <2>3, <2>6, <3>3, <3>4 DEF Tidy, Waiting, Past, Batching, Before
  <2>7. QED
    BY <2>4, <2>5, <2>6
<1>3. MembersClaimed'
  <2> SUFFICES ASSUME NEW m \in Sessions, NEW x \in Sessions,
                      pc'[m] \in Batching, plan'[x].stage # "none", x # m
               PROVE  Claimant(m, x)'
    BY DEF MembersClaimed
  <2>1. m = l
    BY <1>1 DEF Inside
  <2>2. Claimant(l, x) /\ Held(l, x) = copy[x] /\ pc'[x] = pc[x]
    BY <1>1, <2>1, LeaderKnows DEF Keeping, Held
  <2>3. rec'[x].batch = rec[x].batch /\ copy'[x].batch = copy[x].batch
    BY <2>2 DEF Keeping, Claimant
  <2>4. QED
    BY <1>1, <2>1, <2>2, <2>3 DEF Claimant, Entry
<1>4. SinceBeforeClaims'
  BY <1>1 DEF SinceBeforeClaims, Keeping, Inside, Batching
<1>5. QED
  BY <1>1, <1>2, <1>3, <1>4 DEF Claims

(* A leader that looks for members has none yet, or only those it claimed.    *)
LEMMA ClaimsJoin ==
  ASSUME Undisturbed, TypeOK, Owned, Results, Claims, NEW l \in Sessions, LeadStep(l),
         StartBatch(l) \/ ReadCandidates(l) \/ SkipBatch(l)
  PROVE  Claims'
<1> USE DEF TypeOK, Goto, batchVars, memory
<1>1. /\ pc[l] \in {"leading", "joining"} /\ pc'[l] \in {"joining", "claiming", "alone"}
      /\ UNCHANGED <<rec, mem, copy, plan, run, since>>
      /\ batches' \in {batches, batches + 1}
      /\ pc'[l] # "alone" => batches' = batches + 1 \/ pc[l] = "joining"
  BY DEF StartBatch, ReadCandidates, SkipBatch
<1>2. OwnerAlive' /\ \A x \in Sessions \ {l} : pc'[x] = pc[x] /\ pc[x] \notin Inside
  BY LeadFrame, OwnerKeeps
<1>3. \A x \in Sessions : plan[x].stage = "none"
  BY <1>1, <1>2 DEF Results, PlanHasLeader, Settling, Inside, Batching
<1>4. \A x \in Sessions : Tidy(x)'
  <2> SUFFICES ASSUME NEW x \in Sessions PROVE Tidy(x)'
    OBVIOUS
  <2>1. Tidy(x) /\ since[x] \in Nat /\ batches \in Nat
    BY DEF Claims
  <2>2. ~OpenClaim(x) /\ ~OpenClaim(x)' /\ plan'[x].stage = "none"
    BY <1>1, <1>3, <2>1 DEF Tidy, OpenClaim
  <2>3. since'[x] <= batches' + 1
    BY <1>1, <2>1 DEF Tidy
  <2>4. CASE x = l
    <3>1. run'[l] > 0 /\ mem'[l].wait # run'[l]
      BY <1>1, <2>1, <2>4 DEF Tidy, Past, Batching
    <3>2. QED
      BY <1>1, <2>1, <2>2, <2>3, <2>4, <3>1 DEF Tidy, Genuine, Before, Waiting
  <2>5. CASE x # l
    <3>1. pc'[x] = pc[x]
      BY <1>2, <2>5
    <3>2. QED
      BY <1>1, <2>1, <2>2, <2>3, <3>1 DEF Tidy, Genuine
  <2>6. QED
    BY <2>4, <2>5
<1>5. MembersClaimed'
  BY <1>1, <1>3 DEF MembersClaimed
<1>6. SinceBeforeClaims'
  <2>1. ASSUME NEW x \in Sessions, pc'[l] # "alone" PROVE since[x] <= batches'
    <3>1. since[x] <= batches + 1 /\ since[x] \in Nat /\ batches \in Nat
      BY DEF Claims, Tidy
    <3>2. pc[l] = "joining" => since[x] <= batches
      BY DEF Claims, SinceBeforeClaims
    <3>3. QED
      BY <1>1, <2>1, <3>1, <3>2
  <2>2. \A x \in Sessions : pc'[x] \in {"joining", "claiming"} => x = l /\ pc'[l] # "alone"
    BY <1>1, <1>2 DEF Inside, Batching
  <2>3. QED
    BY <1>1, <2>1, <2>2 DEF SinceBeforeClaims
<1>7. QED
  BY <1>2, <1>4, <1>5, <1>6 DEF Claims

LEMMA ClaimsClaim ==
  ASSUME Undisturbed, TypeOK, Owned, Results, Claims, NEW l \in Sessions, LeadStep(l), Claim(l)
  PROVE  Claims'
<1> USE DEF TypeOK
<1>1. /\ pc[l] = "claiming" /\ pc' = pc
      /\ UNCHANGED <<mem, run, since, batches>> /\ OwnerAlive'
      /\ \A x \in Sessions \ {l} : pc[x] \notin Inside
  BY LeadFrame, OwnerKeeps DEF Claim
<1>2. PICK s \in Sessions, e \in BatchEntry : Claimed(l, s, e) \/ UNCHANGED <<rec, copy, plan>>
  BY ClaimOne
<1>3. CASE UNCHANGED <<rec, copy, plan>>
  BY <1>1, <1>3 DEF Claims, Tidy, OpenClaim, Genuine, MembersClaimed, Claimant, Entry, SinceBeforeClaims
<1>4. CASE Claimed(l, s, e)
  <2> DEFINE r == [rec[s] EXCEPT !.batch = e]
  <2>1. r.batch = e /\ r.wait = rec[s].wait
    BY DEF Record
  <2> HIDE DEF r
  <2>2. /\ s # l /\ e = Entry(l, rec[s].wait)
        /\ Alive(s, rec[s].wait) /\ rec[s].batch.outcome \in {"none", "released"}
        /\ rec' = [rec EXCEPT ![s] = r] /\ copy' = [copy EXCEPT ![s] = r]
        /\ plan' = [plan EXCEPT ![s] = [stage |-> "open", outcome |-> "none"]]
    BY <1>4 DEF Claimed, Claimable, NoBatch, r
  <2>3. rec[s].wait = run[s] /\ e = Entry(l, run[s])
    BY <2>2 DEF Alive
  <2>4. pc[s] \in Waiting
    <3>1. Tidy(s) /\ pc[s] # "none" /\ pc[s] \notin Inside
      BY <1>1, <2>2 DEF Claims, Alive
    <3>2. QED
      BY <2>2, <2>3, <3>1 DEF Tidy, Before, Final, Done, Inside
  <2>5. Genuine(r, run[s]) /\ e.outcome = "open" /\ e.leader = l
    <3>1. run[s] \in Nat
      OBVIOUS
    <3>2. QED
      BY <2>1, <2>3, <3>1 DEF Genuine, Entry
  <2>6. \A x \in Sessions : Tidy(x)'
    <3> SUFFICES ASSUME NEW x \in Sessions PROVE Tidy(x)'
      OBVIOUS
    <3>1. Tidy(x)
      BY DEF Claims
    <3>2. CASE x = s
      BY <1>1, <2>2, <2>4, <2>5, <3>1, <3>2
        DEF Tidy, OpenClaim, Genuine, Waiting, Before, Past, Batching
    <3>3. CASE x # s
      <4>1. rec'[x] = rec[x] /\ copy'[x] = copy[x] /\ plan'[x] = plan[x]
        BY <2>2, <3>3
      <4>2. QED
        BY <1>1, <3>1, <4>1 DEF Tidy, OpenClaim, Genuine
    <3>4. QED
      BY <3>2, <3>3
  <2>7. MembersClaimed'
    <3> SUFFICES ASSUME NEW m \in Sessions, NEW x \in Sessions,
                        pc'[m] \in Batching, plan'[x].stage # "none", x # m
                 PROVE  Claimant(m, x)'
      BY DEF MembersClaimed
    <3>1. m = l
      BY <1>1 DEF Inside
    <3>2. CASE x = s
      <4>1. since[s] <= batches
        BY <1>1 DEF Claims, SinceBeforeClaims
      <4>2. QED
        BY <1>1, <2>1, <2>2, <2>3, <2>4, <3>1, <3>2, <4>1 DEF Claimant, Entry
    <3>3. CASE x # s
      <4>1. rec'[x] = rec[x] /\ copy'[x] = copy[x] /\ plan'[x] = plan[x]
        BY <2>2, <3>3
      <4>2. QED
        BY <1>1, <3>1, <4>1 DEF Claims, MembersClaimed, Claimant, Entry
    <3>4. QED
      BY <3>2, <3>3
  <2>8. SinceBeforeClaims'
    BY <1>1 DEF Claims, SinceBeforeClaims
  <2>9. QED
    BY <1>1, <2>6, <2>7, <2>8 DEF Claims
<1>5. QED
  BY <1>2, <1>3, <1>4

LEMMA ClaimsEndClaims ==
  ASSUME Undisturbed, TypeOK, Owned, Results, Claims, NEW l \in Sessions, LeadStep(l), EndClaims(l)
  PROVE  Claims'
<1> USE DEF TypeOK
<1>1. /\ pc[l] = "claiming" /\ pc'[l] \in {"alone", "processing"}
      /\ UNCHANGED <<copy, run, since, batches>> /\ OwnerAlive'
      /\ \A x \in Sessions \ {l} : pc[x] \notin Inside /\ pc'[x] = pc[x]
  BY LeadFrame, OwnerKeeps DEF EndClaims
<1>2. Tidy(l) /\ mem[l].wait # run[l] /\ run[l] > 0 /\ mem[l] \in Record /\ mem[l].wait \in Nat
  BY <1>1, RecordFields DEF Claims, Tidy, Past, Batching
<1>3. CASE Members(l) = {}
  <2>1. UNCHANGED <<rec, mem, plan>> /\ pc'[l] = "alone"
    BY <1>3 DEF EndClaims
  <2>2. \A x \in Sessions : plan[x].stage = "none"
    BY <1>1, <1>3 DEF Members, Results, PlanHasLeader
  <2>3. ASSUME NEW x \in Sessions PROVE Tidy(x)'
    <3>1. Tidy(x)
      BY DEF Claims
    <3>2. CASE x = l
      BY <1>1, <2>1, <3>1, <3>2 DEF Tidy, OpenClaim, Genuine, Past, Batching, Before, Waiting
    <3>3. CASE x # l
      BY <1>1, <2>1, <3>1, <3>3 DEF Tidy, OpenClaim, Genuine
    <3>4. QED
      BY <3>2, <3>3
  <2>4. MembersClaimed' /\ SinceBeforeClaims'
    BY <1>1, <2>1, <2>2 DEF MembersClaimed, SinceBeforeClaims, Claims, Inside, Batching
  <2>5. QED
    BY <1>1, <2>3, <2>4 DEF Claims
<1>4. CASE Members(l) # {}
  <2> DEFINE r == [mem[l] EXCEPT !.batch = Entry(l, run[l])]
  <2>1. r.batch = Entry(l, run[l]) /\ r.wait = mem[l].wait
    BY <1>2 DEF Record
  <2>2. /\ mem' = [mem EXCEPT ![l] = r] /\ rec' = [rec EXCEPT ![l] = r] /\ pc'[l] = "processing"
        /\ plan' = [plan EXCEPT ![l] = [stage |-> "open", outcome |-> "none"]]
    BY <1>4 DEF EndClaims
  <2> HIDE DEF r
  <2>3. Genuine(r, run[l]) /\ r.batch.leader = l
    BY <1>2, <2>1 DEF Tidy, Genuine, Entry
  <2>4. ASSUME NEW x \in Sessions PROVE Tidy(x)'
    <3>1. Tidy(x)
      BY DEF Claims
    <3>2. CASE x = l
      BY <1>1, <1>2, <2>1, <2>2, <2>3, <3>1, <3>2
        DEF Tidy, OpenClaim, Genuine, Past, Batching, Before, Waiting
    <3>3. CASE x # l
      <4>1. rec'[x] = rec[x] /\ mem'[x] = mem[x] /\ plan'[x] = plan[x]
        BY <2>2, <3>3
      <4>2. QED
        BY <1>1, <3>1, <3>3, <4>1 DEF Tidy, OpenClaim, Genuine
    <3>4. QED
      BY <3>2, <3>3
  <2>5. MembersClaimed'
    <3> SUFFICES ASSUME NEW m \in Sessions, NEW x \in Sessions,
                        pc'[m] \in Batching, plan'[x].stage # "none", x # m
                 PROVE  Claimant(m, x)'
      BY DEF MembersClaimed
    <3>1. m = l
      BY <1>1 DEF Inside
    <3>2. rec'[x] = rec[x] /\ plan'[x] = plan[x] /\ pc'[x] = pc[x]
      BY <1>1, <2>2, <3>1
    <3>3. Claimant(l, x)
      BY <1>1, <3>1, <3>2 DEF Claims, MembersClaimed, Batching
    <3>4. QED
      BY <1>1, <3>1, <3>2, <3>3 DEF Claimant, Entry
  <2>6. SinceBeforeClaims'
    BY <1>1 DEF SinceBeforeClaims, Claims, Inside, Batching
  <2>7. QED
    BY <1>1, <2>4, <2>5, <2>6 DEF Claims
<1>5. QED
  BY <1>3, <1>4

LEMMA ClaimsSettle ==
  ASSUME Undisturbed, TypeOK, Owned, Results, Claims, NEW l \in Sessions, LeadStep(l),
         NEW s \in Sessions, Settle(l, s)
  PROVE  Claims'
<1> USE DEF TypeOK
<1>1. /\ pc[l] \in Batching /\ pc' = pc
      /\ UNCHANGED <<run, since, batches>> /\ OwnerAlive'
      /\ \A x \in Sessions \ {l} : pc[x] \notin Inside
  BY LeadFrame, OwnerKeeps DEF Settle, Recording, Batching
<1> DEFINE h == Held(l, s)
           r == [h EXCEPT !.batch.outcome = plan[s].outcome,
                          !.wait = IF s # l /\ plan[s].outcome \in {"batched", "isolated"} THEN 0 ELSE @]
<1>2. Hold(l, s, r) /\ rec' = [rec EXCEPT ![s] = r] /\ plan' = [plan EXCEPT ![s] = NoPlan]
      /\ plan[s].stage = "recorded" /\ pc[l] \in {"processing", "stopping"}
  BY DEF Settle, Recording
<1>3. h \in Record /\ Genuine(h, run[s]) /\ h.wait \in Nat
  BY <1>1, LeaderKnows
<1>4. plan[s].outcome \in Final
  BY <1>2 DEF Claims, Tidy
<1> HIDE DEF h
<1>5. r.batch.outcome = plan[s].outcome /\ r.wait \in {h.wait, 0}
  BY <1>3 DEF Record, BatchEntry
<1> HIDE DEF r
<1>6. Genuine(r, run[s])
  <2>1. run[s] \in Nat
    OBVIOUS
  <2>2. QED
    BY <1>3, <1>4, <1>5, <2>1 DEF Genuine, Final, Done
<1>7. \A x \in Sessions \ {s} :
        rec'[x] = rec[x] /\ mem'[x] = mem[x] /\ copy'[x] = copy[x] /\ plan'[x] = plan[x]
  BY <1>2 DEF Hold
<1>8. plan'[s].stage = "none" /\ rec'[s] = r /\ mem'[s] \in {mem[s], r} /\ copy'[s] \in {copy[s], r}
      /\ (s = l => mem'[s] = r) /\ (s # l => mem'[s] = mem[s])
  BY <1>2 DEF Hold, NoPlan
<1>9. ASSUME NEW x \in Sessions PROVE Tidy(x)'
  <2>1. Tidy(x)
    BY DEF Claims
  <2>2. CASE x # s
    BY <1>1, <1>7, <2>1, <2>2 DEF Tidy, OpenClaim, Genuine
  <2>3. CASE x = s
    <3>1. /\ Genuine(rec[s], run[s])' /\ Genuine(mem[s], run[s])' /\ Genuine(copy[s], run[s])'
          /\ ~OpenClaim(s)'
      BY <1>1, <1>4, <1>5, <1>6, <1>8, <2>1, <2>3 DEF Tidy, OpenClaim, Final, Done, Genuine
    <3>2. CASE s = l
      <4>1. h = mem[l] /\ mem[l].wait # run[l] /\ run[l] > 0
        BY <1>1, <3>2, LeaderKnows DEF h
      <4>2. r.wait # run[l] /\ r.batch.outcome \notin {"open"}
        BY <1>4, <1>5, <4>1 DEF Final, Done
      <4>3. QED
        BY <1>1, <1>4, <1>5, <1>8, <2>1, <2>3, <3>1, <3>2, <4>1, <4>2 DEF Tidy, Batching
    <3>3. CASE s # l
      <4>1. pc[s] \in Waiting
        BY <1>1, <1>2, <3>3, LeaderKnows DEF Claimant
      <4>2. QED
        BY <1>1, <1>8, <2>1, <2>3, <3>1, <3>3, <4>1 DEF Tidy, Waiting, Before, Past, Batching
    <3>4. QED
      BY <3>2, <3>3
  <2>4. QED
    BY <2>2, <2>3
<1>10. MembersClaimed'
  <2> SUFFICES ASSUME NEW m \in Sessions, NEW x \in Sessions,
                      pc'[m] \in Batching, plan'[x].stage # "none", x # m
               PROVE  Claimant(m, x)'
    BY DEF MembersClaimed
  <2>1. x # s /\ rec'[x] = rec[x] /\ copy'[x] = copy[x] /\ plan[x].stage # "none"
    BY <1>7, <1>8
  <2>2. Claimant(m, x)
    BY <1>1, <2>1 DEF Claims, MembersClaimed
  <2>3. QED
    BY <1>1, <2>1, <2>2 DEF Claimant, Entry
<1>11. SinceBeforeClaims'
  BY <1>1 DEF SinceBeforeClaims, Claims
<1>12. QED
  BY <1>1, <1>9, <1>10, <1>11 DEF Claims

LEMMA ClaimsEndBatch ==
  ASSUME Undisturbed, TypeOK, Owned, Results, Claims, NEW l \in Sessions, LeadStep(l), EndBatch(l)
  PROVE  Claims'
<1> USE DEF TypeOK
<1>1. /\ pc[l] \in {"processing", "stopping"} /\ pc'[l] \in {"finishing", "alone", "failing"}
      /\ UNCHANGED <<rec, mem, run, since, batches>> /\ OwnerAlive'
      /\ \A x \in Sessions \ {l} : pc[x] \notin Inside /\ pc'[x] = pc[x]
      /\ copy' = [x \in Sessions |-> FreshRecord] /\ plan' = [x \in Sessions |-> NoPlan]
  BY LeadFrame, OwnerKeeps DEF EndBatch, Forget, Recording
<1>2. \A x \in Sessions : plan[x].stage = "none" /\ plan'[x].stage = "none"
  BY <1>1 DEF EndBatch, AllSettled, NoPlan
<1>3. mem[l].wait # run[l] /\ run[l] > 0
  BY <1>1, LeaderKnows DEF Batching
<1>4. ASSUME NEW x \in Sessions PROVE Tidy(x)'
  <2>1. Tidy(x) /\ Genuine(copy[x], run[x])' /\ ~OpenClaim(x)'
    BY <1>1, <1>2 DEF Claims, Tidy, OpenClaim, Genuine, FreshRecord, NoBatch
  <2>2. CASE x = l
    BY <1>1, <1>2, <1>3, <2>1, <2>2 DEF Tidy, Genuine, Before, Batching, Waiting
  <2>3. CASE x # l
    BY <1>1, <1>2, <2>1, <2>3 DEF Tidy, Genuine
  <2>4. QED
    BY <2>2, <2>3
<1>5. MembersClaimed' /\ SinceBeforeClaims'
  BY <1>1, <1>2 DEF MembersClaimed, SinceBeforeClaims, Inside, Batching
<1>6. QED
  BY <1>1, <1>4, <1>5 DEF Claims

(* The steps that promote, split, fail or save a group.                       *)
LEMMA ClaimsGroup ==
  ASSUME Undisturbed, TypeOK, Owned, Results, Claims, NEW l \in Sessions, LeadStep(l),
         \/ Promote(l) \/ Block(l) \/ \E g \in SUBSET At({"open"}) : Stage(l, g)
         \/ \E s \in Sessions : \/ SaveMember(l, s) \/ RecordStaged(l, s) \/ FailAlone(l, s)
                                \/ Exclude(l, s) \/ RecordResult(l, s)
  PROVE  \E s \in Sessions : Keeping(l, s)
<1> USE DEF TypeOK, Goto, batchVars, memory
<1>1. \A x \in Sessions : /\ plan[x].stage \notin {"none", "open"} => plan[x].outcome \in Final
                          /\ x \in group => plan[x].stage \in {"staging", "staged"}
  BY DEF Claims, Tidy, Results, PlanHasLeader
<1>2. \A x \in Sessions : /\ Held(l, x) \in Record
                          /\ \A t \in {"failed", "succeeded"} :
                               /\ [Held(l, x) EXCEPT !.status = t].batch = Held(l, x).batch
                               /\ [Held(l, x) EXCEPT !.status = t].wait = Held(l, x).wait
  BY HeldType DEF Record
<1>3. CASE Promote(l) \/ Block(l)
  <2>1. /\ group # {} /\ rec' = rec /\ batches' = batches /\ pc[l] = "processing"
        /\ pc'[l] \in {"processing", "stopping"} /\ \E bad \in SUBSET group : Decide(l, bad)
    BY <1>3 DEF Promote, Block
  <2>2. PICK bad \in SUBSET group : Decide(l, bad)
    BY <2>1
  <2>3. \A x \in Sessions : /\ mem'[x].batch = mem[x].batch /\ mem'[x].wait = mem[x].wait
                            /\ copy'[x].batch = copy[x].batch /\ copy'[x].wait = copy[x].wait
    BY <1>2, <2>2 DEF Decide, Held
  <2>4. \A x \in Sessions : /\ plan'[x].stage # "none" <=> plan[x].stage # "none"
                            /\ plan'[x].stage \notin {"none", "open"} => plan'[x].outcome \in Final
    <3>1. CASE Promote(l)
      BY <1>1, <3>1 DEF Promote, Plan
    <3>2. CASE Block(l)
      <4>1. \A x \in Sessions : plan[x].stage # "open"
        BY <3>2 DEF Block, Undisturbed, At
      <4>2. QED
        BY <1>1, <3>2, <4>1 DEF Block, Plan
    <3>3. QED
      BY <1>3, <3>1, <3>2
  <2>5. PICK s \in group : TRUE
    BY <2>1
  <2>6. QED
    BY <1>1, <2>1, <2>3, <2>4, <2>5 DEF Keeping
<1>4. CASE \E g \in SUBSET At({"open"}) : Stage(l, g)
  <2>1. PICK g \in SUBSET At({"open"}) : Stage(l, g)
    BY <1>4
  <2>2. /\ rec' = rec /\ mem' = mem /\ copy' = copy /\ batches' = batches
        /\ pc[l] = "processing" /\ pc' = pc /\ g # {}
    BY <2>1 DEF Stage
  <2>3. \A x \in Sessions : /\ plan'[x].stage # "none" <=> plan[x].stage # "none"
                            /\ plan'[x].stage \notin {"none", "open"} => plan'[x].outcome \in Final
    <3> SUFFICES ASSUME NEW x \in Sessions
                 PROVE  /\ plan'[x].stage # "none" <=> plan[x].stage # "none"
                        /\ plan'[x].stage \notin {"none", "open"} => plan'[x].outcome \in Final
      OBVIOUS
    <3>1. CASE x \in g
      <4>1. plan'[x].stage = "staging" /\ plan'[x].outcome \in {"batched", "isolated"}
        BY <2>1, <3>1 DEF Stage
      <4>2. plan[x].stage = "open"
        BY <2>1, <3>1 DEF At
      <4>3. QED
        BY <4>1, <4>2 DEF Final, Done
    <3>2. CASE x \notin g
      <4>1. plan'[x] = plan[x]
        BY <2>1, <3>2 DEF Stage
      <4>2. QED
        BY <1>1, <4>1
    <3>3. QED
      BY <3>1, <3>2
  <2>4. PICK s \in Sessions : plan[s].stage # "none"
    BY <2>1, <2>2 DEF At
  <2>5. QED
    BY <2>2, <2>3, <2>4 DEF Keeping
<1>5. ASSUME NEW s \in Sessions, SaveMember(l, s) \/ RecordStaged(l, s) \/ RecordResult(l, s)
      PROVE  Keeping(l, s)
  <2>1. /\ pc[l] \in {"processing", "stopping"} /\ pc' = pc /\ batches' = batches
        /\ plan[s].stage # "none"
    BY <1>5 DEF SaveMember, RecordStaged, RecordResult, Recording
  <2>2. \A x \in Sessions : /\ plan'[x].stage # "none" <=> plan[x].stage # "none"
                            /\ plan'[x].stage \notin {"none", "open"} => plan'[x].outcome \in Final
    <3>1. CASE SaveMember(l, s)
      BY <1>1, <3>1 DEF SaveMember
    <3>2. ASSUME plan[s].stage \in {"staging", "decided"},
                 NEW to \in {"staged", "recorded"}, plan' = [plan EXCEPT ![s].stage = to]
          PROVE  \A x \in Sessions : /\ plan'[x].stage # "none" <=> plan[x].stage # "none"
                                    /\ plan'[x].stage \notin {"none", "open"} => plan'[x].outcome \in Final
      <4>1. plan'[s].stage = to /\ plan'[s].outcome = plan[s].outcome
        BY <3>2 DEF Plan
      <4>2. \A x \in Sessions \ {s} : plan'[x] = plan[x]
        BY <3>2
      <4>3. QED
        BY <1>1, <3>2, <4>1, <4>2
    <3>3. CASE RecordStaged(l, s)
      BY <3>2, <3>3 DEF RecordStaged
    <3>4. CASE RecordResult(l, s)
      BY <3>2, <3>4 DEF RecordResult
    <3>5. QED
      BY <1>5, <3>1, <3>3, <3>4
  <2> DEFINE h == Held(l, s)
  <2>3. h \in Record
    BY HeldType
  <2>4. \E r \in Record : /\ r.batch = h.batch /\ r.wait \in {h.wait, 0} /\ rec' = [rec EXCEPT ![s] = r]
                          /\ Hold(l, s, r) \/ UNCHANGED <<mem, copy>>
    <3>1. CASE SaveMember(l, s)
      BY <2>3, <3>1 DEF SaveMember
    <3>2. CASE RecordStaged(l, s)
      <4> DEFINE r == [h EXCEPT !.started = TRUE]
      <4>1. r \in Record /\ r.batch = h.batch /\ r.wait = h.wait
        <5> HIDE DEF h
        <5>1. QED
          BY <2>3 DEF Record
      <4>2. rec' = [rec EXCEPT ![s] = r] /\ Hold(l, s, r)
        BY <3>2 DEF RecordStaged
      <4> HIDE DEF r
      <4>3. QED
        BY <4>1, <4>2
    <3>3. CASE RecordResult(l, s)
      <4> DEFINE r == [h EXCEPT !.wait = IF s # l /\ h.status = "failed" THEN 0 ELSE @]
      <4>1. r \in Record /\ r.batch = h.batch /\ r.wait \in {h.wait, 0}
        <5> HIDE DEF h
        <5>1. QED
          BY <2>3 DEF Record
      <4>2. rec' = [rec EXCEPT ![s] = r] /\ Hold(l, s, r)
        BY <3>3 DEF RecordResult
      <4> HIDE DEF r
      <4>3. QED
        BY <4>1, <4>2
    <3>4. QED
      BY <1>5, <3>1, <3>2, <3>3
  <2>5. /\ \A x \in Sessions : /\ mem'[x].batch = mem[x].batch /\ mem'[x].wait \in {mem[x].wait, 0}
                               /\ copy'[x].batch = copy[x].batch /\ copy'[x].wait \in {copy[x].wait, 0}
        /\ \A x \in Sessions \ {s} : rec'[x] = rec[x]
        /\ rec'[s].batch = Held(l, s).batch /\ rec'[s].wait \in {Held(l, s).wait, 0}
    BY <2>4 DEF Hold, Held
  <2>6. QED
    BY <2>1, <2>2, <2>5 DEF Keeping
<1>6. ASSUME NEW s \in Sessions, FailAlone(l, s) \/ Exclude(l, s) PROVE Keeping(l, s)
  <2>1. /\ pc[l] = "processing" /\ pc' = pc /\ plan[s].stage = "open" /\ rec' = rec /\ batches' = batches
    BY <1>6 DEF FailAlone, Exclude
  <2>2. \A x \in Sessions : /\ plan'[x].stage # "none" <=> plan[x].stage # "none"
                            /\ plan'[x].stage \notin {"none", "open"} => plan'[x].outcome \in Final
    BY <1>1, <1>6, <2>1 DEF FailAlone, Exclude, Final, Done
  <2>3. \A x \in Sessions : /\ mem'[x].batch = mem[x].batch /\ mem'[x].wait = mem[x].wait
                            /\ copy'[x].batch = copy[x].batch /\ copy'[x].wait = copy[x].wait
    BY <1>2, <1>6 DEF FailAlone, Exclude, Hold, Held
  <2>4. QED
    BY <2>1, <2>2, <2>3 DEF Keeping
<1>7. QED
  BY <1>3, <1>4, <1>5, <1>6

LEMMA ClaimsInit == Init => Claims
BY ConstantsAssumption
   DEF Init, Claims, Tidy, OpenClaim, MembersClaimed, OwnerAlive, SinceBeforeClaims, FreshRecord, NoBatch,
       NoPlan, Free, Genuine, Waiting, Past, Before, Batching

LEMMA ClaimsNext ==
  ASSUME Undisturbed
  PROVE  TypeOK /\ Owned /\ Results /\ Claims /\ [Next]_vars => Claims'
<1> SUFFICES ASSUME TypeOK, Owned, Results, Claims, [Next]_vars PROVE Claims'
  OBVIOUS
<1>1. CASE UNCHANGED vars
  BY <1>1 DEF vars, Claims, Tidy, OpenClaim, Genuine, MembersClaimed, Claimant, Entry, OwnerAlive,
              SinceBeforeClaims
<1>2. ASSUME NEW s \in Sessions, Begin(s) \/ WaitStep(s) \/ EndStep(s) PROVE Claims'
  BY <1>2, ClaimsBegin, ClaimsWait, ClaimsEnd
<1>3. ASSUME NEW l \in Sessions, LeadStep(l) PROVE Claims'
  <2>1. CASE StartBatch(l) \/ ReadCandidates(l) \/ SkipBatch(l) \/ Claim(l) \/ EndClaims(l) \/ EndBatch(l)
    BY <1>3, <2>1, ClaimsJoin, ClaimsClaim, ClaimsEndClaims, ClaimsEndBatch
  <2>2. ~StopEarly(l)
    BY DEF StopEarly, Undisturbed
  <2>3. ASSUME NEW s \in Sessions, Settle(l, s) PROVE Claims'
    BY <1>3, <2>3, ClaimsSettle
  <2>4. CASE \/ Promote(l) \/ Block(l) \/ \E g \in SUBSET At({"open"}) : Stage(l, g)
             \/ \E s \in Sessions : \/ SaveMember(l, s) \/ RecordStaged(l, s) \/ FailAlone(l, s)
                                    \/ Exclude(l, s) \/ RecordResult(l, s)
    BY <1>3, <2>4, ClaimsGroup, KeepingKeeps
  <2>5. QED
    BY <1>3, <2>1, <2>2, <2>3, <2>4 DEF LeadStep
<1>4. \A s \in Sessions : ~Crash(s)
  BY DEF Crash, Undisturbed, TypeOK
<1>5. ~RemoveStaleLock
  BY NoStaleLock DEF RemoveStaleLock
<1>6. QED
  BY <1>1, <1>2, <1>3, <1>4, <1>5 DEF Next

(* A batch that no crash and no race disturbs leaves no session claimed: an   *)
(* open claim is one of a leader that has the lock and works on that batch.   *)
THEOREM ClaimsAreWorkedOn == Undisturbed => (Spec => []OpenClaimHasLeader)
<1> SUFFICES ASSUME Undisturbed PROVE Spec => []OpenClaimHasLeader
  OBVIOUS
<1>1. Init => TypeOK /\ Owned /\ Results /\ Claims
  BY TypeInit, ResultsInit, ClaimsInit DEF Init, Owned, Inside, Batching
<1>2. TypeOK /\ Owned /\ Results /\ Claims => OpenClaimHasLeader
  <2> SUFFICES ASSUME TypeOK, Owned, Results, Claims, NEW s \in Sessions, OpenClaim(s)
               PROVE  Working(rec[s].batch.leader, rec[s].batch.id)
    BY DEF OpenClaimHasLeader
  <2>1. plan[s].stage # "none" /\ pc[s] \in Waiting
    BY DEF Claims, Tidy
  <2>2. PICK l \in Sessions : pc[l] \in Settling
    BY <2>1 DEF Results, PlanHasLeader
  <2>3. pc[l] \in Batching /\ l # s
    BY <2>1, <2>2 DEF Settling, Batching, Waiting
  <2>4. Claimant(l, s) /\ Holds(l)
    BY <2>1, <2>3 DEF Claims, MembersClaimed, Owned, Inside, Holds, Batching
  <2>5. QED
    BY <2>3, <2>4 DEF Claimant, Entry, Working
<1>3. QED
  BY <1>1, <1>2, TypeNext, OwnedNext, ResultsNext, ClaimsNext, PTL DEF Spec

(* SPEC 10.3.1: a waiter never times out while a working leader has it        *)
(* claimed, if nothing dies, the batch is not stopped early and the deadline  *)
(* does not fall between the two comparisons of one polling round.            *)
THEOREM ClaimedWaitersHold == Undisturbed => (Spec => []NeverTimesOutClaimed)
<1> SUFFICES ASSUME Undisturbed PROVE Spec => []NeverTimesOutClaimed
  OBVIOUS
<1>1. Init => TypeOK /\ Owned /\ Results /\ Claims
  BY TypeInit, ResultsInit, ClaimsInit DEF Init, Owned, Inside, Batching
<1>2. Claims => NeverTimesOutClaimed
  BY DEF Claims, Tidy, NeverTimesOutClaimed, Waiting
<1>3. QED
  BY <1>1, <1>2, TypeNext, OwnedNext, ResultsNext, ClaimsNext, PTL DEF Spec

------------------------------------------------------------------------------
(* Landed sessions are recorded, again undisturbed: until the promised result *)
(* of a landed session is on disk it is in the plan of a leader, or in the    *)
(* copy its own command saves at its end.  A session whose replay failed may  *)
(* be integrated again, by itself: every copy of its record shows the attempt.*)
Shows(r) == r.started /\ r.replay

Replayed(s) ==
  /\ plan[s].stage = "none" /\ pc[s] \notin Batching
  /\ pc[s] # "none" => Shows(mem[s])
  /\ pc[s] # "failing" => Shows(rec[s])

Ended(s) ==
  /\ plan[s].stage \notin {"open", "staging", "staged"}
  /\ plan[s].stage # "none" => plan[s].outcome \in Done
  /\ pc[s] \notin {"starting", "timedOut", "leading", "joining", "claiming", "alone"}
  /\ plan[s].stage = "none" =>
       /\ pc[s] \in Waiting \cup {"locked"} => Resolved(rec[s], s)
       /\ pc[s] \notin {"directLanded", "aloneLanded", "failing"} => rec[s].status # "ready"
       /\ pc[s] \in {"processing", "stopping"} =>
            mem[s].status # "ready" /\ mem[s].batch.outcome \in Done
  /\ pc[s] \notin Before \cup {"stopped", "processing", "stopping"} => mem[s].status # "ready"
  /\ pc[s] = "directLanded" => mem[s].started

Known(s) == Ended(s) \/ Replayed(s)

Landings ==
  /\ \A s \in landed : Known(s)
  /\ \A l \in Sessions, s \in landed :
       pc[l] \in Batching /\ plan[s].stage # "none" => Held(l, s).status # "ready"
  /\ \A s \in Sessions : plan[s].stage \in {"staging", "staged"} => plan[s].outcome \in Done

LEMMA OwnLands ==
  ASSUME TypeOK, Landings, NEW s \in Sessions, Own(s),
         landed' \subseteq landed \cup {s}, s \in landed' => Known(s)',
         s \in landed \/ landed' = landed \/ plan[s].stage = "none"
  PROVE  Landings'
<1> USE DEF TypeOK, Landings
<1>1. \A x \in Sessions \ {s} : pc'[x] = pc[x]
  BY DEF Own
<1>2. ASSUME NEW x \in landed' PROVE Known(x)'
  <2>1. CASE x # s
    <3>1. x \in Sessions /\ Known(x)
      BY <1>2, <2>1
    <3>2. QED
      BY <1>1, <2>1, <3>1 DEF Own, Known, Replayed, Ended, Resolved, Joined
  <2>2. QED
    BY <1>2, <2>1
<1>3. ASSUME NEW l \in Sessions, NEW x \in landed', pc'[l] \in Batching, plan'[x].stage # "none"
      PROVE  Held(l, x)'.status # "ready"
  <2>1. l # s /\ pc[l] \in Batching /\ plan[x].stage # "none" /\ mem'[l] = mem[l] /\ copy' = copy
    BY <1>1, <1>3 DEF Own
  <2>2. x \in landed
    BY <1>3, <2>1
  <2>3. QED
    BY <2>1, <2>2 DEF Held
<1>4. QED
  BY <1>2, <1>3 DEF Own

(* A replayed session waits and gets the lock like any other.                 *)
LEMMA ReplayedWaits ==
  ASSUME TypeOK, NEW s \in Sessions, Replayed(s), WaitStep(s) \/ Begin(s)
  PROVE  plan' = plan => Replayed(s)'
<1> USE DEF TypeOK, Goto, batchVars, memory, Shows
<1>1. rec[s] \in Record /\ mem[s] \in Record /\ pc'[s] \notin Batching
  BY DEF WaitStep, Advertise, DependencyBlocks, Lock, Watch, FindStaleLock, PollAgain, Expire,
         ExpireBetweenChecks, LeaveWait, Report, LeadOrReport, AtPoll, AtDeadline, Begin, Batching, Replayed
<1>3. CASE Begin(s)
  BY <1>1, <1>3 DEF Begin, Replayed
<1>4. CASE Advertise(s)
  <2>1. /\ mem'[s] = [mem[s] EXCEPT !.wait = run[s]] /\ rec'[s] = mem'[s]
        /\ pc[s] = "starting"
    BY <1>4 DEF Advertise
  <2>2. Shows(mem'[s])
    BY <1>1, <2>1 DEF Replayed, Record
  <2>3. QED
    BY <1>1, <2>1, <2>2 DEF Replayed
<1>5. CASE DependencyBlocks(s) \/ Lock(s) \/ Watch(s) \/ FindStaleLock(s) \/ PollAgain(s)
             \/ ExpireBetweenChecks(s)
  BY <1>1, <1>5 DEF DependencyBlocks, Lock, Watch, FindStaleLock, PollAgain, ExpireBetweenChecks, Replayed
<1>6. CASE Expire(s)
  <2>1. rec'[s] = rec[s] \/ rec'[s] = [rec[s] EXCEPT !.wait = 0]
    BY <1>6 DEF Expire
  <2>2. pc[s] = "waitCheck" /\ mem' = mem
    BY <1>6 DEF Expire
  <2>3. Shows(rec'[s])
    BY <1>1, <2>1, <2>2 DEF Replayed, Record
  <2>4. QED
    BY <1>1, <2>2, <2>3 DEF Replayed
<1>7. CASE LeaveWait(s)
  <2>1. /\ pc[s] \in {"stopped", "timedOut", "foundStale"} /\ rec' = rec
        /\ mem'[s] = rec[s] \/ pc'[s] = "none"
    BY <1>7 DEF LeaveWait, Report, Reread, Vanish
  <2>2. QED
    BY <1>1, <2>1 DEF Replayed
<1>8. CASE LeadOrReport(s)
  <2>1. pc[s] = "locked" /\ Shows(rec[s])
    BY <1>8 DEF LeadOrReport, Replayed
  <2>2. CASE Resolved(rec[s], s)
    BY <1>1, <1>8, <2>1, <2>2 DEF LeadOrReport, Reread, Replayed
  <2>3. CASE ~Resolved(rec[s], s)
    <3> DEFINE q == ReleaseStale(rec[s], s)
    <3>1. q \in Record /\ Shows(q)
      <4>1. Shows([rec[s] EXCEPT !.batch.outcome = "released"])
        BY <1>1, <2>1 DEF Record
      <4>2. QED
        BY <1>1, <2>1, <4>1, ReleaseFields DEF ReleaseStale
    <3>2. mem' = [mem EXCEPT ![s] = [q EXCEPT !.wait = 0]] /\ rec' = [rec EXCEPT ![s] = mem'[s]]
      BY <1>8, <2>3 DEF LeadOrReport, Reread
    <3> HIDE DEF q
    <3>3. Shows([q EXCEPT !.wait = 0])
      BY <3>1 DEF Record
    <3> HIDE DEF Shows
    <3>4. Shows(mem'[s]) /\ Shows(rec'[s])
      BY <3>2, <3>3
    <3>5. QED
      BY <1>1, <3>4 DEF Replayed
  <2>4. QED
    BY <2>2, <2>3
<1>9. QED
  BY <1>3, <1>4, <1>5, <1>6, <1>7, <1>8 DEF WaitStep

LEMMA LandingsWait ==
  ASSUME Undisturbed, TypeOK, Owned, Results, Claims, Landings,
         NEW s \in Sessions, WaitStep(s) \/ Begin(s)
  PROVE  Landings'
<1> USE DEF TypeOK, Goto, batchVars, memory
<1>1. Tidy(s) /\ ~StaleLock /\ rec[s] \in Record
  BY NoStaleLock DEF Claims
<1>2. Own(s) /\ landed' = landed /\ pc[s] \in {"none", "starting", "stopped", "timedOut", "foundStale", "locked"} \cup Waiting
  BY DEF WaitStep, Advertise, DependencyBlocks, Lock, Watch, FindStaleLock, PollAgain, Expire,
         ExpireBetweenChecks, LeaveWait, Report, LeadOrReport, AtPoll, AtDeadline, Begin, Batching, Waiting,
         Own, Vanish
<1>3. plan[s].stage # "none" =>
        pc[s] \in Waiting /\ lock # Free /\ rec[s].batch.outcome = "open" /\ Joined(rec[s], s)
  BY <1>2, PlannedWaits, ConstantsAssumption DEF Claimant, Free, Own
<1>4. SUFFICES ASSUME s \in landed, Ended(s) PROVE Ended(s)'
  BY <1>2, OwnLands, ReplayedWaits DEF Landings, Known, Own
<1>5. Ended(s) /\ (pc[s] \in Waiting => plan[s].stage # "none" \/ Resolved(rec[s], s))
  BY <1>4 DEF Landings, Ended
<1>6. ~Begin(s) /\ ~Advertise(s) /\ ~DependencyBlocks(s)
  <2>1. ~Begin(s)
    BY <1>3, <1>5 DEF Begin, Ended, Waiting
  <2>2. QED
    BY <1>5, <2>1 DEF Advertise, DependencyBlocks, Ended
<1>7. CASE Lock(s)
  <2>1. pc'[s] = "locked" /\ plan[s].stage = "none" /\ UNCHANGED <<rec, mem, since, plan>> /\ pc[s] \in Waiting
    BY <1>3, <1>7 DEF Lock, Waiting
  <2>2. QED
    BY <1>5, <2>1 DEF Ended, Before, Waiting, Resolved, Joined
<1>8. CASE Watch(s) \/ FindStaleLock(s) \/ PollAgain(s) \/ ExpireBetweenChecks(s)
  <2>1. pc[s] \in Waiting /\ UNCHANGED <<rec, mem, since, plan>>
    BY <1>8 DEF Watch, FindStaleLock, PollAgain, ExpireBetweenChecks, Waiting
  <2>2. pc'[s] \in Waiting \/ (pc'[s] = "stopped" /\ Resolved(rec[s], s))
    BY <1>1, <1>8 DEF Watch, FindStaleLock, PollAgain, ExpireBetweenChecks, Waiting, AtPoll, Undisturbed
  <2>3. QED
    BY <1>5, <2>1, <2>2 DEF Ended, Before, Waiting, Resolved, Joined
<1>9. CASE Expire(s)
  <2>1. pc[s] = "waitCheck" /\ pc[s] \in Waiting /\ UNCHANGED <<mem, since, plan>>
    BY <1>9 DEF Expire, Waiting
  <2>2. Joined(rec[s], s)
    BY <1>3, <1>5, <2>1 DEF Resolved
  <2>3. rec' = rec /\ pc'[s] \in {"stopped", "polling"}
    BY <1>3, <1>5, <1>9, <2>1, <2>2 DEF Expire, AtDeadline
  <2>4. QED
    BY <1>5, <2>1, <2>3 DEF Ended, Before, Waiting, Resolved, Joined
<1>10. CASE LeaveWait(s)
  <2>1. plan[s].stage = "none" /\ rec[s].status # "ready"
    BY <1>3, <1>5, <1>10 DEF LeaveWait, Ended, Waiting
  <2>2. /\ UNCHANGED <<rec, plan>> /\ pc'[s] \in {"none", "late", "failing"}
        /\ pc'[s] # "none" => mem'[s] = rec[s]
    BY <1>10 DEF LeaveWait, Report, Reread
  <2>3. QED
    BY <2>1, <2>2 DEF Ended, Before, Waiting
<1>11. CASE LeadOrReport(s)
  <2>1. plan[s].stage = "none" /\ rec[s].status # "ready" /\ Resolved(rec[s], s)
    BY <1>3, <1>5, <1>11 DEF LeadOrReport, Ended, Waiting
  <2>2. UNCHANGED <<rec, plan>> /\ pc'[s] = "finishing" /\ mem'[s] = rec[s]
    BY <1>11, <2>1 DEF LeadOrReport, Reread
  <2>3. QED
    BY <2>1, <2>2 DEF Ended, Before, Waiting
<1>12. QED
  BY <1>6, <1>7, <1>8, <1>9, <1>10, <1>11 DEF WaitStep

(* ... and its command ends with the record showing the attempt, or done.     *)
LEMMA ReplayedEnds ==
  ASSUME TypeOK, NEW s \in Sessions, Replayed(s), EndStep(s), ~LandAlone(s)
  PROVE  plan' = plan => Replayed(s)'
<1> USE DEF TypeOK, Goto, batchVars, memory, Shows
<1>1. /\ rec[s] \in Record /\ mem[s] \in Record /\ pc'[s] \notin Batching
      /\ Shows(mem[s]) /\ (pc[s] # "failing" => Shows(rec[s]))
  BY DEF EndStep, RecordAlone, FailOwn, SaveFailure, Unlock, Report, SaveLate, Batching, Replayed
<1>2. CASE RecordAlone(s)
  <2>1. /\ Shows(mem'[s]) /\ Shows(rec'[s])
    BY <1>1, <1>2 DEF RecordAlone, Record
  <2>2. QED
    BY <1>1, <2>1 DEF Replayed
<1>3. CASE FailOwn(s)
  <2>1. \A u \in {"ready", "failed"} :
          /\ Shows([mem[s] EXCEPT !.started = TRUE, !.status = u])
          /\ Shows([mem[s] EXCEPT !.status = u])
    BY <1>1 DEF Record
  <2>2. rec' = rec /\ pc'[s] = "failing"
    BY <1>3 DEF FailOwn
  <2>3. Shows(mem'[s])
    <3> HIDE DEF Shows
    <3>1. QED
      BY <1>1, <1>3, <2>1 DEF FailOwn
  <2>4. QED
    BY <1>1, <2>2, <2>3 DEF Replayed
<1>4. CASE SaveFailure(s)
  <2>1. Shows(mem'[s]) /\ rec'[s] = mem'[s]
    BY <1>1, <1>4 DEF SaveFailure, Record
  <2>2. QED
    BY <1>1, <2>1 DEF Replayed
<1>5. CASE Unlock(s)
  <2>1. rec' = rec /\ pc[s] \in {"unlocking", "finishing"} /\ (mem' = mem \/ pc'[s] = "none")
    BY <1>5 DEF Unlock, Report
  <2>2. QED
    BY <1>1, <2>1 DEF Replayed
<1>6. CASE SaveLate(s)
  <2>1. rec'[s] = mem[s] /\ (mem' = mem \/ pc'[s] = "none")
    BY <1>6 DEF SaveLate
  <2>2. QED
    BY <1>1, <2>1 DEF Replayed
<1>7. QED
  BY <1>2, <1>3, <1>4, <1>5, <1>6 DEF EndStep

LEMMA LandingsEnd ==
  ASSUME TypeOK, Owned, Results, Claims, Landings, NEW s \in Sessions, EndStep(s)
  PROVE  Landings'
<1> USE DEF TypeOK, Goto, batchVars, memory
<1>1. /\ Own(s) /\ plan' = plan /\ landed' \subseteq landed \cup {s}
      /\ pc[s] \in {"leading", "alone", "directLanded", "aloneLanded", "failing", "unlocking", "finishing", "unlocked", "late"}
  BY DEF EndStep, LandAlone, RecordAlone, FailOwn, SaveFailure, Unlock, Report, SaveLate, Own, Vanish,
         Batching
<1>2. plan[s].stage = "none"
  BY <1>1, PlannedWaits DEF Claimant, Waiting, Batching
<1>3. SUFFICES ASSUME s \in landed', LandAlone(s) \/ Ended(s) PROVE Known(s)'
  <2>1. LandAlone(s) \/ landed' = landed
    BY DEF EndStep, RecordAlone, FailOwn, SaveFailure, Unlock, SaveLate
  <2>2. s \in landed' => LandAlone(s) \/ Ended(s) \/ Replayed(s)
    BY <2>1 DEF Landings, Known
  <2>3. QED
    BY <1>1, <1>2, <2>2, OwnLands, ReplayedEnds DEF Known
<1>4. CASE LandAlone(s)
  <2>1. /\ pc'[s] \in {"directLanded", "aloneLanded"}
        /\ mem'[s].status = "succeeded" /\ mem'[s].started
    <3>1. mem[s] \in Record
      OBVIOUS
    <3>2. QED
      BY <1>4, <3>1 DEF LandAlone, Record
  <2>2. QED
    BY <1>1, <1>2, <2>1 DEF Known, Ended, Before, Waiting
<1>5. ASSUME ~LandAlone(s)
      PROVE  Ended(s) /\ mem[s].status # "ready"
             /\ pc[s] \notin {"leading", "alone"} /\ (pc[s] \notin {"directLanded", "aloneLanded", "failing"} => rec[s].status # "ready")
  <2>1. landed' = landed
    BY <1>5 DEF EndStep, RecordAlone, FailOwn, SaveFailure, Unlock, SaveLate
  <2>2. Ended(s)
    BY <1>3, <1>5
  <2>3. QED
    BY <1>1, <1>2, <2>2 DEF Ended, Before, Waiting
<1>6. CASE RecordAlone(s)
  <2>1. /\ pc'[s] \in {"finishing", "failing"}
        /\ pc'[s] = "finishing" => rec'[s] = mem[s]
    BY <1>6 DEF RecordAlone
  <2>2. Ended(s) /\ mem[s].status # "ready" /\ mem[s] \in Record
    BY <1>5, <1>6 DEF RecordAlone, LandAlone
  <2>3. CASE mem'[s].status # "ready"
    BY <1>1, <1>2, <2>1, <2>2, <2>3 DEF Known, Ended, Before, Waiting
  <2>4. CASE mem'[s].status = "ready"
    <3>1. /\ pc[s] = "directLanded" /\ pc'[s] = "failing"
          /\ mem'[s] = [mem[s] EXCEPT !.status = "ready", !.replay = TRUE]
      <4>1. [mem[s] EXCEPT !.status = "failed"].status = "failed"
        BY <2>2 DEF Record
      <4>2. QED
        BY <1>6, <2>2, <2>4, <4>1 DEF RecordAlone
    <3>2. mem[s].started
      BY <2>2, <3>1 DEF Ended
    <3>3. Shows(mem'[s])
      BY <2>2, <3>1, <3>2 DEF Shows, Record
    <3>4. QED
      BY <1>1, <1>2, <3>1, <3>3 DEF Known, Replayed, Batching
  <2>5. QED
    BY <2>3, <2>4
<1>7. CASE SaveFailure(s)
  <2>1. pc'[s] = "unlocking" /\ mem'[s].status = mem[s].status /\ rec'[s] = mem'[s]
    BY <1>7 DEF SaveFailure, Record
  <2>2. mem[s].status # "ready"
    BY <1>5, <1>7 DEF SaveFailure, LandAlone
  <2>3. QED
    BY <1>1, <1>2, <2>1, <2>2 DEF Known, Ended, Before, Waiting
<1>8. CASE Unlock(s)
  <2>1. /\ pc[s] \in {"unlocking", "finishing"} /\ rec' = rec /\ pc'[s] \in {"unlocked", "late", "none"}
        /\ pc'[s] # "none" => mem'[s] = mem[s]
    BY <1>8 DEF Unlock, Report
  <2>2. mem[s].status # "ready" /\ rec[s].status # "ready"
    BY <1>5, <2>1 DEF LandAlone
  <2>3. QED
    BY <1>1, <1>2, <2>1, <2>2 DEF Known, Ended, Before, Waiting
<1>9. CASE SaveLate(s)
  <2>1. /\ pc[s] \in {"unlocked", "late"} /\ rec'[s] = mem[s] /\ pc'[s] \in {"late", "none"}
        /\ pc'[s] # "none" => mem'[s] = mem[s]
    BY <1>9 DEF SaveLate
  <2>2. mem[s].status # "ready"
    BY <1>5, <2>1 DEF LandAlone
  <2>3. QED
    BY <1>1, <1>2, <2>1, <2>2 DEF Known, Ended, Before, Waiting
<1>10. CASE FailOwn(s)
  BY <1>5, <1>10 DEF FailOwn, LandAlone, Ended
<1>11. QED
  BY <1>4, <1>6, <1>7, <1>8, <1>9, <1>10 DEF EndStep

(* A leader whose step changes what is known of one session only.             *)
LEMMA LeadLands ==
  ASSUME TypeOK, Owned, Results, Claims, Landings, NEW l \in Sessions, LeadStep(l), pc[l] \in Batching,
         NEW s \in Sessions, landed' = landed, l = s \/ l \notin landed \/ pc'[l] = pc[l],
         \A x \in Sessions \ {s} :
           rec'[x] = rec[x] /\ mem'[x] = mem[x] /\ copy'[x] = copy[x] /\ plan'[x] = plan[x],
         s \in landed => Known(s)' /\ (plan'[s].stage # "none" => Held(l, s)'.status # "ready"),
         plan'[s].stage \in {"staging", "staged"} => plan'[s].outcome \in Done
  PROVE  Landings'
<1> USE DEF TypeOK, Landings
<1>1. /\ \A x \in Sessions \ {l} : pc[x] \notin Inside /\ pc'[x] = pc[x]
      /\ since' = since
  BY LeadFrame
<1>2. ASSUME NEW x \in landed' PROVE Known(x)'
  <2>1. CASE x # s
    <3>1. x \in Sessions /\ Known(x) /\ pc'[x] = pc[x]
      BY <1>1, <1>2, <2>1
    <3>2. QED
      BY <1>1, <2>1, <3>1 DEF Known, Replayed, Ended, Resolved, Joined
  <2>2. QED
    BY <1>2, <2>1
<1>3. ASSUME NEW m \in Sessions, NEW x \in landed', pc'[m] \in Batching, plan'[x].stage # "none"
      PROVE  Held(m, x)'.status # "ready"
  <2>1. m = l /\ x \in landed
    BY <1>1, <1>3 DEF Inside
  <2>2. CASE x # s
    BY <1>3, <2>1, <2>2 DEF Held
  <2>3. QED
    BY <2>1, <2>2, <1>3
<1>4. QED
  BY <1>2, <1>3

(* A leader without a plan before and after its step.                         *)
LEMMA PlanlessLands ==
  ASSUME TypeOK, Owned, Results, Claims, Landings, NEW l \in Sessions, LeadStep(l),
         \A x \in Sessions : plan[x].stage = "none" /\ plan'[x].stage = "none",
         UNCHANGED <<rec, mem, landed>>, l \in landed => Known(l)'
  PROVE  Landings'
<1> USE DEF TypeOK, Landings
<1>1. \A x \in Sessions \ {l} : pc[x] \notin Inside /\ pc'[x] = pc[x] /\ since' = since
  BY LeadFrame
<1>2. ASSUME NEW x \in landed', x # l PROVE Known(x)'
  <2>1. Known(x) /\ pc'[x] = pc[x] /\ since' = since /\ x \in Sessions
    BY <1>1, <1>2
  <2>2. QED
    BY <2>1 DEF Known, Replayed, Ended, Resolved, Joined
<1>3. QED
  BY <1>2

LEMMA LandingsLead ==
  ASSUME Undisturbed, TypeOK, Owned, Results, Claims, Landings, NEW l \in Sessions, LeadStep(l)
  PROVE  Landings'
<1> USE DEF TypeOK, Goto, batchVars, memory
<1>1. /\ \A x \in Sessions \ {l} : pc[x] \notin Inside /\ pc'[x] = pc[x]
      /\ since' = since
  BY LeadFrame
<1>2. /\ l \in landed => pc[l] \notin {"joining", "claiming"} /\ (pc[l] = "leading" => Replayed(l))
      /\ \A x \in Sessions : plan[x].stage \in {"open", "staging", "staged"} => x \notin landed
      /\ \A x \in group : x \notin landed /\ plan[x].stage \in {"staging", "staged"}
                          /\ plan[x].outcome \in Done
  BY DEF Landings, Known, Replayed, Ended, Results, PlanHasLeader, Batching
<1>3. CASE StartBatch(l) \/ ReadCandidates(l) \/ SkipBatch(l)
  <2>1. UNCHANGED <<rec, mem, plan, landed>> /\ pc[l] \in {"leading", "joining"}
    BY <1>3 DEF StartBatch, ReadCandidates, SkipBatch
  <2>2. \A x \in Sessions : plan[x].stage = "none"
    BY <1>1, <2>1 DEF Results, PlanHasLeader, Settling, Inside, Batching
  <2>3. l \in landed => Known(l)'
    <3>1. ASSUME l \in landed PROVE Replayed(l) /\ pc'[l] = "alone"
      <4>1. Replayed(l) /\ mem[l].started /\ pc[l] = "leading"
        BY <1>2, <2>1, <3>1 DEF Replayed, Shows
      <4>2. QED
        BY <1>3, <4>1 DEF StartBatch, CanLead, ReadCandidates, SkipBatch
    <3>2. QED
      BY <2>1, <2>2, <3>1 DEF Known, Replayed, Batching
  <2>4. QED
    BY <2>1, <2>2, <2>3, PlanlessLands
<1>4. CASE Claim(l)
  <2>1. pc[l] = "claiming" /\ pc' = pc /\ landed' = landed /\ mem' = mem
    BY <1>4 DEF Claim
  <2>2. PICK s \in Sessions, e \in BatchEntry : Claimed(l, s, e) \/ UNCHANGED <<rec, copy, plan>>
    BY <1>4, ClaimOne
  <2>3. CASE UNCHANGED <<rec, copy, plan>>
    <3>1. s \in landed => Known(s)' /\ (plan'[s].stage # "none" => Held(l, s)'.status # "ready")
      BY <1>1, <2>1, <2>3 DEF Landings, Known, Replayed, Ended, Resolved, Joined, Held, Batching
    <3>2. QED
      BY <2>1, <2>3, <3>1, LeadLands DEF Batching, Landings
  <2>4. CASE Claimed(l, s, e)
    <3>1. /\ s # l /\ rec[s].status = "ready" /\ Alive(s, rec[s].wait)
          /\ rec[s].batch.outcome \in {"none", "released"} /\ ~rec[s].started
          /\ plan'[s].stage = "open"
          /\ \A x \in Sessions \ {s} : rec'[x] = rec[x] /\ copy'[x] = copy[x] /\ plan'[x] = plan[x]
      BY <2>4 DEF Claimed, Claimable, NoBatch
    <3>2. plan[s].stage = "none"
      <4>1. plan[s].stage # "none" => Claimant(l, s)
        BY <2>1, <3>1, LeaderKnows DEF Batching
      <4>2. QED
        BY <3>1, <4>1 DEF Claimant, Entry
    <3>3. pc[s] \in Waiting
      <4>1. Tidy(s) /\ pc[s] # "none" /\ pc[s] \notin Inside /\ rec[s].wait = run[s]
        BY <1>1, <3>1 DEF Claims, Alive
      <4>2. QED
        BY <3>1, <4>1 DEF Tidy, Before, Final, Done, Inside
    <3>4. s \notin landed
      BY <3>1, <3>2, <3>3 DEF Landings, Known, Replayed, Shows, Ended, Waiting
    <3>5. QED
      BY <2>1, <3>1, <3>4, LeadLands DEF Batching
  <2>5. QED
    BY <2>2, <2>3, <2>4
<1>5. CASE EndClaims(l)
  <2>1. pc[l] = "claiming" /\ landed' = landed /\ copy' = copy /\ l \notin landed
    BY <1>2, <1>5 DEF EndClaims
  <2>2. CASE Members(l) = {}
    <3>1. \A x \in Sessions : plan[x].stage = "none"
      BY <2>1, <2>2 DEF Members, Results, PlanHasLeader
    <3>2. UNCHANGED <<rec, mem, plan>>
      BY <1>5, <2>2 DEF EndClaims
    <3>3. QED
      BY <2>1, <3>1, <3>2, PlanlessLands
  <2>3. CASE Members(l) # {}
    <3>1. /\ \A x \in Sessions \ {l} : rec'[x] = rec[x] /\ mem'[x] = mem[x] /\ plan'[x] = plan[x]
          /\ plan'[l].stage = "open"
      BY <1>5, <2>3 DEF EndClaims
    <3>2. QED
      BY <2>1, <3>1, LeadLands DEF Batching
  <2>4. QED
    BY <2>2, <2>3
<1>6. ASSUME NEW s \in Sessions,
             SaveMember(l, s) \/ RecordStaged(l, s) \/ FailAlone(l, s) \/ Exclude(l, s)
      PROVE  Landings'
  <2>1. /\ s \notin landed /\ pc[l] = "processing" /\ pc' = pc /\ landed' = landed
        /\ \A x \in Sessions \ {s} :
             rec'[x] = rec[x] /\ mem'[x] = mem[x] /\ copy'[x] = copy[x] /\ plan'[x] = plan[x]
    BY <1>2, <1>6 DEF SaveMember, RecordStaged, FailAlone, Exclude, Hold
  <2>2. plan'[s].stage \in {"staging", "staged"} => plan'[s].outcome \in Done
    <3>1. CASE SaveMember(l, s)
      BY <3>1 DEF SaveMember, Landings
    <3>2. CASE RecordStaged(l, s)
      BY <3>2 DEF RecordStaged, Landings, Plan
    <3>3. CASE FailAlone(l, s) \/ Exclude(l, s)
      BY <3>3 DEF FailAlone, Exclude
    <3>4. QED
      BY <1>6, <3>1, <3>2, <3>3
  <2>3. QED
    BY <2>1, <2>2, LeadLands DEF Batching
<1>7. ASSUME NEW s \in Sessions, RecordResult(l, s) PROVE Landings'
  <2> DEFINE h == Held(l, s)
             r == [h EXCEPT !.wait = IF s # l /\ h.status = "failed" THEN 0 ELSE @]
  <2>1. Hold(l, s, r) /\ rec' = [rec EXCEPT ![s] = r]
    BY <1>7 DEF RecordResult
  <2>2. h \in Record /\ r.status = h.status
    <3>1. h \in Record
      BY HeldType
    <3> HIDE DEF h
    <3>2. QED
      BY <3>1 DEF Record
  <2> HIDE DEF r
  <2>3. /\ pc[l] \in {"processing", "stopping"} /\ pc' = pc /\ landed' = landed
        /\ plan[s].stage = "decided" /\ plan' = [plan EXCEPT ![s].stage = "recorded"]
    BY <1>7 DEF RecordResult, Recording
  <2>4. plan'[s].stage = "recorded" /\ plan'[s].outcome = plan[s].outcome
    BY <2>3 DEF Plan
  <2>5. \A x \in Sessions \ {s} :
          rec'[x] = rec[x] /\ mem'[x] = mem[x] /\ copy'[x] = copy[x] /\ plan'[x] = plan[x]
    BY <2>1, <2>3 DEF Hold
  <2>6. Held(l, s)' = r
    BY <2>1 DEF Hold, Held
  <2>7. ASSUME s \in landed PROVE Known(s)' /\ r.status # "ready"
    <3>1. Ended(s) /\ h.status # "ready"
      BY <2>3, <2>7 DEF Landings, Known, Replayed, Batching
    <3>2. pc[s] \in Waiting \/ s = l
      BY <2>3, LeaderKnows DEF Claimant, Batching
    <3>3. QED
      BY <2>2, <2>3, <2>4, <3>1, <3>2 DEF Known, Ended, Before, Waiting
  <2>8. QED
    BY <2>3, <2>4, <2>5, <2>6, <2>7, LeadLands DEF Batching
<1>8. ASSUME NEW s \in Sessions, Settle(l, s) PROVE Landings'
  <2> DEFINE h == Held(l, s)
             r == [h EXCEPT !.batch.outcome = plan[s].outcome,
                            !.wait = IF s # l /\ plan[s].outcome \in {"batched", "isolated"} THEN 0 ELSE @]
  <2>1. Hold(l, s, r) /\ rec' = [rec EXCEPT ![s] = r]
    BY <1>8 DEF Settle
  <2>2. /\ h \in Record /\ r.status = h.status /\ r.batch.outcome = plan[s].outcome
        /\ r.batch.leader = h.batch.leader /\ r.batch.id = h.batch.id
    <3>1. h \in Record
      BY HeldType
    <3> HIDE DEF h
    <3>2. QED
      BY <3>1 DEF Record, BatchEntry
  <2> HIDE DEF r
  <2>3. /\ pc[l] \in {"processing", "stopping"} /\ pc' = pc /\ landed' = landed
        /\ plan[s].stage = "recorded" /\ plan' = [plan EXCEPT ![s] = NoPlan]
    BY <1>8 DEF Settle, Recording
  <2>4. plan'[s].stage = "none"
    BY <2>3 DEF NoPlan
  <2>5. \A x \in Sessions \ {s} :
          rec'[x] = rec[x] /\ mem'[x] = mem[x] /\ copy'[x] = copy[x] /\ plan'[x] = plan[x]
    BY <2>1, <2>3 DEF Hold
  <2>6. rec'[s] = r /\ (s = l => mem'[s] = r)
    BY <2>1 DEF Hold
  <2>7. ASSUME s \in landed PROVE Known(s)'
    <3>1. Ended(s) /\ h.status # "ready" /\ plan[s].outcome \in Done
      BY <2>3, <2>7 DEF Landings, Known, Replayed, Ended, Batching
    <3>2. CASE s = l
      BY <2>2, <2>3, <2>4, <2>6, <3>1, <3>2 DEF Known, Ended, Before, Waiting
    <3>3. CASE s # l
      <4>1. Claimant(l, s) /\ h = copy[s]
        BY <2>3, <3>3, LeaderKnows DEF Held, Batching
      <4>2. pc[s] \in Waiting /\ r.batch.leader = l /\ r.batch.id = batches /\ since[s] <= batches
        BY <2>2, <4>1 DEF Claimant, Entry
      <4>3. Resolved(rec[s], s)'
        BY <1>1, <2>2, <2>6, <3>1, <3>3, <4>2, ConstantsAssumption DEF Resolved, Joined, Done
      <4>4. QED
        BY <2>2, <2>3, <2>4, <2>6, <3>1, <4>2, <4>3 DEF Known, Ended, Before, Waiting
    <3>4. QED
      BY <3>2, <3>3
  <2>8. QED
    BY <2>3, <2>4, <2>5, <2>7, LeadLands DEF Batching
<1>9. CASE EndBatch(l)
  <2>1. /\ pc[l] \in {"processing", "stopping"} /\ UNCHANGED <<rec, mem, landed>>
        /\ plan' = [x \in Sessions |-> NoPlan] /\ \A x \in Sessions : plan[x] = NoPlan
        /\ \/ pc'[l] \in {"finishing", "failing"}
           \/ pc'[l] = "alone" /\ mem[l].batch.outcome \in {"excluded", "released"}
    BY <1>9 DEF EndBatch, Forget, AllSettled, Recording
  <2>2. \A x \in Sessions : plan[x].stage = "none" /\ plan'[x].stage = "none"
    BY <2>1 DEF NoPlan
  <2>3. ASSUME l \in landed PROVE Known(l)'
    <3>1. mem[l].status # "ready" /\ mem[l].batch.outcome \in Done /\ rec[l].status # "ready"
      BY <2>1, <2>2, <2>3 DEF Landings, Known, Replayed, Ended, Batching
    <3>2. pc'[l] \in {"finishing", "failing"}
      BY <2>1, <3>1 DEF Done
    <3>3. QED
      BY <2>1, <2>2, <3>1, <3>2 DEF Known, Ended, Before, Waiting
  <2>4. QED
    BY <2>1, <2>2, <2>3, PlanlessLands
<1>10. CASE \E g \in SUBSET At({"open"}) : Stage(l, g)
  <2>1. PICK g \in SUBSET At({"open"}) : Stage(l, g)
    BY <1>10
  <2>2. UNCHANGED <<rec, mem, copy, pc, landed>> /\ pc[l] = "processing"
    BY <2>1 DEF Stage
  <2>3. \A x \in Sessions : \/ plan'[x] = plan[x]
                            \/ x \notin landed /\ plan'[x].outcome \in Done
    BY <1>2, <2>1 DEF Stage, At, Done
  <2>4. QED
    BY <1>1, <2>2, <2>3 DEF Landings, Known, Replayed, Ended, Resolved, Joined, Held
<1>11. CASE Promote(l) \/ Block(l)
  <2>1. /\ rec' = rec /\ pc[l] = "processing" /\ pc'[l] \in {"processing", "stopping"}
        /\ landed' \in {landed, landed \cup group}
        /\ \E bad \in SUBSET group : Decide(l, bad)
    BY <1>11 DEF Promote, Block
  <2>2. PICK bad \in SUBSET group : Decide(l, bad)
    BY <2>1
  <2>3. \A x \in Sessions : x \in group => Held(l, x)'.status # "ready"
    <3>1. \A x \in Sessions, t \in {"failed", "succeeded"} : [Held(l, x) EXCEPT !.status = t].status = t
      BY HeldType DEF Record
    <3>2. QED
      BY <2>2, <3>1 DEF Decide, Held
  <2>4. \A x \in Sessions : x \notin group => mem'[x] = mem[x] /\ copy'[x] = copy[x]
    BY <2>2 DEF Decide
  <2>5. \A x \in Sessions : IF x \in group
                            THEN plan'[x].stage = "decided" /\ plan'[x].outcome = plan[x].outcome
                            ELSE plan'[x] = plan[x]
    <3>1. CASE Promote(l)
      BY <3>1 DEF Promote, Plan
    <3>2. CASE Block(l)
      <4>1. \A x \in Sessions : plan[x].stage # "open"
        BY <3>2 DEF Block, Undisturbed, At
      <4>2. QED
        BY <3>2, <4>1 DEF Block, Plan
    <3>3. QED
      BY <1>11, <3>1, <3>2
  <2>6. ASSUME NEW x \in landed' PROVE Known(x)'
    <3>1. x \in Sessions /\ (x \in group \/ x \in landed)
      BY <2>1, <2>6
    <3>2. CASE x \in group
      <4>1. pc[x] \in Waiting \/ x = l
        BY <1>2, <2>1, <3>1, <3>2, LeaderKnows DEF Claimant, Batching
      <4>2. pc'[x] \in Waiting \/ pc'[x] \in {"processing", "stopping"}
        BY <1>1, <2>1, <3>1, <4>1
      <4>3. QED
        BY <1>2, <2>5, <3>1, <3>2, <4>2 DEF Known, Ended, Before, Waiting
    <3>3. CASE x \notin group
      <4>1. Known(x) /\ plan'[x] = plan[x] /\ rec'[x] = rec[x] /\ mem'[x] = mem[x]
        BY <2>1, <2>4, <2>5, <3>1, <3>3 DEF Landings
      <4>2. CASE x = l
        BY <2>1, <4>1, <4>2 DEF Known, Replayed, Ended, Before, Waiting, Batching
      <4>3. CASE x # l
        <5>1. pc'[x] = pc[x]
          BY <1>1, <3>1, <4>3
        <5>2. QED
          BY <1>1, <4>1, <5>1 DEF Known, Replayed, Ended, Resolved, Joined
      <4>4. QED
        BY <4>2, <4>3
    <3>4. QED
      BY <3>2, <3>3
  <2>7. ASSUME NEW m \in Sessions, NEW x \in landed', pc'[m] \in Batching, plan'[x].stage # "none"
        PROVE  Held(m, x)'.status # "ready"
    <3>1. m = l /\ x \in Sessions /\ (x \in group \/ x \in landed)
      BY <1>1, <2>1, <2>7 DEF Inside
    <3>2. CASE x \notin group
      <4>1. plan[x].stage # "none" /\ x \in landed
        BY <2>5, <2>7, <3>1, <3>2
      <4>2. Held(l, x).status # "ready" /\ Held(l, x)' = Held(l, x)
        BY <2>1, <2>4, <3>1, <3>2, <4>1 DEF Landings, Batching, Held
      <4>3. QED
        BY <3>1, <4>2
    <3>3. QED
      BY <2>3, <3>1, <3>2
  <2>8. QED
    BY <2>5, <2>6, <2>7 DEF Landings
<1>12. ~StopEarly(l)
  BY DEF StopEarly, Undisturbed
<1>13. QED
  BY <1>3, <1>4, <1>5, <1>6, <1>7, <1>8, <1>9, <1>10, <1>11, <1>12 DEF LeadStep

LEMMA LandingsNext ==
  ASSUME Undisturbed
  PROVE  TypeOK /\ Owned /\ Results /\ Claims /\ Landings /\ [Next]_vars => Landings'
<1> SUFFICES ASSUME TypeOK, Owned, Results, Claims, Landings, [Next]_vars PROVE Landings'
  OBVIOUS
<1>1. CASE UNCHANGED vars
  BY <1>1 DEF vars, Landings, Known, Replayed, Ended, Resolved, Joined, Held
<1>2. ASSUME NEW s \in Sessions, Begin(s) \/ WaitStep(s) \/ LeadStep(s) \/ EndStep(s) PROVE Landings'
  BY <1>2, LandingsWait, LandingsLead, LandingsEnd
<1>3. (\A s \in Sessions : ~Crash(s)) /\ ~RemoveStaleLock
  BY NoStaleLock DEF Crash, Undisturbed, TypeOK, RemoveStaleLock
<1>4. QED
  BY <1>1, <1>2, <1>3 DEF Next

(* When no command runs any more, a session whose commit is in the target     *)
(* reads as ready only if its replay on a moved shared target failed, and     *)
(* then its record shows the attempt, so that no leader claims it again.      *)
THEOREM LandedIsKnown == Undisturbed => (Spec => []LandedIsRecorded)
<1> SUFFICES ASSUME Undisturbed PROVE Spec => []LandedIsRecorded
  OBVIOUS
<1>1. Init => TypeOK /\ Owned /\ Results /\ Claims /\ Landings
  <2>1. Init => Owned /\ Landings
    BY DEF Init, Owned, Inside, Batching, Landings, NoPlan
  <2>2. QED
    BY <2>1, TypeInit, ResultsInit, ClaimsInit
<1>2. TypeOK /\ Results /\ Landings => LandedIsRecorded
  BY DEF TypeOK, Results, PlanHasLeader, Settling, Landings, Known, Replayed, Shows, Ended, LandedIsRecorded
<1>3. QED
  BY <1>1, <1>2, TypeNext, OwnedNext, ResultsNext, ClaimsNext, LandingsNext, PTL DEF Spec
==============================================================================
