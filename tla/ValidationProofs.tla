--------------------------- MODULE ValidationProofs ---------------------------
(***************************************************************************)
(* Proofs about Validation for any processes, plans, commands and keys,    *)
(* and about ValidationPlan for any tiers, sessions and paths.             *)
(***************************************************************************)
EXTENDS Validation, ValidationPlan, FiniteSetTheorems, WellFoundedInduction, TLAPS

(* What a task asks for: the commands of a plan want known keys, and do    *)
(* not want one both ways.                                                 *)
LEMMA PlannedCommands ==
  /\ \A p \in Processes :
       /\ Planned(p) \subseteq Commands
       /\ \A i \in DOMAIN Plan[p] : Plan[p][i] \subseteq Planned(p)
       /\ \A c \in Planned(p) : IsValidationCommand(c) /\ <<p, c>> \in Tasks
  /\ \A t \in Tasks :
       /\ Owner(t) \in Processes /\ Command(t) \in Commands
       /\ Command(t) \in Planned(Owner(t)) /\ t = <<Owner(t), Command(t)>>
       /\ DOMAIN Modes(Command(t)) \subseteq Keys
       /\ \A k \in DOMAIN Modes(Command(t)) :
            Modes(Command(t))[k] \in {"shared", "exclusive"}
<1>1. ASSUME NEW p \in Processes
      PROVE  /\ Planned(p) \subseteq Commands
             /\ \A i \in DOMAIN Plan[p] : Plan[p][i] \subseteq Planned(p)
             /\ \A c \in Planned(p) : IsValidationCommand(c) /\ <<p, c>> \in Tasks
  <2>1. Plan[p] \in Seq(SUBSET Commands) /\ IsValidationStepList(Plan[p])
    BY ValidationAssumption
  <2>2. \A i \in DOMAIN Plan[p] : Plan[p][i] \subseteq Commands
    BY <2>1
  <2>3. \A c \in Planned(p) : IsValidationCommand(c) /\ c \in Commands
    <3>1. SUFFICES ASSUME NEW i \in DOMAIN Plan[p], NEW c \in Plan[p][i]
                   PROVE  IsValidationCommand(c) /\ c \in Commands
      BY DEF Planned
    <3>2. QED
      BY <2>1, <2>2 DEF IsValidationStepList
  <2>4. \A c \in Planned(p) : <<p, c>> \in Tasks
    BY <2>3 DEF Tasks, Owner, Command
  <2>5. QED
    BY <2>3, <2>4 DEF Planned
<1>2. ASSUME NEW t \in Tasks
      PROVE  /\ Owner(t) \in Processes /\ Command(t) \in Commands
             /\ Command(t) \in Planned(Owner(t)) /\ t = <<Owner(t), Command(t)>>
  BY DEF Tasks, Owner, Command
<1>3. ASSUME NEW t \in Tasks
      PROVE  /\ DOMAIN Modes(Command(t)) \subseteq Keys
             /\ \A k \in DOMAIN Modes(Command(t)) :
                  Modes(Command(t))[k] \in {"shared", "exclusive"}
  <2>1. IsValidationCommand(Command(t))
    BY <1>1, <1>2
  <2>2. QED
    BY <2>1 DEF IsValidationCommand, Modes
<1>4. QED
  BY <1>1, <1>2, <1>3

(* The requests of a task have a first key.                                *)
LEMMA FirstKey ==
  ASSUME NEW t \in Tasks, Missing(t) # {}
  PROVE  NextKey(t) \in Missing(t)
<1>1. Missing(t) \subseteq Nat
  BY PlannedCommands, ValidationAssumption DEF Missing
<1>2. \A j, k \in Nat : <<j, k>> \in OpToRel(<, Nat) <=> j < k
  BY SMT DEF OpToRel
<1> DEFINE less == OpToRel(<, Nat)
<1>3. IsWellFoundedOn(less, Nat) /\ \A j, k \in Nat : <<j, k>> \in less <=> j < k
  BY <1>2, NatLessThanWellFounded
<1> HIDE DEF less
<1>4. \E k \in Missing(t) : \A j \in Missing(t) : ~(<<j, k>> \in less)
  BY <1>1, <1>3, WFMin
<1>5. \E k \in Missing(t) : \A j \in Missing(t) : k <= j
  <2>1. PICK k \in Missing(t) : \A j \in Missing(t) : ~(<<j, k>> \in less)
    BY <1>4
  <2>2. ASSUME NEW j \in Missing(t) PROVE k <= j
    <3>1. k \in Nat /\ j \in Nat /\ ~(j < k)
      BY <1>1, <1>3, <2>1
    <3>2. QED
      BY <3>1
  <2>3. QED
    BY <2>2
<1>6. QED
  BY <1>5 DEF NextKey

-----------------------------------------------------------------------------
(* Leases.  A task that acquires misses a key; one that queues or runs has *)
(* all; a lease says what its command asks for, and those of live tasks    *)
(* are compatible.                                                         *)
Wanting ==
  \A t \in Tasks : IsAlive(Owner(t)) =>
    /\ step[t] \in {"acquiring", "deciding"} => Missing(t) # {}
    /\ step[t] \in {"queueing", "running"} => Missing(t) = {}
    /\ step[t] = "backoff" => Held(t) = {}

LeasesAsked ==
  \A l \in leases : /\ l.key \in DOMAIN Modes(Command(l.task))
                    /\ l.mode = Modes(Command(l.task))[l.key]

Compatible ==
  \A l, m \in LiveLeases :
    l.key = m.key /\ l.task # m.task => l.mode = "shared" /\ m.mode = "shared"

LeaseInv == TypeOK /\ Wanting /\ LeasesAsked /\ Compatible

LEMMA LeaseInit == Init => LeaseInv
<1> SUFFICES ASSUME Init PROVE LeaseInv
  OBVIOUS
<1>1. TypeOK
  BY ValidationAssumption, PlannedCommands
     DEF Init, TypeOK, Inside, Ended, First
<1>2. Wanting
  BY DEF Init, Wanting, Missing, Held, First
<1>3. LeasesAsked /\ Compatible
  BY DEF Init, LeasesAsked, Compatible, LiveLeases
<1>4. QED
  BY <1>1, <1>2, <1>3 DEF LeaseInv

(* Steps that leave the leases and the steps of the tasks alone, and let   *)
(* no ended process live again.                                            *)
LEMMA ProcessStepLeases ==
  ASSUME LeaseInv, UNCHANGED <<step, leases>>, TypeOK',
         \A p \in Processes : IsAlive(p)' => IsAlive(p)
  PROVE  LeaseInv'
<1>1. \A t \in Tasks : Held(t)' = Held(t) /\ Missing(t)' = Missing(t)
  BY DEF Held, Missing
<1>2. LiveLeases' \subseteq LiveLeases
  BY PlannedCommands DEF LiveLeases, LeaseInv, TypeOK
<1>3. Wanting'
  BY <1>1, PlannedCommands DEF LeaseInv, Wanting
<1>4. LeasesAsked' /\ Compatible'
  BY <1>2 DEF LeaseInv, LeasesAsked, Compatible
<1>5. QED
  BY <1>3, <1>4 DEF LeaseInv

LEMMA TypeStep == TypeOK /\ Wanting /\ [Next]_vars => TypeOK'
<1> SUFFICES ASSUME TypeOK, Wanting, [Next]_vars PROVE TypeOK'
  OBVIOUS
<1> USE PlannedCommands DEF TypeOK, Goto, Go, taskVars, resultVars, Inside, Ended
<1>1. ASSUME NEW p \in Processes, ProcessStep(p) PROVE TypeOK'
  <2>1. CASE EnterReuse(p) \/ LeaveWait(p)
    BY <2>1 DEF EnterReuse, LeaveWait
  <2>2. CASE Check(p)
    <3>1. Available(p) \subseteq Commands
      BY DEF Available
    <3>2. QED
      BY <2>2, <3>1 DEF Check
  <2>3. CASE EndGroup(p)
    BY <2>3 DEF EndGroup
  <2>4. CASE Verify(p) \/ Validated(p)
    BY <2>4 DEF Verify, Validated
  <2>5. CASE Record(p)
    BY <2>5 DEF Record
  <2>6. QED
    BY <1>1, <2>1, <2>2, <2>3, <2>4, <2>5 DEF ProcessStep
<1>2. ASSUME NEW p \in Processes, Abort(p) \/ Die(p) \/ Edit(p) PROVE TypeOK'
  BY <1>2 DEF Abort, Die, Edit
<1>3. ASSUME NEW t \in Tasks, TaskStep(t) PROVE TypeOK'
  <2>1. CASE TakeGate(t)
    BY <2>1 DEF TakeGate
  <2>2. CASE Decide(t)
    <3>1. NextKey(t) \in Missing(t)
      BY <2>2, FirstKey DEF Decide, Wanting, Active, IsAlive
    <3>2. NextKey(t) \in DOMAIN Modes(Command(t))
      BY <3>1 DEF Missing
    <3>3. [key |-> NextKey(t), mode |-> Modes(Command(t))[NextKey(t)], task |-> t]
            \in [key : Keys, mode : {"shared", "exclusive"}, task : Tasks]
      BY <3>2
    <3>4. leases' \subseteq [key : Keys, mode : {"shared", "exclusive"},
            task : Tasks]
      BY <2>2, <3>3 DEF Decide
    <3>5. QED
      BY <2>2, <3>2, <3>4 DEF Decide
  <2>3. CASE Refuse(t) \/ NoSlot(t)
    BY <2>3 DEF Refuse, NoSlot
  <2>4. CASE Run(t)
    BY <2>4 DEF Run
  <2>5. CASE Exit(t) \/ ExitLeaving(t)
    BY <2>5 DEF Exit, ExitLeaving
  <2>6. CASE Release(t) \/ ReleaseFails(t)
    BY <2>6 DEF Release, ReleaseFails
  <2>7. CASE Retry(t)
    BY <2>7 DEF Retry, First
  <2>8. QED
    BY <1>3, <2>1, <2>2, <2>3, <2>4, <2>5, <2>6, <2>7 DEF TaskStep
<1>4. ASSUME NEW t \in Tasks, WorkEnds(t) \/ Recover(t) PROVE TypeOK'
  BY <1>4 DEF WorkEnds, Recover
<1>5. CASE UNCHANGED vars
  BY <1>5 DEF vars
<1>6. QED
  BY <1>1, <1>2, <1>3, <1>4, <1>5 DEF Next

(* What a step of a task must do about its own leases when those of the    *)
(* others and the processes stay.                                          *)
LEMMA OwnStepLeases ==
  ASSUME LeaseInv, TypeOK', NEW t \in Tasks, UNCHANGED <<pc, leases>>,
         \A u \in Tasks \ {t} : step'[u] = step[u],
         step'[t] \in {"acquiring", "deciding"} => Missing(t) # {},
         step'[t] \in {"queueing", "running"} => Missing(t) = {},
         step'[t] = "backoff" => Held(t) = {}
  PROVE  LeaseInv'
<1>1. \A u \in Tasks : Held(u)' = Held(u) /\ Missing(u)' = Missing(u)
                       /\ (IsAlive(Owner(u))' <=> IsAlive(Owner(u)))
  BY DEF Held, Missing, IsAlive
<1>2. Wanting'
  BY <1>1 DEF LeaseInv, Wanting
<1>3. LiveLeases' = LiveLeases
  BY DEF LiveLeases, IsAlive
<1>4. LeasesAsked' /\ Compatible'
  BY <1>3 DEF LeaseInv, LeasesAsked, Compatible
<1>5. QED
  BY <1>2, <1>4 DEF LeaseInv

LEMMA DecideLeases ==
  ASSUME LeaseInv, TypeOK', NEW t \in Tasks, Decide(t)
  PROVE  LeaseInv'
<1> DEFINE k == NextKey(t)
           new == [key |-> k, mode |-> Modes(Command(t))[k], task |-> t]
           stale == {l \in leases : l.key = k /\ l \notin LiveLeases}
<1>1. IsAlive(Owner(t)) /\ step[t] = "deciding"
  BY DEF Decide, Active, IsAlive, Ended, Goto
<1>2. k \in Missing(t) /\ k \in DOMAIN Modes(Command(t)) /\ k \notin Held(t)
  BY <1>1, FirstKey DEF LeaseInv, Wanting, Missing
<1>3. /\ leases' = (leases \ stale) \cup (IF Conflicts(t, k) THEN {} ELSE {new})
      /\ step' = [step EXCEPT ![t] = IF Conflicts(t, k) \/ Missing(t) # {k}
                                     THEN "acquiring" ELSE "queueing"]
      /\ pc' = pc
  BY DEF Decide, Goto
<1>4. new.key = k /\ new.mode = Modes(Command(t))[k] /\ new.task = t
  OBVIOUS
<1>5. \A l \in stale : l \in leases /\ ~IsAlive(Owner(l.task))
  BY DEF LiveLeases
<1>6. \A p : IsAlive(p)' <=> IsAlive(p)
  BY <1>3 DEF IsAlive
<1> HIDE DEF k, new, stale
<1>7. /\ Held(t)' = IF Conflicts(t, k) THEN Held(t) ELSE Held(t) \cup {k}
      /\ \A u \in Tasks \ {t} : IsAlive(Owner(u)) => Held(u)' = Held(u)
  BY <1>1, <1>3, <1>4, <1>5 DEF Held
<1>8. Wanting'
  <2>1. \A u \in Tasks \ {t} : IsAlive(Owner(u)) =>
          /\ Held(u)' = Held(u) /\ Missing(u)' = Missing(u) /\ step'[u] = step[u]
    <3>1. SUFFICES ASSUME NEW u \in Tasks \ {t}, IsAlive(Owner(u))
                   PROVE  Held(u)' = Held(u) /\ step'[u] = step[u]
      BY DEF Missing
    <3>2. Held(u)' = Held(u)
      BY <1>7, <3>1
    <3>3. step'[u] = step[u]
      BY <1>3 DEF LeaseInv, TypeOK
    <3>4. QED
      BY <3>2, <3>3
  <2>2. Missing(t)' = IF Conflicts(t, k) THEN Missing(t) ELSE Missing(t) \ {k}
    BY <1>1, <1>7 DEF Missing
  <2>3. step'[t] = IF Conflicts(t, k) \/ Missing(t) # {k}
                   THEN "acquiring" ELSE "queueing"
    BY <1>3 DEF LeaseInv, TypeOK
  <2>4. QED
    BY <1>2, <1>6, <2>1, <2>2, <2>3 DEF LeaseInv, Wanting
<1>9. LeasesAsked'
  BY <1>2, <1>3, <1>4 DEF LeaseInv, LeasesAsked
<1>10. Compatible'
  <2>1. \A l \in LiveLeases' : l \in LiveLeases \/ (l = new /\ ~Conflicts(t, k))
    BY <1>3, <1>6 DEF LiveLeases
  <2>2. \A l \in LiveLeases : l.key = k /\ ~Conflicts(t, k)
          => l.mode = "shared" /\ new.mode = "shared"
    <3>1. \A l \in LiveLeases : l.mode \in {"shared", "exclusive"}
      BY DEF LiveLeases, LeaseInv, TypeOK
    <3>2. new.mode \in {"shared", "exclusive"}
      BY <1>2, <1>4, PlannedCommands
    <3>3. QED
      BY <1>4, <3>1, <3>2 DEF Conflicts, Live
  <2>3. QED
    BY <1>4, <2>1, <2>2 DEF LeaseInv, Compatible
<1>11. QED
  BY <1>8, <1>9, <1>10 DEF LeaseInv

LEMMA ReleaseLeases ==
  ASSUME LeaseInv, TypeOK', NEW t \in Tasks, Release(t)
  PROVE  LeaseInv'
<1>1. /\ leases' = {l \in leases : l.task # t} /\ pc' = pc
      /\ \E s \in {"passed", "failed", "backoff"} : step' = [step EXCEPT ![t] = s]
  BY DEF Release, Goto
<1>2. Held(t)' = {} /\ \A u \in Tasks \ {t} : Held(u)' = Held(u)
  BY <1>1 DEF Held
<1>3. Wanting'
  <2>1. \A u \in Tasks \ {t} : Missing(u)' = Missing(u) /\ step'[u] = step[u]
    BY <1>1, <1>2 DEF Missing, LeaseInv, TypeOK
  <2>2. step'[t] \in {"passed", "failed", "backoff"}
    BY <1>1 DEF LeaseInv, TypeOK
  <2>3. QED
    BY <1>1, <1>2, <2>1, <2>2 DEF LeaseInv, Wanting, IsAlive
<1>4. LiveLeases' \subseteq LiveLeases
  BY <1>1 DEF LiveLeases, IsAlive
<1>5. LeasesAsked' /\ Compatible'
  BY <1>1, <1>4 DEF LeaseInv, LeasesAsked, Compatible
<1>6. QED
  BY <1>3, <1>5 DEF LeaseInv

LEMMA LeaseStep == LeaseInv /\ [Next]_vars => LeaseInv'
<1> SUFFICES ASSUME LeaseInv, [Next]_vars PROVE LeaseInv'
  OBVIOUS
<1>1. TypeOK'
  BY TypeStep DEF LeaseInv
<1>2. ASSUME NEW p \in Processes,
             ProcessStep(p) \/ Abort(p) \/ Die(p) \/ Edit(p)
      PROVE  LeaseInv'
  <2>1. UNCHANGED <<step, leases>>
    BY <1>2 DEF ProcessStep, EnterReuse, LeaveWait, Check, EndGroup, Verify,
       Record, Validated, Abort, Die, Edit, taskVars
  <2>2. \A q \in Processes : IsAlive(q)' => IsAlive(q)
    BY <1>2 DEF ProcessStep, EnterReuse, LeaveWait, Check, EndGroup, Verify,
       Record, Validated, Abort, Die, Edit, Go, IsAlive, Ended, LeaseInv, TypeOK
  <2>3. QED
    BY <1>1, <2>1, <2>2, ProcessStepLeases
<1>3. ASSUME NEW t \in Tasks, TaskStep(t) PROVE LeaseInv'
  <2> USE DEF Goto
  <2>1. CASE Decide(t)
    BY <1>1, <2>1, DecideLeases
  <2>2. CASE Release(t)
    BY <1>1, <2>2, ReleaseLeases
  <2>3. CASE TakeGate(t) \/ Run(t)
    BY <1>1, <2>3, OwnStepLeases
       DEF TakeGate, Run, LeaseInv, TypeOK, Wanting, Active, IsAlive, Ended
  <2>4. CASE Refuse(t) \/ NoSlot(t) \/ Exit(t) \/ ExitLeaving(t) \/ ReleaseFails(t)
    BY <1>1, <2>4, OwnStepLeases
       DEF Refuse, NoSlot, Exit, ExitLeaving, ReleaseFails, LeaseInv, TypeOK
  <2>5. CASE Retry(t)
    <3>1. Held(t) = {} /\ Missing(t) = DOMAIN Modes(Command(t))
      BY <2>5 DEF Retry, LeaseInv, Wanting, Active, IsAlive, Ended, Missing
    <3>2. QED
      BY <1>1, <2>5, <3>1, OwnStepLeases DEF Retry, First, LeaseInv, TypeOK
  <2>6. QED
    BY <1>3, <2>1, <2>2, <2>3, <2>4, <2>5 DEF TaskStep
<1>4. ASSUME NEW t \in Tasks, WorkEnds(t) \/ Recover(t) PROVE LeaseInv'
  BY <1>1, <1>4, ProcessStepLeases DEF WorkEnds, Recover, IsAlive
<1>5. CASE UNCHANGED vars
  BY <1>1, <1>5, ProcessStepLeases DEF vars, IsAlive
<1>6. QED
  BY <1>2, <1>3, <1>4, <1>5 DEF Next

(* Every variable keeps its type: a lease is of a known key, a gate file   *)
(* of a task, and a task is at one of its steps.                           *)
THEOREM TypeCorrect == Spec => []TypeOK
<1>1. LeaseInv => TypeOK
  BY DEF LeaseInv
<1>2. QED
  BY <1>1, LeaseInit, LeaseStep, PTL DEF Spec

-----------------------------------------------------------------------------
(* What the leases protect: a command that wants keys takes a slot and     *)
(* leaves nothing behind.  Then what runs of it has a slot, whatever died. *)
Covered ==
  \A t \in Tasks : DOMAIN Modes(Command(t)) # {} =>
    Command(t) \notin Leaky /\ Owner(t) \notin Bypass

Working ==
  \A t \in work : DOMAIN Modes(Command(t)) # {} =>
    t \in slots /\ (IsAlive(Owner(t)) => step[t] = "running")

WorkInv == Working /\ ResourcesRespected

LEMMA WorkStep ==
  ASSUME Covered, LeaseInv, LeaseInv', WorkInv, [Next]_vars
  PROVE  WorkInv'
<1> USE DEF WorkInv
<1>1. ASSUME work' \subseteq work PROVE ResourcesRespected'
  BY <1>1 DEF ResourcesRespected
<1>2. ASSUME work' \subseteq work, slots \subseteq slots',
             \A t \in work : IsAlive(Owner(t))' => IsAlive(Owner(t)),
             \A t \in work : step[t] = "running" => step'[t] = "running"
      PROVE  Working'
  BY <1>2 DEF Working
<1>3. ASSUME NEW p \in Processes,
             ProcessStep(p) \/ Abort(p) \/ Die(p) \/ Edit(p)
      PROVE  WorkInv'
  <2>1. UNCHANGED <<step, slots, work>>
    BY <1>3 DEF ProcessStep, EnterReuse, LeaveWait, Check, EndGroup, Verify,
       Record, Validated, Abort, Die, Edit, taskVars
  <2>2. \A q \in Processes : IsAlive(q)' => IsAlive(q)
    BY <1>3 DEF ProcessStep, EnterReuse, LeaveWait, Check, EndGroup, Verify,
       Record, Validated, Abort, Die, Edit, Go, IsAlive, Ended, LeaseInv, TypeOK
  <2>3. work \subseteq Tasks
    BY DEF LeaseInv, TypeOK
  <2>4. QED
    BY <1>1, <1>2, <2>1, <2>2, <2>3, PlannedCommands
<1>4. ASSUME NEW t \in Tasks, Run(t) PROVE WorkInv'
  <2>1. /\ step[t] = "queueing" /\ step' = [step EXCEPT ![t] = "running"]
        /\ work' = work \cup {t} /\ IsAlive(Owner(t)) /\ pc' = pc
        /\ slots' = IF Owner(t) \in Bypass THEN slots ELSE slots \cup {t}
    BY <1>4 DEF Run, Goto, Active, IsAlive, Ended
  <2>2. Working'
    <3>1. t \in work' /\ DOMAIN Modes(Command(t)) # {} => t \in slots'
      BY <2>1 DEF Covered
    <3>2. step'[t] = "running" /\ \A u \in Tasks \ {t} : step'[u] = step[u]
      BY <2>1 DEF LeaseInv, TypeOK
    <3>3. \A u \in work : IsAlive(Owner(u))' <=> IsAlive(Owner(u))
      BY <2>1 DEF IsAlive
    <3>4. work \subseteq Tasks /\ slots \subseteq slots'
      BY <2>1 DEF LeaseInv, TypeOK
    <3>5. QED
      BY <2>1, <3>1, <3>2, <3>3, <3>4 DEF Working
  <2>3. \A k \in DOMAIN Modes(Command(t)) :
          \E l \in LiveLeases : /\ l.key = k /\ l.task = t
                                /\ l.mode = Modes(Command(t))[k]
    BY <2>1 DEF LeaseInv, Wanting, Missing, Held, LeasesAsked, LiveLeases
  <2>4. ASSUME NEW u \in work, u # t, NEW k \in Keys,
               k \in DOMAIN Modes(Command(t)), k \in DOMAIN Modes(Command(u))
        PROVE  Modes(Command(t))[k] = "shared" /\ Modes(Command(u))[k] = "shared"
    <3>1. Owner(t) \notin Bypass /\ Orphans = {}
      BY <1>4, <2>4 DEF Covered, Run, MayRun
    <3>2. u \in Tasks /\ u \in slots /\ IsAlive(Owner(u)) /\ step[u] = "running"
      BY <2>4, <3>1 DEF Working, Orphans, LeaseInv, TypeOK
    <3>3. \E l \in LiveLeases : /\ l.key = k /\ l.task = u
                                /\ l.mode = Modes(Command(u))[k]
      BY <2>4, <3>2 DEF LeaseInv, Wanting, Missing, Held, LeasesAsked, LiveLeases
    <3>4. QED
      BY <2>3, <2>4, <3>3 DEF LeaseInv, Compatible
  <2>5. ResourcesRespected'
    BY <2>1, <2>4 DEF ResourcesRespected
  <2>6. QED
    BY <2>2, <2>5
<1>5. ASSUME NEW t \in Tasks, Exit(t) PROVE WorkInv'
  <2>1. /\ work' = work \ {t} /\ slots' = slots \ {t} /\ pc' = pc
        /\ \A u \in Tasks \ {t} : step'[u] = step[u]
        /\ work \subseteq Tasks
    BY <1>5 DEF Exit, Goto, LeaseInv, TypeOK
  <2>2. Working'
    BY <2>1 DEF Working, IsAlive
  <2>3. QED
    BY <1>1, <2>1, <2>2
<1>6. ASSUME NEW t \in Tasks, ExitLeaving(t) PROVE WorkInv'
  <2>1. /\ UNCHANGED <<work, slots, pc>> /\ Command(t) \in Leaky
        /\ \A u \in Tasks \ {t} : step'[u] = step[u]
        /\ work \subseteq Tasks
    BY <1>6 DEF ExitLeaving, Goto, LeaseInv, TypeOK
  <2>2. Working'
    BY <2>1 DEF Working, IsAlive, Covered
  <2>3. QED
    BY <1>1, <2>1, <2>2
<1>7. ASSUME NEW t \in Tasks,
             \/ TakeGate(t) \/ Decide(t) \/ Refuse(t) \/ NoSlot(t) \/ Release(t)
             \/ ReleaseFails(t) \/ Retry(t)
      PROVE  WorkInv'
  <2>1. UNCHANGED <<work, slots, pc>>
    BY <1>7 DEF TakeGate, Decide, Refuse, NoSlot, Release, ReleaseFails, Retry
  <2>2. \A u \in Tasks : step[u] = "running" => step'[u] = "running"
    BY <1>7 DEF TakeGate, Decide, Refuse, NoSlot, Release, ReleaseFails, Retry,
       Goto, LeaseInv, TypeOK
  <2>3. work \subseteq Tasks /\ \A u \in work : IsAlive(Owner(u))' => IsAlive(Owner(u))
    BY <2>1 DEF LeaseInv, TypeOK, IsAlive
  <2>4. QED
    BY <1>1, <1>2, <2>1, <2>2, <2>3
<1>8. ASSUME NEW t \in Tasks, WorkEnds(t) PROVE WorkInv'
  BY <1>1, <1>2, <1>8 DEF WorkEnds, IsAlive
<1>9. ASSUME NEW t \in Tasks, Recover(t) PROVE WorkInv'
  <2>1. work' = work /\ step' = step /\ pc' = pc /\ slots' = slots \ {t} /\ t \notin work
    BY <1>9 DEF Recover
  <2>2. Working'
    BY <2>1 DEF Working, IsAlive
  <2>3. QED
    BY <1>1, <2>1, <2>2
<1>10. CASE UNCHANGED vars
  BY <1>1, <1>2, <1>10 DEF vars, IsAlive
<1>11. QED
  BY <1>3, <1>4, <1>5, <1>6, <1>7, <1>8, <1>9, <1>10 DEF Next, TaskStep

(* Commands that want a key, one of them exclusively, never run together,  *)
(* though processes die with leases, slots and running commands behind     *)
(* them, tasks are refused and retried, and leases cannot be removed       *)
(* (resource-lock.ts:70, build-queue.ts:386).  The commands that want keys *)
(* must not bypass the queue nor leave descendants behind (Covered).       *)
THEOREM ResourcesHold == ASSUME Covered PROVE Spec => []ResourcesRespected
<1>1. Init => WorkInv
  BY DEF Init, WorkInv, Working, ResourcesRespected
<1>2. LeaseInv /\ LeaseInv' /\ WorkInv /\ [Next]_vars => WorkInv'
  BY WorkStep
<1>3. WorkInv => ResourcesRespected
  BY DEF WorkInv
<1>4. QED
  BY <1>1, <1>2, <1>3, LeaseInit, LeaseStep, PTL DEF Spec

-----------------------------------------------------------------------------
(* Results.  What a process has seen pass really passed, on the worktree   *)
(* it looks at, unless that was edited; then it never records it.  What it *)
(* found stored passed on the tree, in a worktree that shares its results. *)
Shown(p, c) ==
  RanOn(p, c) \in passed \/ (p \in Repository /\ PassedOnTree(p, c))

Believed ==
  /\ \A p \in Processes, c \in Commands :
       Fingerprint(p, c) \in stored => PassedOnTree(p, c)
  /\ \A p \in Processes :
       /\ \A c \in own[p] : RanOn(p, c) \in passed
       /\ \A c \in hits[p] : Shown(p, c)

Ran ==
  \A t \in Tasks : step[t] \in {"exited", "passed"} /\ Owner(t) \notin edited
    => RanOn(Owner(t), Command(t)) \in passed

GroupsDone ==
  \A p \in Processes :
    /\ pc[p] \in {"waiting", "checking"} => turn[p] = 1
    /\ pc[p] = "running" => turn[p] \geq 1 /\
         \A i \in DOMAIN Plan[p] : i < turn[p] =>
           \A c \in Plan[p][i] \ hits[p] : step[<<p, c>>] = "passed"
    /\ pc[p] = "verifying" =>
         \A c \in Planned(p) \ hits[p] : step[<<p, c>>] = "passed"

Verified ==
  \A p \in Processes : pc[p] \in {"recording", "validated"} =>
    \A c \in Planned(p) : IF c \in hits[p] THEN Shown(p, c)
                          ELSE RanOn(p, c) \in passed

ResultInv == Believed /\ Ran /\ GroupsDone /\ Verified

LEMMA ShownStays ==
  ASSUME passed \subseteq passed', NEW p \in Processes, NEW c \in Commands
  PROVE  /\ PassedOnTree(p, c) => PassedOnTree(p, c)'
         /\ Shown(p, c) => Shown(p, c)'
BY DEF Shown, PassedOnTree, RanOn

LEMMA ResultProcessStep ==
  ASSUME TypeOK, ResultInv, NEW p \in Processes, ProcessStep(p)
  PROVE  ResultInv'
<1> USE PlannedCommands DEF TypeOK, ResultInv, Go
<1>1. CASE EnterReuse(p) \/ LeaveWait(p)
  <2>1. /\ UNCHANGED <<turn, step, hits, own, stored, edited, passed>>
        /\ \E s \in {"checking", "failed"} : Go(p, "waiting", s)
    BY <1>1 DEF EnterReuse, LeaveWait, taskVars, resultVars
  <2>2. Believed' /\ Ran'
    BY <2>1 DEF Believed, Shown, PassedOnTree, Ran
  <2>3. GroupsDone'
    BY <2>1 DEF GroupsDone
  <2>4. Verified'
    BY <2>1 DEF Verified, Shown, PassedOnTree
  <2>5. QED
    BY <2>2, <2>3, <2>4
<1>2. CASE Check(p)
  <2>1. \A c \in Available(p) : Shown(p, c)
    BY DEF Available, Believed, Shown
  <2>2. /\ UNCHANGED <<turn, taskVars, own, stored, edited, passed>>
        /\ hits' \in {hits, [hits EXCEPT ![p] = Available(p)]}
        /\ pc[p] = "checking"
        /\ \E s \in {"failed", "running"} : pc' = [pc EXCEPT ![p] = s]
        /\ \A q \in Processes \ {p} : hits'[q] = hits[q]
    BY <1>2 DEF Check
  <2>3. Believed' /\ Ran'
    BY <2>1, <2>2 DEF Believed, Shown, PassedOnTree, Ran, taskVars
  <2>7. Verified'
    BY <2>2 DEF Verified, Shown, PassedOnTree
  <2>4. \A i \in DOMAIN Plan[p] : ~(i < 1)
    BY ValidationAssumption
  <2>5. GroupsDone'
    BY <2>2, <2>4 DEF GroupsDone, taskVars
  <2>6. QED
    BY <2>3, <2>5, <2>7
<1>3. CASE EndGroup(p)
  <2>1. /\ UNCHANGED <<step, hits, own, stored, edited, passed>>
        /\ pc[p] = "running"
        /\ \/ pc' = [pc EXCEPT ![p] = "failed"] /\ turn' = turn
           \/ /\ \A t \in Group(p) : step[t] = "passed"
              /\ \/ pc' = [pc EXCEPT ![p] = "verifying"] /\ turn' = turn /\ LastGroup(p)
                 \/ pc' = pc /\ turn' = [turn EXCEPT ![p] = @ + 1]
    BY <1>3 DEF EndGroup, taskVars, resultVars
  <2>2. Believed' /\ Ran' /\ Verified'
    BY <2>1 DEF Believed, Shown, PassedOnTree, Ran, Verified
  <2>3. Plan[p] \in Seq(SUBSET Commands)
    BY ValidationAssumption
  <2>4. ASSUME \A t \in Group(p) : step[t] = "passed"
        PROVE  \A i \in DOMAIN Plan[p] : i < turn[p] + 1 =>
                 \A c \in Plan[p][i] \ hits[p] : step[<<p, c>>] = "passed"
    <3>1. turn[p] \in DOMAIN Plan[p] =>
            \A c \in Plan[p][turn[p]] \ hits[p] : step[<<p, c>>] = "passed"
      BY <2>4 DEF Group, Current
    <3>2. \A i \in DOMAIN Plan[p] : i < turn[p] + 1 => i < turn[p] \/ i = turn[p]
      BY <2>3
    <3>3. QED
      BY <2>1, <3>1, <3>2 DEF GroupsDone
  <2>5. ASSUME LastGroup(p), \A t \in Group(p) : step[t] = "passed"
        PROVE  \A c \in Planned(p) \ hits[p] : step[<<p, c>>] = "passed"
    <3>1. \A i \in DOMAIN Plan[p] : i < turn[p] + 1
      BY <2>3, <2>5 DEF LastGroup
    <3>2. QED
      BY <2>4, <2>5, <3>1 DEF Planned
  <2>6. GroupsDone'
    <3>1. CASE pc' = [pc EXCEPT ![p] = "failed"] /\ turn' = turn
      BY <2>1, <3>1 DEF GroupsDone
    <3>2. CASE /\ pc' = [pc EXCEPT ![p] = "verifying"] /\ turn' = turn
               /\ LastGroup(p) /\ \A t \in Group(p) : step[t] = "passed"
      <4>1. \A c \in Planned(p) \ hits[p] : step[<<p, c>>] = "passed"
        BY <2>5, <3>2
      <4>2. QED
        BY <2>1, <3>2, <4>1 DEF GroupsDone
    <3>3. CASE /\ pc' = pc /\ turn' = [turn EXCEPT ![p] = @ + 1]
               /\ \A t \in Group(p) : step[t] = "passed"
      <4>1. \A i \in DOMAIN Plan[p] : i < turn'[p] =>
              \A c \in Plan[p][i] \ hits[p] : step[<<p, c>>] = "passed"
        BY <2>4, <3>3
      <4>2. turn'[p] \geq 1 /\ \A q \in Processes \ {p} : turn'[q] = turn[q]
        BY <2>1, <3>3 DEF GroupsDone
      <4>3. QED
        BY <2>1, <3>3, <4>1, <4>2 DEF GroupsDone
    <3>4. QED
      BY <2>1, <3>1, <3>2, <3>3
  <2>7. QED
    BY <2>2, <2>6
<1>4. CASE Verify(p)
  <2>1. /\ UNCHANGED <<turn, step, hits, own, stored, edited, passed>>
        /\ pc[p] = "verifying"
        /\ pc' = [pc EXCEPT ![p] = IF p \in edited THEN "failed" ELSE "recording"]
    BY <1>4 DEF Verify, taskVars, resultVars
  <2>2. Believed' /\ Ran' /\ GroupsDone'
    BY <2>1 DEF Believed, Shown, PassedOnTree, Ran, GroupsDone
  <2>3. ASSUME p \notin edited, NEW c \in Planned(p)
        PROVE  IF c \in hits[p] THEN Shown(p, c) ELSE RanOn(p, c) \in passed
    <3>1. CASE c \in hits[p]
      BY <3>1 DEF Believed
    <3>2. CASE c \notin hits[p]
      <4>1. <<p, c>> \in Tasks /\ step[<<p, c>>] = "passed"
        BY <2>1, <3>2 DEF GroupsDone
      <4>2. QED
        BY <2>3, <3>2, <4>1 DEF Ran, Owner, Command
    <3>3. QED
      BY <3>1, <3>2
  <2>4. Verified'
    BY <2>1, <2>3 DEF Verified, Shown, PassedOnTree
  <2>5. QED
    BY <2>2, <2>4
<1>5. CASE Record(p)
  <2>1. PICK c \in Planned(p) \ hits[p] : own' = [own EXCEPT ![p] = @ \cup {c}]
          /\ stored' = IF p \in Repository THEN stored \cup {Fingerprint(p, c)}
                                           ELSE stored
    BY <1>5 DEF Record
  <2>2. UNCHANGED <<pc, turn, step, hits, edited, passed>> /\ pc[p] = "recording"
    BY <1>5 DEF Record, taskVars
  <2>3. RanOn(p, c) \in passed
    BY <2>2 DEF Verified
  <2>4. Believed'
    <3>1. ASSUME NEW q \in Processes, NEW d \in Commands, Fingerprint(q, d) \in stored'
          PROVE  PassedOnTree(q, d)
      <4>1. CASE Fingerprint(q, d) \in stored
        BY <4>1 DEF Believed
      <4>2. CASE Fingerprint(q, d) \notin stored
        BY <2>1, <2>3, <3>1, <4>2 DEF PassedOnTree, Fingerprint
      <4>3. QED
        BY <4>1, <4>2
    <3>2. \A q \in Processes : \A d \in own'[q] : RanOn(q, d) \in passed
      BY <2>1, <2>3 DEF Believed
    <3>3. QED
      BY <2>2, <3>1, <3>2 DEF Believed, Shown, PassedOnTree, Fingerprint, RanOn
  <2>5. QED
    BY <2>2, <2>4 DEF Ran, GroupsDone, Verified, Shown, PassedOnTree
<1>6. CASE Validated(p)
  BY <1>6 DEF Validated, Believed, Shown, PassedOnTree, Ran, GroupsDone, Verified,
     taskVars, resultVars
<1>7. QED
  BY <1>1, <1>2, <1>3, <1>4, <1>5, <1>6 DEF ProcessStep

LEMMA ResultTaskStep ==
  ASSUME TypeOK, ResultInv, NEW t \in Tasks, TaskStep(t)
  PROVE  ResultInv'
<1> USE PlannedCommands DEF TypeOK, ResultInv, Goto
<1>1. /\ UNCHANGED <<pc, turn, hits, own, stored, edited>>
      /\ passed \subseteq passed'
      /\ \A u \in Tasks \ {t} : step'[u] = step[u]
      /\ step[t] # "passed"
      /\ step'[t] \in {"exited", "passed"} /\ Owner(t) \notin edited
           => RanOn(Owner(t), Command(t)) \in passed'
  <2>1. CASE TakeGate(t) \/ Decide(t) \/ Refuse(t) \/ Run(t) \/ NoSlot(t)
             \/ ExitLeaving(t) \/ ReleaseFails(t)
    BY <2>1 DEF TakeGate, Decide, Refuse, Run, NoSlot, ExitLeaving, ReleaseFails,
       resultVars
  <2>2. CASE Retry(t)
    BY <2>2 DEF Retry, First, resultVars
  <2>3. CASE Exit(t)
    BY <2>3 DEF Exit, resultVars
  <2>4. CASE Release(t)
    BY <2>4 DEF Release, Ran, resultVars
  <2>5. QED
    BY <2>1, <2>2, <2>3, <2>4 DEF TaskStep
<1>2. Believed' /\ Verified'
  <2>1. Believed'
    BY <1>1, ShownStays DEF Believed, Fingerprint, RanOn
  <2>2. Verified'
    BY <1>1, ShownStays DEF Verified, RanOn
  <2>3. QED
    BY <2>1, <2>2
<1>3. Ran'
  BY <1>1 DEF Ran
<1>4. \A p \in Processes : \A c \in Planned(p) :
        step[<<p, c>>] = "passed" => step'[<<p, c>>] = "passed"
  BY <1>1
<1>5. GroupsDone'
  <2>1. \A p \in Processes : \A i \in DOMAIN Plan[p] : Plan[p][i] \subseteq Planned(p)
    OBVIOUS
  <2>2. QED
    BY <1>1, <1>4, <2>1 DEF GroupsDone
<1>6. QED
  BY <1>2, <1>3, <1>5

LEMMA ResultStep == TypeOK /\ ResultInv /\ [Next]_vars => ResultInv'
<1> SUFFICES ASSUME TypeOK, ResultInv, [Next]_vars PROVE ResultInv'
  OBVIOUS
<1> USE DEF TypeOK, ResultInv, Believed, Shown, PassedOnTree, Ran, GroupsDone,
      Verified, taskVars, resultVars
<1>1. ASSUME NEW p \in Processes, Abort(p) \/ Die(p) \/ Edit(p) PROVE ResultInv'
  BY <1>1 DEF Abort, Die, Edit
<1>2. ASSUME NEW t \in Tasks, WorkEnds(t) \/ Recover(t) PROVE ResultInv'
  BY <1>2 DEF WorkEnds, Recover
<1>3. CASE UNCHANGED vars
  BY <1>3 DEF vars
<1>4. QED
  BY <1>1, <1>2, <1>3, ResultProcessStep, ResultTaskStep DEF Next

(* A result in a session's record means that the command passed on that    *)
(* tree with the unstaged changes the session began with, a stored one     *)
(* that it did for one of the sessions that share results, and a session   *)
(* recorded as validated one of the two for every command of its plan,     *)
(* though people edit worktrees at any moment, groups fail half way and    *)
(* processes die: whoever looks at the worktree again after the last       *)
(* command sees every edit that could have made a result wrong             *)
(* (handoff.ts:1320).  That a stored result held on the tree alone, with   *)
(* nothing uncommitted, is not so.                                         *)
THEOREM ResultsHold == Spec => []ResultsAreTrue
<1>1. Init => ResultInv
  <2> SUFFICES ASSUME Init PROVE ResultInv
    OBVIOUS
  <2>1. Believed
    BY ValidationAssumption DEF Init, Believed, Shown
  <2>2. Ran /\ GroupsDone /\ Verified
    BY DEF Init, Ran, GroupsDone, Verified, First
  <2>3. QED
    BY <2>1, <2>2 DEF ResultInv
<1>2. ResultInv => ResultsAreTrue
  BY DEF ResultInv, Believed, Verified, Shown, ResultsAreTrue
<1>3. QED
  BY <1>1, <1>2, ResultStep, TypeCorrect, PTL DEF Spec

-----------------------------------------------------------------------------
(* Reuse.  Processes that may share a result have one plan, so that they   *)
(* wait for one mutex.                                                     *)
PlansAgree ==
  \A p, q \in Repository : \A c \in Planned(p) :
    Tree[p] = Tree[q] /\ c \in Planned(q) => Plan[p] = Plan[q]

Alone ==
  \A p, q \in Repository : p # q /\ pc[p] \in Inside /\ pc[q] \in Inside
    => <<Tree[p], Plan[p]>> # <<Tree[q], Plan[q]>>

Fresh ==
  \A p \in Repository : pc[p] = "running" =>
    \A c \in Planned(p) \ hits[p] : Fingerprint(p, c) \notin stored

ReuseInv == Alone /\ Fresh

LEMMA ReuseStep ==
  ASSUME PlansAgree, TypeOK, ReuseInv, [Next]_vars
  PROVE  ReuseInv'
<1> USE ValidationAssumption DEF TypeOK, ReuseInv, Inside
<1>1. ASSUME \A p \in Processes : pc'[p] \in Inside => pc[p] \in Inside
      PROVE  Alone'
  BY <1>1 DEF Alone
<1>2. ASSUME NEW p \in Processes, ProcessStep(p) PROVE ReuseInv'
  <2> USE DEF Go, taskVars, resultVars
  <2>1. CASE EnterReuse(p)
    BY <2>1 DEF EnterReuse, Alone, Fresh
  <2>2. CASE LeaveWait(p) \/ EndGroup(p) \/ Verify(p) \/ Validated(p)
    <3>1. /\ UNCHANGED <<hits, stored>>
          /\ \A q \in Processes : /\ pc'[q] \in Inside => pc[q] \in Inside
                                  /\ pc'[q] = "running" => pc[q] = "running"
      BY <2>2 DEF LeaveWait, EndGroup, Verify, Validated
    <3>2. QED
      BY <1>1, <3>1 DEF Fresh
  <2>3. CASE Check(p)
    <3>1. \A c \in Planned(p) \ Available(p) :
            p \in Repository => Fingerprint(p, c) \notin stored
      BY DEF Available
    <3>2. Alone'
      BY <1>1, <2>3 DEF Check
    <3>3. /\ hits' \in {hits, [hits EXCEPT ![p] = Available(p)]}
          /\ \E s \in {"failed", "running"} : pc' = [pc EXCEPT ![p] = s]
          /\ pc'[p] = "running" => hits'[p] = Available(p)
          /\ stored' = stored
      BY <2>3 DEF Check
    <3>4. Fresh'
      BY <3>1, <3>3 DEF Fresh
    <3>5. QED
      BY <3>2, <3>4
  <2>4. CASE Record(p)
    <3>1. PICK c \in Planned(p) :
            stored' = IF p \in Repository THEN stored \cup {Fingerprint(p, c)}
                                          ELSE stored
      BY <2>4 DEF Record
    <3>2. pc[p] = "recording" /\ UNCHANGED <<pc, hits>>
      BY <2>4 DEF Record
    <3>3. ASSUME p \in Repository, NEW q \in Repository, pc[q] = "running",
                 NEW d \in Planned(q), Fingerprint(q, d) = Fingerprint(p, c)
          PROVE  FALSE
      <4>1. Tree[q] = Tree[p] /\ d = c
        BY <3>3 DEF Fingerprint
      <4>2. Plan[q] = Plan[p] /\ q # p
        BY <3>2, <3>3, <4>1 DEF PlansAgree
      <4>3. QED
        BY <3>2, <3>3, <4>1, <4>2 DEF Alone
    <3>4. Fresh'
      BY <3>1, <3>2, <3>3 DEF Fresh
    <3>5. QED
      BY <1>1, <3>2, <3>4
  <2>5. QED
    BY <1>2, <2>1, <2>2, <2>3, <2>4 DEF ProcessStep
<1>3. ASSUME NEW t \in Tasks, TaskStep(t) PROVE ReuseInv'
  BY <1>3 DEF TaskStep, TakeGate, Decide, Refuse, Run, NoSlot, Exit, ExitLeaving,
     Release, ReleaseFails, Retry, Alone, Fresh, resultVars
<1>4. ASSUME NEW p \in Processes, Abort(p) \/ Die(p) \/ Edit(p) PROVE ReuseInv'
  BY <1>4 DEF Abort, Die, Edit, Alone, Fresh, resultVars
<1>5. ASSUME NEW t \in Tasks, WorkEnds(t) \/ Recover(t) PROVE ReuseInv'
  BY <1>5 DEF WorkEnds, Recover, Alone, Fresh, resultVars
<1>6. CASE UNCHANGED vars
  BY <1>6 DEF vars, Alone, Fresh
<1>7. QED
  BY <1>2, <1>3, <1>4, <1>5, <1>6 DEF Next

(* Of processes with one plan, tree and repository reuse none runs what    *)
(* another has stored: whoever gets the mutex looks again before it runs   *)
(* anything, and nobody stores what it is about to run                     *)
(* (docs/build-queue.md:233).                                              *)
THEOREM RunningOnce == ASSUME PlansAgree PROVE Spec => RunsOnce
<1>1. Init => ReuseInv
  BY ValidationAssumption DEF Init, ReuseInv, Alone, Fresh, Inside
<1>2. ASSUME TypeOK, ReuseInv, [Next]_vars
      PROVE  \A t \in work' \ work :
               Owner(t) \in Repository
               => Fingerprint(Owner(t), Command(t)) \notin stored
  <2>1. ASSUME NEW t \in Tasks, Run(t), Owner(t) \in Repository
        PROVE  Fingerprint(Owner(t), Command(t)) \notin stored
    <3>1. pc[Owner(t)] = "running" /\ Command(t) \notin hits[Owner(t)]
      <4>1. pc[Owner(t)] = "running" /\ t \in Group(Owner(t))
        BY <2>1 DEF Run, Active
      <4>2. PICK c \in Current(Owner(t)) \ hits[Owner(t)] : t = <<Owner(t), c>>
        BY <4>1 DEF Group
      <4>3. Command(t) = c
        BY <4>2 DEF Command
      <4>4. QED
        BY <4>1, <4>2, <4>3
    <3>2. QED
      BY <1>2, <2>1, <3>1, PlannedCommands DEF ReuseInv, Fresh
  <2>2. work' \subseteq work \/ \E t \in Tasks : Run(t) /\ work' = work \cup {t}
    BY <1>2 DEF Next, ProcessStep, EnterReuse, LeaveWait, Check, EndGroup, Verify,
       Record, Validated, Abort, Die, Edit, TaskStep, TakeGate, Decide, Refuse, Run,
       NoSlot, Exit, ExitLeaving, Release, ReleaseFails, Retry, WorkEnds, Recover,
       taskVars, vars
  <2>3. QED
    BY <2>1, <2>2
<1>3. ASSUME PlansAgree PROVE TypeOK /\ ReuseInv /\ [Next]_vars => ReuseInv'
  BY <1>3, ReuseStep
<1>4. QED
  BY <1>1, <1>2, <1>3, TypeCorrect, PTL DEF Spec, RunsOnce

-----------------------------------------------------------------------------
(* What stands for the tree that reaches the target (ValidationPlan), for    *)
(* any commands, tiers, sessions and changes.                                *)

(* The plan of a tree that began at start.                                   *)
PlanOf(start, tree) == Selected(Differing(start, tree), TRUE)

PassedInv ==
  /\ \A t \in Trees, c \in Checks : <<t, c>> \in results => Passes(t, c)
  /\ Pass(target, Full)
  /\ \A s \in Sessions : merged[s] # Nothing => Pass(merged[s], Full)
  /\ \A s \in Sessions :
       rec[s].validated # Nothing =>
         Pass(rec[s].validated, PlanOf(rec[s].start, rec[s].validated).source)
BegunInv ==
  \A s \in Sessions :
    /\ rec[s].start \subseteq target
    /\ rec[s].status = "none" => rec[s].validated = Nothing
    /\ rec[s].status = "ready" =>
         rec[s].ready # Nothing /\ rec[s].paths = Differing(rec[s].start, rec[s].ready)
PlanInv == PlanTypeOK /\ Kept /\ PassedInv /\ BegunInv

(* findValidationTier has a first tier to find.                              *)
LEMMA FirstTier ==
  ASSUME PlanAssumption, NEW is \in SUBSET DOMAIN Tiers, is # {}
  PROVE  Earliest(is) \in is
<1>1. is \subseteq Nat
  BY DEF PlanAssumption
<1>2. \A j, k \in Nat : <<j, k>> \in OpToRel(<, Nat) <=> j < k
  BY SMT DEF OpToRel
<1>3. PICK i \in is : \A j \in is : ~(<<j, i>> \in OpToRel(<, Nat))
  BY <1>1, NatLessThanWellFounded, WFMin
<1>4. ASSUME NEW j \in is
      PROVE  i <= j
  <2>1. i \in Nat /\ j \in Nat
    BY <1>1
  <2>2. ~(j < i)
    BY <1>2, <1>3, <2>1
  <2>3. QED
    BY <2>1, <2>2
<1>5. QED
  BY <1>4 DEF Earliest

LEMMA TierTypes ==
  ASSUME PlanAssumption, NEW i \in DOMAIN Tiers
  PROVE  /\ Tiers[i] \in Tier
         /\ Tiers[i].source \subseteq Checks /\ Tiers[i].integration \subseteq Checks
<1>1. Tiers[i] \in Tier
  BY DEF PlanAssumption
<1>2. QED
  BY <1>1 DEF Tier

(* A plan is that of a tier that matches all its paths, or the full one.     *)
LEMMA SelectedIs ==
  ASSUME PlanAssumption, NEW paths, NEW allowed \in BOOLEAN
  PROVE  \/ Selected(paths, allowed) = FullPlan
         \/ /\ allowed
            /\ \E i \in DOMAIN Tiers :
                 /\ paths \subseteq Tiers[i].paths
                 /\ i = Earliest(Matching(paths))
                 /\ Selected(paths, allowed) =
                      [name |-> Tiers[i].name, source |-> Tiers[i].source,
                       integration |-> Tiers[i].integration]
<1>1. CASE allowed /\ Matching(paths) # {}
  <2> DEFINE i == Earliest(Matching(paths))
  <2>1. Matching(paths) \in SUBSET DOMAIN Tiers
    BY DEF Matching
  <2>2. i \in Matching(paths)
    BY <1>1, <2>1, FirstTier
  <2>3. i \in DOMAIN Tiers /\ paths \subseteq Tiers[i].paths
    BY <2>2 DEF Matching
  <2>4. Selected(paths, allowed) =
          [name |-> Tiers[i].name, source |-> Tiers[i].source, integration |-> Tiers[i].integration]
    BY <1>1 DEF Selected
  <2>5. QED
    BY <1>1, <2>3, <2>4
<1>2. CASE ~(allowed /\ Matching(paths) # {})
  BY <1>2 DEF Selected
<1>3. QED
  BY <1>1, <1>2

LEMMA SelectedTypes ==
  ASSUME PlanAssumption, NEW paths, NEW allowed \in BOOLEAN
  PROVE  /\ Selected(paths, allowed).source \subseteq Checks
         /\ Selected(paths, allowed).integration \subseteq Checks
         /\ Selected(paths, allowed).name \in {Tiers[i].name : i \in DOMAIN Tiers} \cup {"none", "full"}
<1>1. CASE Selected(paths, allowed) = FullPlan
  BY <1>1 DEF FullPlan, PlanAssumption
<1>2. CASE \E i \in DOMAIN Tiers : Selected(paths, allowed) =
             [name |-> Tiers[i].name, source |-> Tiers[i].source, integration |-> Tiers[i].integration]
  BY <1>2, TierTypes
<1>3. QED
  BY <1>1, <1>2, SelectedIs

(* A change of the paths of a tier that passed its source commands, and its  *)
(* integration commands when merged, leaves the full plan passing; so it     *)
(* does when the integration commands ran on a larger tree.                  *)
LEMMA LightIsEnough ==
  ASSUME PlanAssumption, PlanTypeOK, Kept, NEW i \in DOMAIN Tiers,
         NEW t \in Trees, NEW s \in Trees, NEW u \in Trees, NEW start,
         Pass(t, Full), start \subseteq t, t \cup s \subseteq u,
         Differing(start, s) \subseteq Tiers[i].paths,
         Pass(s, Tiers[i].source), Pass(u, Tiers[i].integration)
  PROVE  Pass(t \cup s, Full)
<1> DEFINE brought == {x \in s : PathOf[x] \in Tiers[i].paths}
<1>1. Honest(Tiers[i])
  BY DEF Kept
<1>2. t \cup brought = t \cup s
  <2>1. \A x \in s \ start : PathOf[x] \in Tiers[i].paths
    BY DEF Differing
  <2>2. QED
    BY <2>1
<1>3. Pass(t \cup brought, Tiers[i].integration)
  <2>1. t \cup brought \subseteq u
    OBVIOUS
  <2>2. QED
    BY <2>1 DEF Pass, Passes
<1>4. brought \in SUBSET {x \in s : PathOf[x] \in Tiers[i].paths}
  OBVIOUS
<1>5. Pass(t \cup brought, Full)
  <2> HIDE DEF brought
  <2>1. QED
    BY <1>1, <1>3, <1>4 DEF Honest
<1>6. QED
  BY <1>2, <1>5

(* So it does for the members of a batch that share a tier: if the tree of   *)
(* some of them failed, that of the fewest would have one to leave out.      *)
LEMMA BatchIsEnough ==
  ASSUME PlanAssumption, PlanTypeOK, Kept, NEW i \in DOMAIN Tiers,
         NEW ss \in SUBSET Sessions, Pass(target, Full),
         Pass(target \cup UNION {rec[s].ready : s \in ss}, Tiers[i].integration),
         \A s \in ss : /\ rec[s].ready \in Trees /\ rec[s].start \subseteq target
                       /\ Differing(rec[s].start, rec[s].ready) \subseteq Tiers[i].paths
                       /\ Pass(rec[s].ready, Tiers[i].source)
  PROVE  Pass(target \cup UNION {rec[s].ready : s \in ss}, Full)
<1> DEFINE With(k) == target \cup UNION {rec[s].ready : s \in k}
           Bad == {k \in SUBSET ss : ~Pass(With(k), Full)}
           Sizes == {Cardinality(k) : k \in Bad}
<1>1. SUFFICES ASSUME Bad # {} PROVE FALSE
  OBVIOUS
<1>2. \A k \in SUBSET ss : IsFiniteSet(k) /\ Cardinality(k) \in Nat
  <2>1. IsFiniteSet(Sessions)
    BY DEF PlanAssumption, IsFiniteSet, IsFiniteSet
  <2>2. QED
    BY <2>1, FS_Subset, FS_CardinalityType
<1>3. Sizes \subseteq Nat /\ Sizes # {}
  BY <1>1, <1>2
<1>4. PICK n \in Sizes : \A m \in Sizes : ~(<<m, n>> \in OpToRel(<, Nat))
  BY <1>3, NatLessThanWellFounded, WFMin
<1>5. PICK k \in Bad : n = Cardinality(k)
  BY <1>4
<1>6. k # {}
  <2>1. With({}) = target
    OBVIOUS
  <2>2. QED
    BY <2>1
<1>7. PICK s \in k : TRUE
  BY <1>6
<1>8. k \ {s} \notin Bad
  <2>1. IsFiniteSet(k) /\ Cardinality(k) \in Nat
    BY <1>2
  <2>2. Cardinality(k \ {s}) = Cardinality(k) - 1 /\ Cardinality(k \ {s}) \in Nat
    BY <1>2, <1>7, <2>1, FS_RemoveElement
  <2>3. <<Cardinality(k \ {s}), n>> \in OpToRel(<, Nat)
    BY <1>5, <2>1, <2>2 DEF OpToRel
  <2>4. QED
    BY <1>4, <2>3
<1>9. Pass(With(k \ {s}), Full)
  BY <1>8
<1>10. s \in ss /\ s \in Sessions
  BY <1>7
<1>11. With(k) = With(k \ {s}) \cup rec[s].ready
  BY <1>7
<1>12. With(k \ {s}) \in Trees
  <2>1. target \in Trees
    BY DEF PlanTypeOK
  <2>2. QED
    BY <2>1 DEF Trees
<1>13. /\ rec[s].start \subseteq With(k \ {s})
       /\ With(k \ {s}) \cup rec[s].ready \subseteq With(ss)
       /\ With(ss) \in Trees
  <2>1. target \in Trees
    BY DEF PlanTypeOK
  <2>2. QED
    BY <1>10, <2>1 DEF Trees
<1>14. Pass(With(k \ {s}) \cup rec[s].ready, Full)
  <2>1. Pass(With(ss), Tiers[i].integration)
    OBVIOUS
  <2> HIDE DEF With
  <2>2. QED
    BY <1>9, <1>10, <1>12, <1>13, <2>1, LightIsEnough
<1>15. QED
  BY <1>5, <1>11, <1>14

-----------------------------------------------------------------------------
LEMMA DifferingTypes ==
  ASSUME NEW t \in Trees, NEW u \in Trees
  PROVE  Differing(t, u) \in SUBSET {PathOf[x] : x \in Change}
BY DEF Differing, Trees

(* A session whose plan is a tier's validated what it hands over.            *)
LEMMA ReadyPassed ==
  ASSUME PlanAssumption, PlanInv, NEW s \in Sessions, rec[s].status = "ready",
         NEW i \in DOMAIN Tiers, Allowed(rec[s]),
         Selected(rec[s].paths, TRUE).source = Tiers[i].source,
         rec[s].paths \subseteq Tiers[i].paths
  PROVE  /\ rec[s].ready \in Trees /\ rec[s].start \subseteq target
         /\ Differing(rec[s].start, rec[s].ready) \subseteq Tiers[i].paths
         /\ Pass(rec[s].ready, Tiers[i].source)
<1>1. rec[s] \in PlanRecord
  BY DEF PlanInv, PlanTypeOK
<1>2. /\ rec[s].start \subseteq target /\ rec[s].ready # Nothing
      /\ rec[s].paths = Differing(rec[s].start, rec[s].ready)
  BY DEF PlanInv, BegunInv
<1>3. rec[s].ready \in Trees
  BY <1>1, <1>2 DEF PlanRecord
<1>4. rec[s].validated = rec[s].ready
  BY DEF Allowed
<1>5. Pass(rec[s].ready, PlanOf(rec[s].start, rec[s].ready).source)
  BY <1>2, <1>4 DEF PlanInv, PassedInv
<1>6. PlanOf(rec[s].start, rec[s].ready).source = Tiers[i].source
  BY <1>2 DEF PlanOf
<1>7. QED
  BY <1>2, <1>3, <1>5, <1>6

(* What the repository's cache and another tree's results stand for.         *)
LEMMA ReuseIsTrue ==
  ASSUME PlanAssumption, PlanInv, NEW t \in Trees, NEW u \in Trees, NEW steps \in SUBSET Checks,
         Pass(u, ((steps \cup Added(t, u)) \ Reused(t, u, steps)) \ Cached(u))
  PROVE  Pass(u, steps)
<1>1. \A c \in Checks : c \in Cached(u) => Passes(u, c)
  BY DEF Cached, PlanInv, PassedInv
<1>2. CASE MovedBy(t, u) = {}
  BY <1>1, <1>2 DEF Reused, Pass
<1>3. CASE MovedBy(t, u) # {}
  <2> DEFINE i == Earliest(Matching(Differing(t, u)))
  <2>1. MovedBy(t, u) = {i} /\ Matching(Differing(t, u)) # {} /\ Tiers[i].reuse
    BY <1>3 DEF MovedBy
  <2>2. i \in Matching(Differing(t, u))
    <3>1. Matching(Differing(t, u)) \in SUBSET DOMAIN Tiers
      BY DEF Matching
    <3>2. QED
      BY <2>1, <3>1, FirstTier
  <2>3. i \in DOMAIN Tiers /\ Differing(t, u) \subseteq Tiers[i].paths
    BY <2>2 DEF Matching
  <2> HIDE DEF i
  <2>4. Inert(Tiers[i]) /\ Tiers[i].integration \subseteq Checks
    BY <2>1, <2>3, TierTypes DEF PlanInv, Kept
  <2>5. Added(t, u) = Tiers[i].integration
    BY <2>1 DEF Added
  <2>6. \A c \in Reused(t, u, steps) :
          c \in Checks \ Tiers[i].integration /\ Passes(t, c)
    BY <2>1 DEF Reused, PlanInv, PassedInv
  <2>7. Pass(u, Tiers[i].integration)
    BY <1>1, <2>4, <2>5, <2>6 DEF Pass
  <2>8. \A c \in Checks \ Tiers[i].integration : Passes(t, c) => Passes(u, c)
    BY <2>3, <2>4, <2>7 DEF Inert
  <2>9. QED
    BY <1>1, <2>6, <2>8 DEF Pass
<1>4. QED
  BY <1>2, <1>3

(* What Integrate leaves to promote.                                         *)
LEMMA IntegratedPasses ==
  ASSUME PlanAssumption, PlanInv, NEW s \in Sessions, Integrate(s)
  PROVE  Pass(target \cup rec[s].ready, Full)
<1> DEFINE tree == target \cup rec[s].ready
           plan == Selected(rec[s].paths, Allowed(rec[s]))
           reuse == rec[s].validated = rec[s].ready
           reused == IF reuse THEN Reused(rec[s].ready, tree, plan.integration) ELSE {}
           steps == plan.integration \cup IF reuse THEN Added(rec[s].ready, tree) ELSE {}
<1>1. rec[s].status = "ready" /\ Pass(tree, (steps \ reused) \ Cached(tree))
  BY DEF Integrate
<1>2. rec[s].ready \in Trees /\ target \in Trees /\ tree \in Trees
  <2>1. rec[s] \in PlanRecord /\ target \in Trees
    BY DEF PlanInv, PlanTypeOK
  <2>2. rec[s].ready \in Trees
    BY <1>1, <2>1 DEF PlanRecord, PlanInv, BegunInv
  <2>3. QED
    BY <2>1, <2>2 DEF Trees
<1>3. Allowed(rec[s]) \in BOOLEAN
  BY DEF Allowed
<1>4. plan.integration \in SUBSET Checks
  BY <1>3, SelectedTypes
<1> HIDE DEF plan, tree
<1>5. Pass(tree, plan.integration)
  <2>1. CASE reuse
    BY <1>1, <1>2, <1>4, <2>1, ReuseIsTrue
  <2>2. CASE ~reuse
    <3>1. Pass(tree, plan.integration \ Cached(tree))
      BY <1>1, <2>2
    <3>2. \A c \in Checks : c \in Cached(tree) => Passes(tree, c)
      BY <1>2 DEF Cached, PlanInv, PassedInv
    <3>3. QED
      BY <1>4, <3>1, <3>2 DEF Pass
  <2>3. QED
    BY <2>1, <2>2
<1> HIDE DEF reuse, reused, steps
<1>6. CASE plan = FullPlan
  BY <1>5, <1>6 DEF FullPlan, tree
<1>7. CASE plan # FullPlan
  <2>1. PICK i \in DOMAIN Tiers :
          /\ Allowed(rec[s]) /\ rec[s].paths \subseteq Tiers[i].paths
          /\ plan = [name |-> Tiers[i].name, source |-> Tiers[i].source,
                     integration |-> Tiers[i].integration]
    BY <1>3, <1>7, SelectedIs DEF plan
  <2>2. plan = Selected(rec[s].paths, TRUE)
    BY <2>1 DEF plan, Selected
  <2>3. /\ Selected(rec[s].paths, TRUE).source = Tiers[i].source
        /\ Pass(tree, Tiers[i].integration)
    <3>1. plan.source = Tiers[i].source /\ plan.integration = Tiers[i].integration
      BY <2>1
    <3>2. QED
      BY <1>5, <2>2, <3>1
  <2>4. /\ rec[s].start \subseteq target
        /\ Differing(rec[s].start, rec[s].ready) \subseteq Tiers[i].paths
        /\ Pass(rec[s].ready, Tiers[i].source)
    BY <1>1, <2>1, <2>3, ReadyPassed
  <2>5. PlanTypeOK /\ Kept /\ Pass(target, Full)
    BY DEF PlanInv, PassedInv
  <2>6. target \cup rec[s].ready \subseteq tree
    BY DEF tree
  <2>7. QED
    BY <1>2, <2>3, <2>4, <2>5, <2>6, LightIsEnough
<1>8. QED
  BY <1>6, <1>7

(* And a batch.                                                              *)
LEMMA BatchPasses ==
  ASSUME PlanAssumption, PlanInv, NEW ss \in SUBSET Sessions, Batch(ss),
         \A i, j \in DOMAIN Tiers : Tiers[i].name = Tiers[j].name => i = j
  PROVE  Pass(target \cup UNION {rec[s].ready : s \in ss}, Full)
<1> DEFINE tree == target \cup UNION {rec[s].ready : s \in ss}
           one(s) == Selected(rec[s].paths, Allowed(rec[s])).name
           paths == UNION {rec[s].paths : s \in ss}
           union == Selected(paths, TRUE)
<1>1. Pass(tree, BatchPlan(ss).integration) /\ \A s \in ss : rec[s].status = "ready"
  BY DEF Batch
<1>2. CASE BatchPlan(ss) = FullPlan
  BY <1>1, <1>2 DEF FullPlan
<1>3. CASE BatchPlan(ss) # FullPlan
  <2>1. BatchPlan(ss) = union /\ \A s \in ss : one(s) # "full" /\ one(s) = union.name
    BY <1>3 DEF BatchPlan
  <2> HIDE DEF one, union, tree
  <2>2. PICK i \in DOMAIN Tiers :
          /\ paths \subseteq Tiers[i].paths
          /\ union = [name |-> Tiers[i].name, source |-> Tiers[i].source,
                      integration |-> Tiers[i].integration]
    BY <1>3, <2>1, SelectedIs DEF union
  <2>3. ASSUME NEW s \in ss
        PROVE  /\ rec[s].ready \in Trees /\ rec[s].start \subseteq target
               /\ Differing(rec[s].start, rec[s].ready) \subseteq Tiers[i].paths
               /\ Pass(rec[s].ready, Tiers[i].source)
    <3>1. Allowed(rec[s]) \in BOOLEAN
      BY DEF Allowed
    <3>2. Selected(rec[s].paths, Allowed(rec[s])) # FullPlan
      <4>1. Selected(rec[s].paths, Allowed(rec[s])).name # "full"
        BY <2>1, <2>3 DEF one
      <4>2. FullPlan.name = "full"
        BY DEF FullPlan
      <4>3. QED
        BY <4>1, <4>2
    <3>3. PICK j \in DOMAIN Tiers :
            /\ Allowed(rec[s]) /\ rec[s].paths \subseteq Tiers[j].paths
            /\ Selected(rec[s].paths, Allowed(rec[s])) =
                 [name |-> Tiers[j].name, source |-> Tiers[j].source,
                  integration |-> Tiers[j].integration]
      BY <3>1, <3>2, SelectedIs
    <3>4. Tiers[j].name = Tiers[i].name
      <4> DEFINE mine == Selected(rec[s].paths, Allowed(rec[s]))
      <4> HIDE DEF mine
      <4>0. mine = [name |-> Tiers[j].name, source |-> Tiers[j].source,
                    integration |-> Tiers[j].integration]
        BY <3>3 DEF mine
      <4>1. one(s) = Tiers[j].name
        <5>1. one(s) = mine.name
          BY DEF one, mine
        <5>2. QED
          BY <4>0, <5>1
      <4>2. union.name = Tiers[i].name
        BY <2>2
      <4>3. QED
        BY <2>1, <2>3, <4>1, <4>2
    <3>5. j = i
      BY <3>4
    <3>6. Selected(rec[s].paths, TRUE).source = Tiers[i].source
      BY <3>3, <3>5 DEF Selected
    <3>7. QED
      BY <1>1, <2>3, <3>3, <3>5, <3>6, ReadyPassed
  <2>4. PlanTypeOK /\ Kept /\ Pass(target, Full)
    BY DEF PlanInv, PassedInv
  <2>5. Pass(tree, Tiers[i].integration)
    <3>1. union.integration = Tiers[i].integration
      BY <2>2
    <3>2. QED
      BY <1>1, <2>1, <3>1 DEF tree
  <2>6. QED
    BY <2>3, <2>4, <2>5, BatchIsEnough DEF tree
<1>4. QED
  BY <1>2, <1>3

-----------------------------------------------------------------------------
(* The same of a given assignment of failures.                               *)
Passing(b, tree, cs) == \A c \in cs : b[c] # Nothing => ~(b[c] \subseteq tree)

LEMMA PassingIs ==
  \A tree, cs : Pass(tree, cs) <=> Passing(breaks, tree, cs)
BY DEF Pass, Passes, Passing

(* What a step owes: whatever it adds to the results, to the target, to the  *)
(* merged trees and to what is validated passed.                             *)
LEMMA PassedKept ==
  ASSUME PlanInv, breaks' = breaks,
         \A t \in Trees, c \in Checks :
           <<t, c>> \in results' => <<t, c>> \in results \/ Passing(breaks, t, {c}),
         target' = target \/ Passing(breaks, target', Full),
         \A s \in Sessions : merged'[s] # Nothing =>
           merged'[s] = merged[s] \/ Passing(breaks, merged'[s], Full),
         \A s \in Sessions : rec'[s].validated # Nothing =>
           \/ rec'[s].validated = rec[s].validated /\ rec'[s].start = rec[s].start
           \/ Passing(breaks, rec'[s].validated, PlanOf(rec'[s].start, rec'[s].validated).source)
  PROVE  Kept' /\ PassedInv'
<1>1. Kept'
  BY DEF PlanInv, Kept, Honest, Inert, Pass, Passes
<1>2. ASSUME NEW s \in Sessions, rec'[s].validated # Nothing
      PROVE  Passing(breaks', rec'[s].validated, PlanOf(rec'[s].start, rec'[s].validated).source)
  <2>1. CASE rec'[s].validated = rec[s].validated /\ rec'[s].start = rec[s].start
    <3>1. Passing(breaks, rec[s].validated, PlanOf(rec[s].start, rec[s].validated).source)
      BY <1>2, <2>1, PassingIs DEF PlanInv, PassedInv
    <3>2. QED
      BY <2>1, <3>1
  <2>2. QED
    BY <1>2, <2>1
<1>3. ASSUME NEW s \in Sessions, merged'[s] # Nothing
      PROVE  Passing(breaks', merged'[s], Full)
  <2>1. CASE merged'[s] = merged[s]
    <3>1. Passing(breaks, merged[s], Full)
      BY <1>3, <2>1, PassingIs DEF PlanInv, PassedInv
    <3>2. QED
      BY <2>1, <3>1
  <2>2. QED
    BY <1>3, <2>1
<1>4. Passing(breaks', target', Full)
  <2>1. Passing(breaks, target, Full)
    BY PassingIs DEF PlanInv, PassedInv
  <2>2. QED
    BY <2>1
<1>5. ASSUME NEW t \in Trees, NEW c \in Checks, <<t, c>> \in results'
      PROVE  Passing(breaks', t, {c})
  <2>1. <<t, c>> \in results => Passing(breaks, t, {c})
    BY DEF PlanInv, PassedInv, Passes, Passing
  <2>2. QED
    BY <1>5, <2>1
<1>6. PassedInv'
  BY <1>2, <1>3, <1>4, <1>5 DEF PassedInv, Pass, Passes, Passing
<1>7. QED
  BY <1>1, <1>6

LEMMA PlanTypes ==
  ASSUME PlanInv
  PROVE  /\ breaks \in [Checks -> {Nothing} \cup (Trees \ {{}})] /\ target \in Trees
         /\ head \in [Sessions -> Trees] /\ merged \in [Sessions -> {Nothing} \cup Trees]
         /\ rec \in [Sessions -> PlanRecord] /\ results \subseteq Trees \X Checks
BY DEF PlanInv, PlanTypeOK

(* What a step does to the record of one session.                            *)
LEMMA OneRecord ==
  ASSUME PlanInv, NEW s \in Sessions, NEW r, rec' = [rec EXCEPT ![s] = r], r \in PlanRecord,
         target \subseteq target',
         /\ r.start \subseteq target
         /\ r.status = "none" => r.validated = Nothing
         /\ r.status = "ready" => r.ready # Nothing /\ r.paths = Differing(r.start, r.ready)
  PROVE  rec' \in [Sessions -> PlanRecord] /\ BegunInv'
<1>1. rec \in [Sessions -> PlanRecord]
  BY PlanTypes
<1>2. rec' \in [Sessions -> PlanRecord]
  BY <1>1
<1>3. \A o \in Sessions : rec'[o] = IF o = s THEN r ELSE rec[o]
  BY <1>1
<1>4. ASSUME NEW o \in Sessions
      PROVE  /\ rec'[o].start \subseteq target'
             /\ rec'[o].status = "none" => rec'[o].validated = Nothing
             /\ rec'[o].status = "ready" =>
                  rec'[o].ready # Nothing /\ rec'[o].paths = Differing(rec'[o].start, rec'[o].ready)
  <2>1. CASE o = s
    <3>1. rec'[o] = r
      BY <1>3, <2>1
    <3>2. QED
      BY <3>1
  <2>2. CASE o # s
    <3>1. rec'[o] = rec[o]
      BY <1>3, <2>2
    <3>2. /\ rec[o].start \subseteq target
          /\ rec[o].status = "none" => rec[o].validated = Nothing
          /\ rec[o].status = "ready" =>
               rec[o].ready # Nothing /\ rec[o].paths = Differing(rec[o].start, rec[o].ready)
      BY DEF PlanInv, BegunInv
    <3>3. QED
      BY <3>1, <3>2
  <2>3. QED
    BY <2>1, <2>2
<1>5. BegunInv'
  BY <1>4 DEF BegunInv, Differing
<1>6. QED
  BY <1>2, <1>5

LEMMA SameRecords ==
  ASSUME PlanInv, rec' = rec, target \subseteq target'
  PROVE  BegunInv'
<1>1. ASSUME NEW o \in Sessions
      PROVE  /\ rec'[o].start \subseteq target'
             /\ rec'[o].status = "none" => rec'[o].validated = Nothing
             /\ rec'[o].status = "ready" =>
                  rec'[o].ready # Nothing /\ rec'[o].paths = Differing(rec'[o].start, rec'[o].ready)
  BY DEF PlanInv, BegunInv
<1>2. QED
  BY <1>1 DEF BegunInv, Differing

(* The tree that a session works on.                                         *)
LEMMA WorkKept ==
  ASSUME PlanInv, NEW s \in Sessions, Commit(s) \/ MergeTarget(s)
  PROVE  PlanInv'
<1>1. UNCHANGED <<breaks, target, rec, merged, results>>
  BY DEF Commit, MergeTarget
<1>2. head' \in [Sessions -> Trees]
  <2>1. CASE Commit(s)
    <3>1. PICK x \in Own[s] \ head[s] : head' = [head EXCEPT ![s] = @ \cup {x}]
      BY <2>1 DEF Commit
    <3>2. x \in Change
      BY <3>1 DEF Change
    <3>3. QED
      BY <3>1, <3>2, PlanTypes DEF Trees
  <2>2. CASE MergeTarget(s)
    BY <2>2, PlanTypes DEF MergeTarget, Trees
  <2>3. QED
    BY <2>1, <2>2
<1>3. PlanTypeOK'
  BY <1>1, <1>2, PlanTypes DEF PlanTypeOK
<1>4. Kept' /\ PassedInv'
  BY <1>1, PassedKept
<1>5. BegunInv'
  BY <1>1, SameRecords
<1>6. QED
  BY <1>3, <1>4, <1>5 DEF PlanInv

LEMMA BeginKept ==
  ASSUME PlanInv, Stacked = {}, NEW s \in Sessions, Begin(s)
  PROVE  PlanInv'
<1> DEFINE r == [rec[s] EXCEPT !.status = "active", !.start = target]
<1>1. /\ rec[s].status = "none" /\ UNCHANGED <<breaks, target, merged, results>>
      /\ head' = [head EXCEPT ![s] = target] /\ rec' = [rec EXCEPT ![s] = r]
  BY DEF Begin, Set
<1>2. rec[s] \in PlanRecord /\ target \in Trees
  BY PlanTypes
<1>3. /\ r \in PlanRecord /\ r.start = target /\ r.status = "active"
      /\ r.validated = rec[s].validated
  BY <1>2 DEF PlanRecord
<1>4. rec[s].validated = Nothing
  BY <1>1 DEF PlanInv, BegunInv
<1> HIDE DEF r
<1>5. rec' \in [Sessions -> PlanRecord] /\ BegunInv'
  BY <1>1, <1>3, OneRecord
<1>6. PlanTypeOK'
  BY <1>1, <1>5, PlanTypes DEF PlanTypeOK
<1>7. Kept' /\ PassedInv'
  <2>1. \A o \in Sessions : rec'[o] = IF o = s THEN r ELSE rec[o]
    BY <1>1, PlanTypes
  <2>2. \A o \in Sessions : rec'[o].validated # Nothing =>
          rec'[o].validated = rec[o].validated /\ rec'[o].start = rec[o].start
    BY <1>3, <1>4, <2>1
  <2>3. QED
    BY <1>1, <2>2, PassedKept
<1>8. QED
  BY <1>5, <1>6, <1>7 DEF PlanInv

LEMMA MakeReadyKept ==
  ASSUME PlanAssumption, PlanInv, NEW s \in Sessions, MakeReady(s)
  PROVE  PlanInv'
<1> DEFINE name == Selected(Paths(s), rec[s].validated = head[s]).name
           r == [rec[s] EXCEPT !.status = "ready", !.ready = head[s], !.paths = Paths(s),
                   !.tier = name]
<1>1. UNCHANGED <<breaks, target, head, merged, results>> /\ rec' = [rec EXCEPT ![s] = r]
  BY DEF MakeReady, Set
<1>2. rec[s] \in PlanRecord /\ head[s] \in Trees
  BY PlanTypes
<1>3. Paths(s) \in SUBSET {PathOf[x] : x \in Change}
  BY <1>2, DifferingTypes DEF Paths, PlanRecord
<1>4. name \in {Tiers[i].name : i \in DOMAIN Tiers} \cup {"none", "full"}
  <2>1. (rec[s].validated = head[s]) \in BOOLEAN
    OBVIOUS
  <2>2. QED
    BY <2>1, SelectedTypes
<1>5. Paths(s) = Differing(rec[s].start, head[s])
  BY DEF Paths
<1> HIDE DEF name
<1>6. /\ r \in PlanRecord /\ r.start = rec[s].start /\ r.status = "ready"
      /\ r.ready = head[s] /\ r.paths = Paths(s) /\ r.validated = rec[s].validated
  BY <1>2, <1>3, <1>4 DEF PlanRecord
<1> HIDE DEF r
<1>7. head[s] # Nothing
  BY <1>2 DEF PlanAssumption
<1>8. rec[s].start \subseteq target
  BY DEF PlanInv, BegunInv
<1>9. rec' \in [Sessions -> PlanRecord] /\ BegunInv'
  BY <1>1, <1>5, <1>6, <1>7, <1>8, OneRecord
<1>10. PlanTypeOK'
  BY <1>1, <1>9, PlanTypes DEF PlanTypeOK
<1>11. Kept' /\ PassedInv'
  <2>1. \A o \in Sessions : rec'[o] = IF o = s THEN r ELSE rec[o]
    BY <1>1, PlanTypes
  <2>2. \A o \in Sessions :
          rec'[o].validated = rec[o].validated /\ rec'[o].start = rec[o].start
    BY <1>6, <2>1
  <2>3. QED
    BY <1>1, <2>2, PassedKept
<1>12. QED
  BY <1>9, <1>10, <1>11 DEF PlanInv

(* Results are recorded of commands that passed, or that had passed.         *)
LEMMA RecordedTrue ==
  ASSUME PlanAssumption, PlanInv, NEW tree \in Trees, NEW cs \in SUBSET Checks,
         Recorded(tree, cs), Pass(tree, cs)
  PROVE  /\ results' \subseteq Trees \X Checks
         /\ \A t \in Trees, c \in Checks :
              <<t, c>> \in results' => <<t, c>> \in results \/ Passing(breaks, t, {c})
<1>1. results' = results \cup {<<tree, c>> : c \in cs}
  BY DEF Recorded
<1>2. results' \subseteq Trees \X Checks
  BY <1>1, PlanTypes
<1>3. ASSUME NEW t \in Trees, NEW c \in Checks, <<t, c>> \in results', <<t, c>> \notin results
      PROVE  Passing(breaks, t, {c})
  <2>1. t = tree /\ c \in cs
    BY <1>1, <1>3
  <2>2. QED
    BY <2>1 DEF Pass, Passes, Passing
<1>4. QED
  BY <1>2, <1>3

LEMMA ValidateKept ==
  ASSUME PlanAssumption, PlanInv, Dirty = {}, NEW s \in Sessions, Validate(s)
  PROVE  PlanInv'
<1> DEFINE plan == Selected(Paths(s), TRUE)
           r == [rec[s] EXCEPT !.tier = plan.name, !.paths = Paths(s), !.validated = head[s]]
<1>1. /\ UNCHANGED <<breaks, target, head, merged>> /\ rec' = [rec EXCEPT ![s] = r]
      /\ Pass(head[s], plan.source \ Cached(head[s])) /\ Recorded(head[s], plan.source)
      /\ rec[s].status = "active"
  BY DEF Validate, Set
<1>2. rec[s] \in PlanRecord /\ head[s] \in Trees
  BY PlanTypes
<1>3. Paths(s) \in SUBSET {PathOf[x] : x \in Change}
  BY <1>2, DifferingTypes DEF Paths, PlanRecord
<1>4. /\ plan.name \in {Tiers[i].name : i \in DOMAIN Tiers} \cup {"none", "full"}
      /\ plan.source \in SUBSET Checks
  BY SelectedTypes
<1>5. plan = PlanOf(rec[s].start, head[s])
  BY DEF Paths, PlanOf
<1> HIDE DEF plan
<1>6. /\ r \in PlanRecord /\ r.start = rec[s].start /\ r.status = "active"
      /\ r.validated = head[s]
  BY <1>1, <1>2, <1>3, <1>4 DEF PlanRecord
<1> HIDE DEF r
<1>7. Pass(head[s], plan.source)
  <2>1. \A c \in Checks : c \in Cached(head[s]) => Passes(head[s], c)
    BY <1>2 DEF Cached, PlanInv, PassedInv
  <2>2. QED
    BY <1>1, <1>4, <2>1 DEF Pass
<1>8. rec[s].start \subseteq target
  BY DEF PlanInv, BegunInv
<1>9. rec' \in [Sessions -> PlanRecord] /\ BegunInv'
  BY <1>1, <1>6, <1>8, OneRecord
<1>10. /\ results' \subseteq Trees \X Checks
       /\ \A t \in Trees, c \in Checks :
            <<t, c>> \in results' => <<t, c>> \in results \/ Passing(breaks, t, {c})
  BY <1>1, <1>2, <1>4, <1>7, RecordedTrue
<1>11. PlanTypeOK'
  BY <1>1, <1>9, <1>10, PlanTypes DEF PlanTypeOK
<1>12. Kept' /\ PassedInv'
  <2>1. \A o \in Sessions : rec'[o] = IF o = s THEN r ELSE rec[o]
    BY <1>1, PlanTypes
  <2>2. Passing(breaks, head[s], PlanOf(rec[s].start, head[s]).source)
    BY <1>5, <1>7, PassingIs
  <2>3. ASSUME NEW o \in Sessions, rec'[o].validated # Nothing
        PROVE  \/ rec'[o].validated = rec[o].validated /\ rec'[o].start = rec[o].start
               \/ Passing(breaks, rec'[o].validated, PlanOf(rec'[o].start, rec'[o].validated).source)
    <3>1. CASE o = s
      <4>1. rec'[o].validated = head[s] /\ rec'[o].start = rec[s].start
        BY <1>6, <2>1, <3>1
      <4>2. QED
        BY <2>2, <4>1
    <3>2. CASE o # s
      BY <2>1, <3>2
    <3>3. QED
      BY <3>1, <3>2
  <2>4. QED
    BY <1>1, <1>10, <2>3, PassedKept
<1>13. QED
  BY <1>9, <1>11, <1>12 DEF PlanInv

(* A merged tree that passes, in the place of one session.                   *)
LEMMA MergedKept ==
  ASSUME PlanInv, NEW s \in Sessions, NEW tree \in Trees,
         merged' = [merged EXCEPT ![s] = tree], Pass(tree, Full),
         UNCHANGED <<breaks, target, head, rec>>, results' \subseteq Trees \X Checks,
         \A t \in Trees, c \in Checks :
           <<t, c>> \in results' => <<t, c>> \in results \/ Passing(breaks, t, {c})
  PROVE  PlanInv'
<1>1. merged' \in [Sessions -> {Nothing} \cup Trees]
  BY PlanTypes
<1>2. PlanTypeOK'
  BY <1>1, PlanTypes DEF PlanTypeOK
<1>3. \A o \in Sessions : merged'[o] = IF o = s THEN tree ELSE merged[o]
  BY PlanTypes
<1>4. \A o \in Sessions : merged'[o] = merged[o] \/ Passing(breaks, merged'[o], Full)
  BY <1>3, PassingIs
<1>5. Kept' /\ PassedInv'
  BY <1>4, PassedKept
<1>6. BegunInv'
  BY SameRecords
<1>7. QED
  BY <1>2, <1>5, <1>6 DEF PlanInv

LEMMA IntegrateKept ==
  ASSUME PlanAssumption, PlanInv, NEW s \in Sessions, Integrate(s)
  PROVE  PlanInv'
<1> DEFINE tree == target \cup rec[s].ready
           plan == Selected(rec[s].paths, Allowed(rec[s]))
           reuse == rec[s].validated = rec[s].ready
           reused == IF reuse THEN Reused(rec[s].ready, tree, plan.integration) ELSE {}
           steps == plan.integration \cup IF reuse THEN Added(rec[s].ready, tree) ELSE {}
           run == (steps \ reused) \ Cached(tree)
<1>1. /\ rec[s].status = "ready" /\ Pass(tree, run) /\ Recorded(tree, run)
      /\ merged' = [merged EXCEPT ![s] = tree] /\ UNCHANGED <<breaks, target, head, rec>>
  BY DEF Integrate
<1>2. tree \in Trees
  <2>1. rec[s] \in PlanRecord /\ target \in Trees
    BY PlanTypes
  <2>2. rec[s].ready \in Trees
    BY <1>1, <2>1 DEF PlanRecord, PlanInv, BegunInv
  <2>3. QED
    BY <2>1, <2>2 DEF Trees
<1>3. run \in SUBSET Checks
  <2>1. plan.integration \subseteq Checks
    <3>1. Allowed(rec[s]) \in BOOLEAN
      BY DEF Allowed
    <3>2. QED
      BY <3>1, SelectedTypes
  <2>2. Added(rec[s].ready, tree) \subseteq Checks
    <3>1. \A i \in MovedBy(rec[s].ready, tree) : i \in DOMAIN Tiers
      <4> DEFINE is == Matching(Differing(rec[s].ready, tree))
      <4>1. is \in SUBSET DOMAIN Tiers
        BY DEF Matching
      <4>2. is # {} => Earliest(is) \in is
        BY <4>1, FirstTier
      <4>3. \A i \in MovedBy(rec[s].ready, tree) : is # {} /\ i = Earliest(is)
        BY DEF MovedBy
      <4>4. QED
        BY <4>1, <4>2, <4>3
    <3>2. QED
      BY <3>1, TierTypes DEF Added
  <2> HIDE DEF plan
  <2>3. QED
    BY <2>1, <2>2
<1>4. Pass(tree, Full)
  BY IntegratedPasses
<1> HIDE DEF run, tree
<1>5. /\ results' \subseteq Trees \X Checks
      /\ \A t \in Trees, c \in Checks :
           <<t, c>> \in results' => <<t, c>> \in results \/ Passing(breaks, t, {c})
  BY <1>1, <1>2, <1>3, RecordedTrue
<1>6. QED
  BY <1>1, <1>2, <1>4, <1>5, MergedKept

LEMMA RecoverKept ==
  ASSUME PlanAssumption, PlanInv, NEW s \in Sessions, RecoverTarget(s)
  PROVE  PlanInv'
<1> DEFINE tree == target \cup merged[s]
<1>1. /\ merged[s] # Nothing /\ Pass(tree, Full) /\ Recorded(tree, Full)
      /\ merged' = [merged EXCEPT ![s] = tree] /\ UNCHANGED <<breaks, target, head, rec>>
  BY DEF RecoverTarget
<1>2. tree \in Trees
  BY <1>1, PlanTypes DEF Trees
<1>3. Full \in SUBSET Checks
  BY DEF PlanAssumption
<1> HIDE DEF tree
<1>4. /\ results' \subseteq Trees \X Checks
      /\ \A t \in Trees, c \in Checks :
           <<t, c>> \in results' => <<t, c>> \in results \/ Passing(breaks, t, {c})
  BY <1>1, <1>2, <1>3, RecordedTrue
<1>5. QED
  BY <1>1, <1>2, <1>4, MergedKept

LEMMA PromoteKept ==
  ASSUME PlanAssumption, PlanInv, NEW s \in Sessions, Promote(s)
  PROVE  PlanInv'
<1> DEFINE r == [rec[s] EXCEPT !.status = "succeeded"]
<1>1. /\ merged[s] # Nothing /\ target \subseteq merged[s] /\ target' = merged[s]
      /\ merged' = [merged EXCEPT ![s] = Nothing] /\ rec' = [rec EXCEPT ![s] = r]
      /\ UNCHANGED <<breaks, head, results>>
  BY DEF Promote, Set
<1>2. rec[s] \in PlanRecord
  BY PlanTypes
<1>3. /\ r \in PlanRecord /\ r.start = rec[s].start /\ r.status = "succeeded"
      /\ r.validated = rec[s].validated
  BY <1>2 DEF PlanRecord
<1> HIDE DEF r
<1>4. rec[s].start \subseteq target
  BY DEF PlanInv, BegunInv
<1>5. rec' \in [Sessions -> PlanRecord] /\ BegunInv'
  BY <1>1, <1>3, <1>4, OneRecord
<1>6. target' \in Trees /\ merged' \in [Sessions -> {Nothing} \cup Trees]
  BY <1>1, PlanTypes
<1>7. PlanTypeOK'
  BY <1>1, <1>5, <1>6, PlanTypes DEF PlanTypeOK
<1>8. Kept' /\ PassedInv'
  <2>1. Passing(breaks, target', Full)
    BY <1>1, PassingIs DEF PlanInv, PassedInv
  <2>2. \A o \in Sessions : merged'[o] # Nothing => merged'[o] = merged[o]
    BY <1>1, PlanTypes
  <2>3. \A o \in Sessions : rec'[o] = IF o = s THEN r ELSE rec[o]
    BY <1>1, PlanTypes
  <2>4. \A o \in Sessions :
          rec'[o].validated = rec[o].validated /\ rec'[o].start = rec[o].start
    BY <1>3, <2>3
  <2>5. QED
    BY <1>1, <2>1, <2>2, <2>4, PassedKept
<1>9. QED
  BY <1>5, <1>7, <1>8 DEF PlanInv

LEMMA BatchKept ==
  ASSUME PlanAssumption, PlanInv, NEW ss \in SUBSET Sessions, Batch(ss),
         \A i, j \in DOMAIN Tiers : Tiers[i].name = Tiers[j].name => i = j
  PROVE  PlanInv'
<1> DEFINE tree == target \cup UNION {rec[s].ready : s \in ss}
<1>1. /\ \A s \in ss : rec[s].status = "ready" /\ target' = tree
      /\ rec' = [s \in Sessions |-> IF s \in ss THEN [rec[s] EXCEPT !.status = "succeeded"] ELSE rec[s]]
      /\ UNCHANGED <<breaks, head, merged, results>>
  BY DEF Batch
<1>2. tree \in Trees
  <2>1. \A s \in ss : rec[s].ready \in Trees
    <3>1. \A s \in Sessions : rec[s] \in PlanRecord
      BY PlanTypes
    <3>2. \A s \in ss : rec[s].ready # Nothing
      BY <1>1 DEF PlanInv, BegunInv
    <3>3. QED
      BY <3>1, <3>2 DEF PlanRecord
  <2>2. QED
    BY <2>1, PlanTypes DEF Trees
<1>3. target' = tree
  BY DEF Batch
<1>4. Pass(tree, Full)
  BY BatchPasses
<1>5. target \subseteq tree
  OBVIOUS
<1> HIDE DEF tree
<1>6. ASSUME NEW s \in Sessions
      PROVE  /\ rec'[s] \in PlanRecord /\ rec'[s].start = rec[s].start
             /\ rec'[s].validated = rec[s].validated
             /\ rec'[s] = rec[s] \/ rec'[s].status = "succeeded"
  <2>1. rec[s] \in PlanRecord
    BY PlanTypes
  <2>2. CASE s \in ss
    <3>1. rec'[s] = [rec[s] EXCEPT !.status = "succeeded"]
      BY <1>1, <2>2
    <3>2. QED
      BY <2>1, <3>1 DEF PlanRecord
  <2>3. CASE s \notin ss
    BY <1>1, <2>1, <2>3
  <2>4. QED
    BY <2>2, <2>3
<1>7. rec' \in [Sessions -> PlanRecord]
  <2>1. DOMAIN rec' = Sessions /\ rec' = [s \in Sessions |-> rec'[s]]
    BY <1>1
  <2>2. QED
    BY <1>6, <2>1
<1>8. PlanTypeOK'
  BY <1>1, <1>2, <1>3, <1>7, PlanTypes DEF PlanTypeOK
<1>9. Kept' /\ PassedInv'
  <2>1. Passing(breaks, target', Full)
    BY <1>3, <1>4, PassingIs
  <2>2. QED
    BY <1>1, <1>6, <2>1, PassedKept
<1>10. BegunInv'
  <2>1. ASSUME NEW o \in Sessions
        PROVE  /\ rec'[o].start \subseteq target'
               /\ rec'[o].status = "none" => rec'[o].validated = Nothing
               /\ rec'[o].status = "ready" =>
                    rec'[o].ready # Nothing /\ rec'[o].paths = Differing(rec'[o].start, rec'[o].ready)
    <3>1. /\ rec[o].start \subseteq target
          /\ rec[o].status = "none" => rec[o].validated = Nothing
          /\ rec[o].status = "ready" =>
               rec[o].ready # Nothing /\ rec[o].paths = Differing(rec[o].start, rec[o].ready)
      BY DEF PlanInv, BegunInv
    <3>2. CASE rec'[o] = rec[o]
      BY <1>3, <1>5, <3>1, <3>2
    <3>3. CASE rec'[o].status = "succeeded"
      BY <1>3, <1>5, <1>6, <3>1, <3>3
    <3>4. QED
      BY <1>6, <3>2, <3>3
  <2>2. QED
    BY <2>1 DEF BegunInv, Differing
<1>11. QED
  BY <1>8, <1>9, <1>10 DEF PlanInv

LEMMA UserKept ==
  ASSUME PlanInv, UserCommits
  PROVE  PlanInv'
<1>1. PICK x \in Users \ target : target' = target \cup {x}
  BY DEF UserCommits
<1>2. UNCHANGED <<breaks, head, rec, merged, results>> /\ Passing(breaks, target', Full)
  BY DEF UserCommits, Pass, Passes, Passing
<1>3. target' \in Trees
  BY <1>1, PlanTypes DEF Trees, Change
<1>4. PlanTypeOK'
  BY <1>2, <1>3, PlanTypes DEF PlanTypeOK
<1>5. Kept' /\ PassedInv'
  BY <1>2, PassedKept
<1>6. BegunInv'
  BY <1>1, <1>2, SameRecords
<1>7. QED
  BY <1>4, <1>5, <1>6 DEF PlanInv

LEMMA PlanBegins ==
  ASSUME PlanAssumption, PlanInit
  PROVE  PlanInv
<1>1. /\ breaks \in [Checks -> {Nothing} \cup (Trees \ {{}})] /\ Kept /\ target = {}
      /\ head = [s \in Sessions |-> {}] /\ merged = [s \in Sessions |-> Nothing] /\ results = {}
      /\ rec = [s \in Sessions |-> [status |-> "none", start |-> {}, ready |-> Nothing, tier |-> "none",
                                    paths |-> {}, validated |-> Nothing]]
  BY DEF PlanInit, PlanAssumption
<1>2. {} \in Trees
  BY DEF Trees
<1>3. PlanTypeOK
  <2>1. rec \in [Sessions -> PlanRecord]
    BY <1>1, <1>2 DEF PlanRecord
  <2>2. QED
    BY <1>1, <1>2, <2>1 DEF PlanTypeOK
<1>4. Pass(target, Full)
  <2>1. \A c \in Full : breaks[c] # Nothing => breaks[c] # {}
    BY <1>1 DEF PlanAssumption
  <2>2. QED
    BY <1>1, <2>1 DEF Pass, Passes
<1>5. PassedInv /\ BegunInv
  BY <1>1, <1>4 DEF PassedInv, BegunInv
<1>6. QED
  BY <1>1, <1>3, <1>5 DEF PlanInv

(* What reaches the target passes the full plan, whatever the commands, the  *)
(* tiers and their paths, the sessions, the changes and what fails where: a  *)
(* lighter tier, results of another tree and the one plan of a batch stand   *)
(* for commands that would have passed. Tiers keep what their configuration  *)
(* asserts; sessions begin on the target, in clean worktrees; no two tiers   *)
(* share a name, by which a batch compares them.                             *)
THEOREM PlansSuffice ==
  ASSUME Stacked = {}, Dirty = {},
         \A i, j \in DOMAIN Tiers : Tiers[i].name = Tiers[j].name => i = j
  PROVE  PlanSpec => []TargetPasses
<1> USE PlanAssumption
<1>1. PlanInit => PlanInv
  BY PlanBegins
<1>2. PlanInv /\ [PlanNext]_planVars => PlanInv'
  <2> SUFFICES ASSUME PlanInv, [PlanNext]_planVars PROVE PlanInv'
    OBVIOUS
  <2>1. ASSUME NEW s \in Sessions, Begin(s) PROVE PlanInv'
    BY <2>1, BeginKept
  <2>2. ASSUME NEW s \in Sessions, Commit(s) \/ MergeTarget(s) PROVE PlanInv'
    BY <2>2, WorkKept
  <2>3. ASSUME NEW s \in Sessions, Validate(s) PROVE PlanInv'
    BY <2>3, ValidateKept
  <2>4. ASSUME NEW s \in Sessions, MakeReady(s) PROVE PlanInv'
    BY <2>4, MakeReadyKept
  <2>5. ASSUME NEW s \in Sessions, Integrate(s) PROVE PlanInv'
    BY <2>5, IntegrateKept
  <2>6. ASSUME NEW s \in Sessions, Promote(s) PROVE PlanInv'
    BY <2>6, PromoteKept
  <2>7. ASSUME NEW s \in Sessions, RecoverTarget(s) PROVE PlanInv'
    BY <2>7, RecoverKept
  <2>8. ASSUME NEW ss \in SUBSET Sessions, Batch(ss) PROVE PlanInv'
    BY <2>8, BatchKept
  <2>9. CASE UserCommits
    BY <2>9, UserKept
  <2>10. CASE UNCHANGED planVars
    <3>1. UNCHANGED <<breaks, target, head, rec, merged, results>>
      BY <2>10 DEF planVars
    <3>2. PlanTypeOK'
      BY <3>1, PlanTypes DEF PlanTypeOK
    <3>3. Kept' /\ PassedInv' /\ BegunInv'
      BY <3>1, PassedKept, SameRecords
    <3>4. QED
      BY <3>2, <3>3 DEF PlanInv
  <2>11. QED
    BY <2>1, <2>2, <2>3, <2>4, <2>5, <2>6, <2>7, <2>8, <2>9, <2>10 DEF PlanNext
<1>3. PlanInv => TargetPasses
  BY DEF PlanInv, PassedInv, TargetPasses
<1>4. QED
  BY <1>1, <1>2, <1>3, PTL DEF PlanSpec
=============================================================================
