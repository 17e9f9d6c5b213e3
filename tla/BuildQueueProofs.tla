--------------------------- MODULE BuildQueueProofs ---------------------------
(***************************************************************************)
(* Proofs about BuildQueue for any requests, processes, stamps and limits, *)
(* and about its mutex, AdmissionGate, for any coordinators and sockets.   *)
(***************************************************************************)
EXTENDS QueueHistory, FiniteSetTheorems, TLAPS

(* Whatever the machine, a setting that is accepted leaves at least one    *)
(* slot, and "auto" four at most: no command waits for a queue without any *)
(* because processors or memory are few.                                   *)
THEOREM CapacityPositive ==
  ASSUME NEW setting \in Settings, NEW cpus \in Nat, NEW mib \in Nat,
         NEW unlimited \in Nat \ {0}, Accepted(setting)
  PROVE  /\ QueueCapacity(setting, cpus, mib, unlimited) \in Nat \ {0}
         /\ setting.concurrency = "auto"
              => QueueCapacity(setting, cpus, mib, unlimited) \leq 4
<1> DEFINE half == cpus \div 2
           gib == (mib - 2048) \div 4096
<1>1. half \in Int /\ gib \in Int
  OBVIOUS
<1>2. DefaultConcurrency(cpus, mib) \in 1..4
  <2> HIDE DEF half, gib
  <2>1. Higher(1, Lower(4, Lower(half, gib))) \in 1..4
    BY <1>1 DEF Higher, Lower
  <2>2. QED
    BY <2>1 DEF DefaultConcurrency, half, gib
<1>3. CASE setting.concurrency = "auto"
  BY <1>2, <1>3 DEF QueueCapacity
<1>4. CASE setting.concurrency = "unlimited"
  BY <1>4 DEF QueueCapacity
<1>5. CASE setting.concurrency = "fixed"
  <2>1. setting.slots \in 1..64
    BY <1>5 DEF Accepted
  <2>2. QueueCapacity(setting, cpus, mib, unlimited) = setting.slots
    BY <1>5 DEF QueueCapacity
  <2>3. QED
    BY <1>5, <2>1, <2>2
<1>6. QED
  BY <1>3, <1>4, <1>5 DEF Settings

(* Workers for tests never oversubscribe the machine: the commands that an *)
(* accepted setting lets run together, each with its workers, use at most  *)
(* all processors but one, unless the commands alone are more; and every   *)
(* command has a worker.                                                   *)
THEOREM WorkersShareTheMachine ==
  ASSUME NEW setting \in Settings, NEW cpus \in Nat, NEW mib \in Nat,
         Accepted(setting), setting.concurrency = "fixed"
  PROVE  LET workers == ResolveTestWorkers(setting, cpus, mib)
         IN /\ workers \in Nat \ {0}
            /\ workers * setting.slots \leq Higher(setting.slots, cpus - 1)
<1> DEFINE slots == setting.slots
           most == Higher(1, cpus - 1)
           share == most \div slots
<1>1. slots \in Nat /\ slots \geq 1 /\ most \in Nat /\ most \geq 1
  BY DEF Accepted, Settings, Higher
<1>2. Higher(1, slots) = slots
  BY <1>1 DEF Higher
<1>3. ResolveTestWorkers(setting, cpus, mib) = Higher(1, share)
  BY <1>2 DEF ResolveTestWorkers, BoundedWorkers
<1>4. share \in Nat /\ share * slots \leq most
  <2> HIDE DEF most, slots
  <2>1. \A a \in Nat, b \in Nat \ {0} : a \div b \in Nat /\ (a \div b) * b \leq a
    OBVIOUS
  <2>2. QED
    BY <1>1, <2>1
<1>5. Higher(1, share) * slots \leq Higher(slots, cpus - 1)
  <2>1. CASE share = 0
    BY <1>1, <2>1 DEF Higher
  <2>2. CASE share \geq 1
    <3>1. share * slots \geq slots
      BY <1>1, <1>4, <2>2
    <3>2. QED
      BY <1>1, <1>4, <2>2, <3>1 DEF Higher
  <2>3. QED
    BY <1>4, <2>1, <2>2
<1>6. QED
  BY <1>3, <1>4, <1>5 DEF Higher

(* A request has a stamp from its first step on; the requests of a dead    *)
(* process, and only those, are dead; what runs of a command runs in the   *)
(* slot of a request that has not begun to give it back.                   *)
Stamped == \A r \in Requests :
  pc[r] \notin {"idle", "dead"} \/ entry[r] # "none" => queuedAt[r] \in Times

DeadIsDead == \A r \in Requests : OwnerAlive(r) <=> pc[r] # "dead"

GroupInSlot == \A r \in group :
  entry[r] = "running" /\ pc[r] \in {"executing", "retained", "dead"}

IInv == TypeOK /\ Stamped /\ DeadIsDead /\ EntryFollowsRequest /\ GroupInSlot

(* The set Position counts.                                                *)
Ahead(r) == {q \in Waiting : Before(q, r)}

LEMMA Counts ==
  /\ IsFiniteSet(Running) /\ Cardinality(Running) \in Nat
  /\ \A r \in Requests : IsFiniteSet(Ahead(r)) /\ Position(r) \in Nat
<1>1. \A Q : Q \subseteq Requests => IsFiniteSet(Q) /\ Cardinality(Q) \in Nat
  BY QueueAssumption, FS_Subset, FS_CardinalityType
<1>2. Running \subseteq Requests /\ \A r \in Requests : Ahead(r) \subseteq Requests
  BY DEF Running, Ahead, Waiting
<1>3. QED
  BY <1>1, <1>2 DEF Position, Ahead

(* Every variable keeps its type: an entry is none, waiting or running,    *)
(* the limit is a configured one, the last position a number.              *)
THEOREM TypeCorrect == Spec => []TypeOK
<1> Unplaced \in Nat
  BY QueueAssumption, FS_CardinalityType DEF Unplaced
<1>1. Init => TypeOK
  BY QueueAssumption DEF Init, TypeOK, Steps
<1>2. TypeOK /\ [Next]_vars => TypeOK'
  <2> SUFFICES ASSUME TypeOK, [Next]_vars PROVE TypeOK'
    OBVIOUS
  <2> USE DEF TypeOK, Goto, Steps
  <2>1. CASE Configure \/ UNCHANGED vars
    <3>1. CASE Configure
      BY <3>1, QueueAssumption DEF Configure
    <3>2. CASE UNCHANGED vars
      BY <3>2 DEF vars
    <3>3. QED
      BY <2>1, <3>1, <3>2
  <2>2. ASSUME NEW r \in Requests, RequestStep(r) PROVE TypeOK'
    <3>1. CASE Ask(r) \/ Enter(r) \/ Register(r)
      BY <3>1 DEF Ask, Enter, Register
    <3>2. CASE Prune(r)
      BY <3>2 DEF Prune
    <3>3. CASE Decide(r)
      <4>1. Position(r) \in Nat /\ Running \subseteq Requests
        BY Counts DEF Running
      <4>2. QED
        BY <3>3, <4>1 DEF Decide
    <3>4. CASE PollAgain(r) \/ TimeOut(r) \/ Cancel(r)
      BY <3>4 DEF PollAgain, TimeOut, Cancel
    <3>5. CASE Spawn(r) \/ SpawnFails(r) \/ Close(r)
      BY <3>5 DEF Spawn, SpawnFails, Close
    <3>6. CASE Release(r) \/ ReleaseBusy(r)
      BY <3>6 DEF Release, ReleaseBusy
    <3>7. QED
      BY <2>2, <3>1, <3>2, <3>3, <3>4, <3>5, <3>6 DEF RequestStep
  <2>3. ASSUME NEW r \in Requests, GroupEnds(r) \/ Recover(r) PROVE TypeOK'
    BY <2>3 DEF GroupEnds, Recover
  <2>4. ASSUME NEW p \in Processes, Die(p) PROVE TypeOK'
    BY <2>4 DEF Die
  <2>5. QED
    BY <2>1, <2>2, <2>3, <2>4 DEF Next
<1>3. QED
  BY <1>1, <1>2, PTL DEF Spec

------------------------------------------------------------------------------
LEMMA InitIInv == Init => IInv
<1> SUFFICES ASSUME Init PROVE IInv
  OBVIOUS
<1>1. TypeOK
  BY QueueAssumption, FS_CardinalityType DEF Init, TypeOK, Steps, Unplaced
<1>2. QED
  BY <1>1, QueueAssumption
     DEF Init, IInv, Stamped, DeadIsDead, EntryFollowsRequest, GroupInSlot,
         OwnerAlive

(* A step of a request keeps the entries of the other live requests and    *)
(* never takes the slot of a command that runs.                            *)
LEMMA RequestStepIInv ==
  ASSUME IInv, TypeOK', NEW r \in Requests, RequestStep(r)
  PROVE  IInv'
<1> USE DEF IInv, TypeOK, Stamped, DeadIsDead, EntryFollowsRequest, GroupInSlot,
            OwnerAlive, Goto
<1>1. CASE Ask(r)
  BY <1>1 DEF Ask
<1>2. CASE Enter(r)
  BY <1>2 DEF Enter
<1>3. CASE Register(r)
  BY <1>3 DEF Register
<1>4. CASE Prune(r)
  BY <1>4 DEF Prune
<1>5. CASE Decide(r)
  <2>1. /\ entry' \in {entry, [entry EXCEPT ![r] = "running"]}
        /\ pc' \in {[pc EXCEPT ![r] = s] :
                      s \in {"releasing", "admitted", "polling", "stalled"}}
        /\ entry' # entry => pc'[r] = "admitted"
        /\ pc'[r] = "admitted" => entry'[r] = "running"
        /\ UNCHANGED <<queuedAt, group, alive>>
        /\ pc[r] = "deciding"
    BY <1>5 DEF Decide
  <2>2. QED
    BY <2>1
<1>6. CASE PollAgain(r) \/ TimeOut(r) \/ Cancel(r)
  BY <1>6 DEF PollAgain, TimeOut, Cancel
<1>7. CASE Spawn(r) \/ SpawnFails(r)
  BY <1>7 DEF Spawn, SpawnFails
<1>8. CASE Close(r)
  BY <1>8 DEF Close
<1>9. CASE Release(r) \/ ReleaseBusy(r)
  BY <1>9 DEF Release, ReleaseBusy
<1>10. QED
  BY <1>1, <1>2, <1>3, <1>4, <1>5, <1>6, <1>7, <1>8, <1>9 DEF RequestStep

LEMMA NextIInv == IInv /\ TypeOK' /\ [Next]_vars => IInv'
<1> SUFFICES ASSUME IInv, TypeOK', [Next]_vars PROVE IInv'
  OBVIOUS
<1> USE DEF IInv, TypeOK, Stamped, DeadIsDead, EntryFollowsRequest, GroupInSlot,
            OwnerAlive
<1>1. ASSUME NEW r \in Requests, GroupEnds(r) \/ Recover(r) PROVE IInv'
  BY <1>1 DEF GroupEnds, Recover
<1>2. ASSUME NEW p \in Processes, Die(p) PROVE IInv'
  BY <1>2, QueueAssumption DEF Die
<1>3. CASE Configure \/ UNCHANGED vars
  BY <1>3 DEF Configure, vars
<1>4. QED
  BY <1>1, <1>2, <1>3, RequestStepIInv DEF Next

(* The parts of IInv hold together at every step of the queue: types, what   *)
(* the entry files say of requests, and that workloads belong to entries.    *)
THEOREM Invariance == Spec => []IInv
BY InitIInv, NextIInv, TypeCorrect, PTL DEF Spec

(* The entry files agree with what the live requests believe of them, so   *)
(* the errors "ownership lost" and "ownership changed" are unreachable.    *)
THEOREM EntriesFollow == Spec => []EntryFollowsRequest
<1>1. IInv => EntryFollowsRequest
  BY DEF IInv
<1>2. QED
  BY <1>1, Invariance, PTL

(* Nothing of a command runs without a running entry, whichever process    *)
(* dies at whatever step.                                                  *)
THEOREM WorkloadsHaveSlots == Spec => []WorkloadHasSlot
<1>1. IInv => WorkloadHasSlot
  BY DEF IInv, GroupInSlot, WorkloadHasSlot
<1>2. QED
  BY <1>1, Invariance, PTL

------------------------------------------------------------------------------
LEMMA SameCardinality == \A T : S!Cardinality(T) = Cardinality(T)
BY DEF S!Cardinality, Cardinality

(* The steps that change the running entries or the groups, and how.       *)
LEMMA SlotSteps ==
  ASSUME IInv, [Next]_vars
  PROVE  \/ UNCHANGED <<Running, group, limit>>
         \/ \E r \in Waiting : S!Take(r) /\ Fits(r)
         \/ \E r \in Requests : S!Launch(r) \/ S!Stop(r) \/ S!Free(r)
         \/ S!Configure
<1> USE DEF IInv, TypeOK, GroupInSlot, EntryFollowsRequest, Goto
<1>1. ASSUME entry' = entry, UNCHANGED <<group, limit>>
      PROVE  UNCHANGED <<Running, group, limit>>
  BY <1>1 DEF Running
<1>2. ASSUME NEW r \in Requests, entry' = [entry EXCEPT ![r] = "none"],
             r \notin group, UNCHANGED <<group, limit>>
      PROVE  UNCHANGED <<Running, group, limit>> \/ S!Free(r)
  <2>1. Running' = Running \ {r}
    BY <1>2 DEF Running
  <2>2. QED
    BY <1>2, <2>1 DEF S!Free
<1>3. ASSUME NEW r \in Requests, Ask(r) \/ Enter(r) \/ PollAgain(r) \/ TimeOut(r)
             \/ Cancel(r) \/ SpawnFails(r) \/ Close(r) \/ ReleaseBusy(r)
      PROVE  UNCHANGED <<Running, group, limit>>
  BY <1>1, <1>3 DEF Ask, Enter, PollAgain, TimeOut, Cancel, SpawnFails, Close,
     ReleaseBusy
<1>4. ASSUME NEW r \in Requests, Register(r) PROVE UNCHANGED <<Running, group, limit>>
  <2>1. entry[r] # "running"
    BY <1>4 DEF Register, DeadIsDead
  <2>2. QED
    BY <1>4, <2>1 DEF Register, Running
<1>5. ASSUME NEW r \in Requests, Prune(r) PROVE UNCHANGED <<Running, group, limit>>
  BY <1>5 DEF Prune, Running
<1>6. ASSUME NEW r \in Requests, Decide(r)
      PROVE  \/ UNCHANGED <<Running, group, limit>>
             \/ r \in Waiting /\ S!Take(r) /\ Fits(r)
  <2>1. CASE entry[r] = "waiting" /\ Orphans = {} /\ Fits(r)
    <3>1. Running' = Running \cup {r} /\ r \notin Running /\ r \notin group
      BY <1>6, <2>1 DEF Decide, Running
    <3>2. S!Cardinality(Running) < limit
      BY <2>1, Counts, QueueAssumption, SameCardinality DEF Fits
    <3>3. UNCHANGED <<group, limit>>
      BY <1>6 DEF Decide
    <3>4. r \in Waiting
      BY <1>6, <2>1 DEF Decide, Waiting, DeadIsDead
    <3>5. QED
      BY <2>1, <3>1, <3>2, <3>3, <3>4 DEF S!Take
  <2>2. CASE ~(entry[r] = "waiting" /\ Orphans = {} /\ Fits(r))
    BY <1>1, <1>6, <2>2 DEF Decide
  <2>3. QED
    BY <2>1, <2>2
<1>7. ASSUME NEW r \in Requests, Spawn(r) PROVE S!Launch(r)
  <2>1. r \in Running /\ r \notin group
    BY <1>7 DEF Spawn, Running, DeadIsDead
  <2>2. QED
    BY <1>7, <2>1 DEF Spawn, S!Launch, Running
<1>8. ASSUME NEW r \in Requests, Release(r)
      PROVE  UNCHANGED <<Running, group, limit>> \/ S!Free(r)
  BY <1>2, <1>8 DEF Release
<1>9. ASSUME NEW r \in Requests, Recover(r)
      PROVE  UNCHANGED <<Running, group, limit>> \/ S!Free(r)
  BY <1>2, <1>9 DEF Recover
<1>10. ASSUME NEW r \in Requests, GroupEnds(r) PROVE S!Stop(r)
  BY <1>10 DEF GroupEnds, S!Stop, Running
<1>11. ASSUME NEW p \in Processes, Die(p) PROVE UNCHANGED <<Running, group, limit>>
  BY <1>1, <1>11 DEF Die
<1>12. CASE Configure
  BY <1>12 DEF Configure, S!Configure, Running
<1>13. CASE UNCHANGED vars
  BY <1>1, <1>13 DEF vars
<1>14. QED
  BY <1>3, <1>4, <1>5, <1>6, <1>7, <1>8, <1>9, <1>10, <1>11, <1>12, <1>13
     DEF Next, RequestStep

(* Every step of the queue is a step of the slots or changes none of them: *)
(* a slot is taken within the limit, launched in, and freed only when      *)
(* nothing of its command runs.                                            *)
THEOREM Refinement == Spec => ImplementsSlots
<1>1. Init => S!Init
  BY DEF Init, S!Init, Running
<1>2. IInv /\ [Next]_vars => [S!Next]_(S!vars)
  <2> SUFFICES ASSUME IInv, [Next]_vars PROVE [S!Next]_(S!vars)
    OBVIOUS
  <2>1. QED
    BY SlotSteps DEF S!Next, S!vars, Waiting
<1>3. QED
  BY <1>1, <1>2, Invariance, PTL DEF Spec, ImplementsSlots, S!Spec

------------------------------------------------------------------------------
(* Entries are ordered by stamp and id.                                    *)
LEMMA TotalOrder ==
  ASSUME IInv
  PROVE  \A q, r \in Waiting :
           /\ q # r => Before(q, r) \/ Before(r, q)
           /\ \A p \in Waiting : Before(p, q) /\ Before(q, r) => Before(p, r)
           /\ ~Before(r, r)
<1>1. \A q \in Waiting : q \in Nat /\ queuedAt[q] \in Nat
  BY QueueAssumption DEF IInv, Stamped, Waiting
<1>2. QED
  BY <1>1 DEF Before

(* A waiting entry keeps its stamp.                                        *)
LEMMA StampsKept ==
  ASSUME IInv, [Next]_vars
  PROVE  \A q \in Waiting : queuedAt'[q] = queuedAt[q]
<1>1. ASSUME NEW r \in Requests, Ask(r)
      PROVE  \A q \in Waiting : queuedAt'[q] = queuedAt[q]
  <2>1. r \notin Waiting
    BY <1>1 DEF Ask, Goto, IInv, EntryFollowsRequest, Waiting
  <2>2. QED
    BY <1>1, <2>1 DEF Ask, IInv, TypeOK, Waiting
<1>2. CASE UNCHANGED queuedAt
  BY <1>2
<1>3. [Next]_vars => UNCHANGED queuedAt \/ \E r \in Requests : Ask(r)
  BY DEF Next, RequestStep, Enter, Register, Prune, Decide, PollAgain, TimeOut,
     Cancel, Spawn, SpawnFails, Close, Release, ReleaseBusy, GroupEnds, Recover,
     Die, Configure, vars
<1>4. QED
  BY <1>1, <1>2, <1>3

(* A step that registers nothing ahead of a waiter moves it up or leaves   *)
(* it where it is; who is admitted was ahead of it, or left room for it.   *)
LEMMA AheadStep ==
  ASSUME IInv, IInv', [Next]_vars, NEW r \in Requests, r \in Waiting, r \in Waiting',
         \A q \in Waiting' : Before(q, r)' => q \in Waiting
  PROVE  /\ Position(r) \in Nat /\ Position(r)' \in Nat /\ Position(r)' <= Position(r)
         /\ \/ Running' \subseteq Running
            \/ /\ limit' = limit
               /\ \E q \in Waiting \ Running : Running' = Running \cup {q}
               /\ Position(r)' < Position(r) \/ Fits(r)'
<1>1. Ahead(r)' \subseteq Ahead(r)
  BY StampsKept DEF Ahead, Before
<1>2. /\ Position(r) = Cardinality(Ahead(r)) /\ Position(r)' = Cardinality(Ahead(r)')
      /\ IsFiniteSet(Ahead(r)) /\ IsFiniteSet(Running)
      /\ Position(r) \in Nat /\ Cardinality(Running) \in Nat
  BY Counts DEF Position, Ahead
<1>3. limit \in Nat
  BY QueueAssumption DEF IInv, TypeOK
<1>4. Position(r)' \in Nat /\ Position(r)' <= Position(r)
  BY <1>1, <1>2, FS_Subset, FS_CardinalityType
<1>5. ASSUME NEW q \in Waiting, Fits(q), q \notin Running, limit' = limit,
             Running' = Running \cup {q}
      PROVE  Position(r)' < Position(r) \/ Fits(r)'
  <2>1. Cardinality(Running') = Cardinality(Running) + 1
    BY <1>2, <1>5, FS_AddElement
  <2>2. q # r /\ q \notin Waiting' /\ q \in Requests
    BY <1>5 DEF Waiting, Running
  <2>3. CASE Before(q, r)
    <3>1. q \in Ahead(r) /\ Ahead(r)' \subseteq Ahead(r) \ {q}
      BY <1>1, <2>2, <2>3 DEF Ahead
    <3>2. Cardinality(Ahead(r) \ {q}) = Position(r) - 1 /\ IsFiniteSet(Ahead(r) \ {q})
      BY <1>2, <3>1, FS_RemoveElement
    <3>3. Cardinality(Ahead(r)') <= Position(r) - 1
      BY <3>1, <3>2, FS_Subset
    <3>4. QED
      BY <1>2, <1>4, <3>3
  <2>4. CASE ~Before(q, r)
    <3>1. Ahead(r) \cup {r} \subseteq Ahead(q) /\ r \notin Ahead(r)
      BY <1>5, <2>2, <2>4, TotalOrder DEF Ahead
    <3>2. Cardinality(Ahead(r) \cup {r}) = Position(r) + 1
      BY <1>2, <3>1, FS_AddElement
    <3>3. IsFiniteSet(Ahead(q)) /\ Position(q) = Cardinality(Ahead(q))
          /\ Position(q) \in Nat
      BY <2>2, Counts DEF Position, Ahead
    <3>4. Position(r) + 1 <= Position(q)
      BY <3>1, <3>2, <3>3, FS_Subset
    <3>5. QED
      BY <1>2, <1>3, <1>4, <1>5, <2>1, <3>3, <3>4 DEF Fits
  <2>5. QED
    BY <2>3, <2>4
<1>6. \/ Running' \subseteq Running
      \/ \E q \in Waiting : /\ Fits(q) /\ q \notin Running
                            /\ Running' = Running \cup {q} /\ limit' = limit
  BY SlotSteps DEF S!Take, S!Launch, S!Stop, S!Free, S!Configure
<1>7. QED
  BY <1>2, <1>4, <1>5, <1>6

(* A reservation outlasts every step that registers nothing ahead of it    *)
(* and does not lower the limit.                                           *)
LEMMA ReservationStep ==
  ASSUME IInv, IInv', [Next]_vars, NEW r \in Requests,
         r \in Waiting, r \in Waiting', Fits(r), limit <= limit',
         \A q \in Waiting' : Before(q, r)' => q \in Waiting
  PROVE  Fits(r)'
<1>1. /\ IsFiniteSet(Running) /\ Cardinality(Running) \in Nat
      /\ limit \in Nat /\ limit' \in Nat
  BY Counts, QueueAssumption DEF IInv, TypeOK
<1>2. Position(r) \in Nat /\ Position(r)' \in Nat /\ Position(r)' <= Position(r)
  BY AheadStep
<1>3. CASE Running' \subseteq Running
  <2>1. Cardinality(Running') \in Nat /\ Cardinality(Running') <= Cardinality(Running)
    BY <1>1, <1>3, FS_Subset, FS_CardinalityType
  <2>2. QED
    BY <1>1, <1>2, <2>1 DEF Fits
<1>4. ASSUME NEW q \in Waiting \ Running, Running' = Running \cup {q},
             Position(r)' < Position(r)
      PROVE  Fits(r)'
  <2>1. Cardinality(Running') = Cardinality(Running) + 1
    BY <1>1, <1>4, FS_AddElement
  <2>2. QED
    BY <1>1, <1>2, <1>4, <2>1 DEF Fits
<1>5. QED
  BY <1>3, <1>4, AheadStep

(* "Reserve capacity for earlier waiters": a waiter that fits keeps        *)
(* fitting while others are admitted, end or die, unless an earlier stamp  *)
(* registers or the limit changes.                                         *)
THEOREM ReservationsHold == Spec => ReservationKept
<1>1. ASSUME IInv, IInv', [Next]_vars
      PROVE  \A r \in Requests :
               /\ entry[r] = "waiting" /\ OwnerAlive(r) /\ Fits(r)
               /\ entry'[r] = "waiting" /\ OwnerAlive(r)'
               /\ limit' = limit
               /\ \A q \in Waiting' : Before(q, r)' => q \in Waiting
               => Fits(r)'
  <2>1. limit \in Nat
    BY <1>1, QueueAssumption DEF IInv, TypeOK
  <2>2. QED
    BY <1>1, <2>1, ReservationStep DEF Waiting
<1>2. QED
  BY <1>1, Invariance, PTL DEF Spec, ReservationKept

-----------------------------------------------------------------------------
(* FinishIsProgress: what a waiter saw running has run, and never waits    *)
(* again; a request that has not polled yet compares with no position; and *)
(* a waiter that nothing overtook since its last poll has moved up, sees a *)
(* command gone, fits, or has missed nothing.                              *)
SeenRan == \A r \in Requests : \A q \in seen[r] :
  /\ entry[q] # "waiting"
  /\ pc[q] \in {"admitted", "executing", "releasing", "retained", "done", "dead"}

FirstPoll == \A r \in Requests :
  pc[r] \in {"idle", "asking", "registering"} => place[r] = Unplaced

Unmissed(r) ==
  /\ Position(r) <= place[r]
  /\ \/ Position(r) < place[r]
     \/ ~(seen[r] \subseteq Running)
     \/ Fits(r)
     \/ seen[r] = Running /\ r \notin finished

Polls == {"pruning", "deciding", "polling", "stalled"}

NothingMissed ==
  \A r \in Waiting \ overtaken : pc[r] \in Polls => Unmissed(r)

HInv == /\ SeenRan /\ FirstPoll /\ NothingMissed
        /\ overtaken \subseteq Waiting /\ finished \subseteq Requests

LEMMA FirstPollStep ==
  ASSUME IInv, SeenRan, FirstPoll, [Next]_vars
  PROVE  SeenRan' /\ FirstPoll'
<1> USE DEF IInv, TypeOK, EntryFollowsRequest, DeadIsDead, SeenRan, FirstPoll,
            OwnerAlive, Goto
<1> Unplaced' = Unplaced
  BY DEF Unplaced
<1>1. ASSUME NEW r \in Requests, RequestStep(r) PROVE SeenRan' /\ FirstPoll'
  <2>1. CASE Ask(r) \/ Enter(r)
    BY <2>1 DEF Ask, Enter
  <2>2. CASE Register(r)
    BY <2>2 DEF Register
  <2>3. CASE Prune(r)
    BY <2>3 DEF Prune
  <2>4. CASE Decide(r)
    <3>1. \A q \in Running : pc[q] \in {"admitted", "executing", "releasing",
                                        "retained", "dead"}
      BY DEF Running, Steps
    <3>2. /\ entry' \in {entry, [entry EXCEPT ![r] = "running"]}
          /\ seen' \in {seen, [seen EXCEPT ![r] = Running]}
          /\ \E s \in {"releasing", "admitted", "polling", "stalled"} :
               /\ pc' = [pc EXCEPT ![r] = s]
               /\ entry' # entry => s = "admitted"
          /\ pc[r] = "deciding"
          /\ \A q \in Requests \ {r} : place'[q] = place[q]
      BY <2>4 DEF Decide
    <3>3. \A q \in Requests : r \notin seen[q]
      BY <3>2
    <3>4. r \notin Running
      BY <3>1, <3>2
    <3>5. SeenRan'
      BY <3>1, <3>2, <3>3, <3>4 DEF Running
    <3>6. FirstPoll'
      BY <3>2
    <3>7. QED
      BY <3>5, <3>6
  <2>5. CASE PollAgain(r) \/ TimeOut(r) \/ Cancel(r)
    BY <2>5 DEF PollAgain, TimeOut, Cancel
  <2>6. CASE Spawn(r) \/ SpawnFails(r) \/ Close(r)
    BY <2>6 DEF Spawn, SpawnFails, Close
  <2>7. CASE Release(r) \/ ReleaseBusy(r)
    BY <2>7 DEF Release, ReleaseBusy
  <2>8. QED
    BY <1>1, <2>1, <2>2, <2>3, <2>4, <2>5, <2>6, <2>7 DEF RequestStep
<1>2. ASSUME NEW r \in Requests, GroupEnds(r) \/ Recover(r)
      PROVE  SeenRan' /\ FirstPoll'
  BY <1>2 DEF GroupEnds, Recover
<1>3. ASSUME NEW p \in Processes, Die(p) PROVE SeenRan' /\ FirstPoll'
  BY <1>3 DEF Die
<1>4. CASE Configure \/ UNCHANGED vars
  BY <1>4 DEF Configure, vars
<1>5. QED
  BY <1>1, <1>2, <1>3, <1>4 DEF Next

(* A poll that lets the request wait on remembers what it saw; no other    *)
(* step touches what a waiter remembers.                                   *)
LEMMA PollSteps ==
  ASSUME IInv, [Next]_vars, NEW r \in Requests, r \in Waiting', pc'[r] \in Polls
  PROVE  \/ /\ r \in Waiting /\ pc[r] \in Polls /\ ~Decides(r)
            /\ seen'[r] = seen[r] /\ place'[r] = place[r]
         \/ r \in Waiting /\ Decides(r) /\ UNCHANGED <<Running, Waiting, queuedAt>>
            /\ seen'[r] = Running /\ place'[r] = Position(r)
         \/ r \notin Waiting /\ pc[r] = "registering" /\ place'[r] = place[r]
<1> USE DEF IInv, TypeOK, EntryFollowsRequest, OwnerAlive, Goto, Polls, Decides,
            Waiting
<1>1. ASSUME NEW q \in Requests, RequestStep(q), q # r
      PROVE  /\ r \in Waiting /\ pc[r] \in Polls /\ ~Decides(r)
             /\ seen'[r] = seen[r] /\ place'[r] = place[r]
  <2>1. pc'[r] = pc[r] /\ seen'[r] = seen[r] /\ place'[r] = place[r] /\ alive' = alive
    BY <1>1 DEF RequestStep, Ask, Enter, Register, Prune, Decide, PollAgain,
       TimeOut, Cancel, Spawn, SpawnFails, Close, Release, ReleaseBusy
  <2>2. QED
    BY <2>1
<1>2. CASE Decide(r)
  <2>1. entry[r] = "waiting" /\ Orphans = {} /\ ~Fits(r)
    BY <1>2 DEF Decide
  <2>2. UNCHANGED <<entry, queuedAt, alive>> /\ pc[r] = "deciding"
        /\ pc'[r] \in {"polling", "stalled"}
        /\ seen'[r] = Running /\ place'[r] = Position(r)
    BY <1>2, <2>1 DEF Decide
  <2>3. QED
    BY <2>1, <2>2 DEF Running
<1>3. CASE Register(r)
  BY <1>3 DEF Register
<1>4. CASE Enter(r) \/ PollAgain(r) \/ Prune(r)
  BY <1>4 DEF Enter, PollAgain, Prune
<1>5. CASE Ask(r) \/ TimeOut(r) \/ Cancel(r) \/ Spawn(r) \/ SpawnFails(r) \/ Close(r)
           \/ Release(r) \/ ReleaseBusy(r)
  BY <1>5 DEF Ask, TimeOut, Cancel, Spawn, SpawnFails, Close, Release, ReleaseBusy
<1>6. ASSUME NEW q \in Requests, GroupEnds(q) \/ Recover(q)
      PROVE  /\ r \in Waiting /\ pc[r] \in Polls /\ ~Decides(r)
             /\ seen'[r] = seen[r] /\ place'[r] = place[r]
  BY <1>6 DEF GroupEnds, Recover
<1>7. ASSUME NEW p \in Processes, Die(p)
      PROVE  /\ r \in Waiting /\ pc[r] \in Polls /\ ~Decides(r)
             /\ seen'[r] = seen[r] /\ place'[r] = place[r]
  BY <1>7 DEF Die
<1>8. CASE Configure \/ UNCHANGED vars
  BY <1>8 DEF Configure, vars
<1>9. QED
  BY <1>1, <1>2, <1>3, <1>4, <1>5, <1>6, <1>7, <1>8 DEF Next, RequestStep

LEMMA NothingMissedStep ==
  ASSUME IInv, IInv', HInv, HistoryNext
  PROVE  NothingMissed'
<1> SUFFICES ASSUME NEW r \in Requests, r \in Waiting', r \notin overtaken',
                    pc'[r] \in Polls
             PROVE  Unmissed(r)'
  BY DEF NothingMissed, Waiting
<1> Next /\ [Next]_vars
  BY DEF HistoryNext
<1>1. /\ \A q \in Waiting' : Before(q, r)' => q \in Waiting
      /\ ~(limit' < limit)
      /\ r \in overtaken => Decides(r)
  BY DEF HistoryNext
<1>2. limit \in Nat /\ limit' \in Nat
  BY QueueAssumption DEF IInv, TypeOK
<1>3. CASE r \in Waiting /\ Decides(r) /\ UNCHANGED <<Running, Waiting, queuedAt>>
           /\ seen'[r] = Running /\ place'[r] = Position(r)
  <2>1. Position(r)' = Position(r) /\ Position(r) \in Nat
    BY <1>3, Counts DEF Position, Before
  <2>2. r \notin finished'
    BY <1>3 DEF HistoryNext
  <2>3. QED
    BY <1>3, <2>1, <2>2 DEF Unmissed
<1>4. CASE r \notin Waiting /\ pc[r] = "registering" /\ place'[r] = place[r]
  <2>1. place'[r] = Unplaced
    BY <1>4 DEF HInv, FirstPoll
  <2>2. Ahead(r)' \subseteq Requests \ {r} /\ Position(r)' = Cardinality(Ahead(r)')
    <3>1. queuedAt'[r] \in Nat
      BY QueueAssumption DEF IInv, Stamped, Waiting
    <3>2. ~Before(r, r)'
      BY <3>1, QueueAssumption DEF Before
    <3>3. QED
      BY <3>2 DEF Ahead, Waiting, Position
  <2>3. /\ Cardinality(Requests \ {r}) = Unplaced - 1 /\ Unplaced \in Nat
        /\ IsFiniteSet(Requests \ {r})
    BY QueueAssumption, FS_RemoveElement, FS_CardinalityType DEF Unplaced
  <2>4. Position(r)' \in Nat /\ Position(r)' <= Unplaced - 1
    BY <2>2, <2>3, FS_Subset, FS_CardinalityType
  <2>5. QED
    BY <2>1, <2>3, <2>4 DEF Unmissed
<1>5. CASE /\ r \in Waiting /\ pc[r] \in Polls /\ ~Decides(r)
           /\ seen'[r] = seen[r] /\ place'[r] = place[r]
  <2>1. Unmissed(r)
    BY <1>1, <1>5 DEF HInv, NothingMissed
  <2>2. /\ Position(r) \in Nat /\ Position(r)' \in Nat /\ Position(r)' <= Position(r)
        /\ \/ Running' \subseteq Running
           \/ /\ \E q \in Waiting \ Running : Running' = Running \cup {q}
              /\ Position(r)' < Position(r) \/ Fits(r)'
    BY <1>1, <1>5, AheadStep
  <2>3. place[r] \in Nat
    BY DEF IInv, TypeOK
  <2>4. Position(r)' <= place'[r]
    BY <1>5, <2>1, <2>2, <2>3 DEF Unmissed
  <2>5. CASE Position(r) < place[r]
    BY <1>5, <2>2, <2>3, <2>4, <2>5 DEF Unmissed
  <2>6. CASE ~(seen[r] \subseteq Running)
    <3>1. \A q \in seen[r] : q \notin Waiting
      BY DEF HInv, SeenRan, Waiting
    <3>2. ~(seen'[r] \subseteq Running')
      BY <1>5, <2>2, <2>6, <3>1
    <3>3. QED
      BY <2>4, <3>2 DEF Unmissed
  <2>7. CASE Fits(r)
    BY <1>1, <1>2, <1>5, <2>4, <2>7, ReservationStep DEF Unmissed
  <2>8. CASE seen[r] = Running /\ r \notin finished
    <3>1. CASE Running' = Running
      <4>1. r \notin finished'
        BY <2>8, <3>1 DEF HistoryNext
      <4>2. QED
        BY <1>5, <2>4, <2>8, <3>1, <4>1 DEF Unmissed
    <3>2. CASE Running' \subseteq Running /\ Running' # Running
      <4>1. ~(seen'[r] \subseteq Running')
        BY <1>5, <2>8, <3>2
      <4>2. QED
        BY <2>4, <4>1 DEF Unmissed
    <3>3. CASE Position(r)' < Position(r) \/ Fits(r)'
      BY <1>5, <2>1, <2>2, <2>3, <2>4, <3>3 DEF Unmissed
    <3>4. QED
      BY <2>2, <3>1, <3>2, <3>3
  <2>9. QED
    BY <2>1, <2>5, <2>6, <2>7, <2>8 DEF Unmissed
<1>6. QED
  BY <1>3, <1>4, <1>5, PollSteps

LEMMA HistoryInvariance == HistorySpec => [](IInv /\ HInv)
<1>1. HistoryInit => HInv
  BY QueueAssumption
     DEF HistoryInit, Init, HInv, SeenRan, FirstPoll, NothingMissed, Waiting
<1>2. ASSUME IInv, IInv', HInv, [HistoryNext]_historyVars PROVE HInv'
  <2>1. CASE HistoryNext
    <3>1. SeenRan' /\ FirstPoll'
      BY <1>2, <2>1, FirstPollStep DEF HInv, HistoryNext
    <3>2. overtaken' \subseteq Waiting' /\ finished' \subseteq Requests
      BY <1>2, <2>1 DEF HistoryNext, HInv, Waiting
    <3>3. QED
      BY <1>2, <2>1, <3>1, <3>2, NothingMissedStep DEF HInv
  <2>2. CASE UNCHANGED historyVars
    <3>1. /\ UNCHANGED <<Running, Waiting, Unplaced>>
          /\ \A q, r : Before(q, r)' <=> Before(q, r)
          /\ UNCHANGED <<entry, pc, seen, place, limit, finished, overtaken>>
      BY <2>2 DEF Running, Waiting, OwnerAlive, Unplaced, Before, historyVars, vars
    <3>2. \A r : Position(r)' = Position(r)
      BY <3>1 DEF Position
    <3>3. \A r : Unmissed(r) => Unmissed(r)'
      BY <3>1, <3>2 DEF Unmissed, Fits
    <3>4. QED
      BY <1>2, <3>1, <3>3 DEF HInv, SeenRan, FirstPoll, NothingMissed
  <2>3. QED
    BY <1>2, <2>1, <2>2
<1>3. HistorySpec => Spec
  <2>1. HistoryInit => Init
    BY DEF HistoryInit
  <2>2. [HistoryNext]_historyVars => [Next]_vars
    BY DEF HistoryNext, historyVars
  <2>3. QED
    BY <2>1, <2>2, PTL DEF HistorySpec, Spec
<1>4. QED
  BY <1>1, <1>2, <1>3, Invariance, PTL DEF HistorySpec

(* "a running entry finishing or this request moving up restarts the       *)
(* deadline": comparing its position and the running entries with those    *)
(* of its last poll, a waiter misses no command that finished, unless an   *)
(* earlier stamp registered or the concurrency was lowered in between.     *)
THEOREM FinishIsSeen == HistorySpec => FinishIsProgress
<1>1. ASSUME IInv, HInv, [HistoryNext]_historyVars
      PROVE  \A r \in finished \ overtaken : Decides(r) => pc'[r] # "stalled"
  <2> SUFFICES ASSUME NEW r, r \in finished, r \notin overtaken, Decides(r),
                      pc'[r] = "stalled"
               PROVE  FALSE
    OBVIOUS
  <2>1. Next /\ r \in Requests /\ pc[r] = "deciding"
    BY <1>1 DEF HInv, HistoryNext, historyVars, vars, Decides
  <2>2. Decide(r)
    BY <1>1, <2>1 DEF IInv, TypeOK, Next, RequestStep, Goto, Ask, Enter, Register,
       Prune, Decide, PollAgain, TimeOut, Cancel, Spawn, SpawnFails, Close,
       Release, ReleaseBusy, GroupEnds, Recover, Die, Configure
  <2>3. r \in Waiting /\ pc[r] \in Polls
    BY <1>1, <2>1 DEF IInv, DeadIsDead, EntryFollowsRequest, Waiting, Polls
  <2>4. Unmissed(r)
    BY <1>1, <2>3 DEF HInv, NothingMissed
  <2>5. ~Fits(r) /\ ~Progressed(r)
    BY <1>1, <2>1, <2>2 DEF Decide, IInv, TypeOK
  <2>6. QED
    BY <2>4, <2>5 DEF Unmissed, Progressed
<1>2. QED
  BY <1>1, HistoryInvariance, PTL DEF HistorySpec, FinishIsProgress

-----------------------------------------------------------------------------
(* The mutex that makes admission one step (AdmissionGate).                *)
CONSTANTS Current, Old, OldTurns, Sockets, Socket
VARIABLES port, legacy, step, turns, opened
Gate == INSTANCE AdmissionGate WITH pc <- step

(* A coordinator of this version has the current port from its listen to   *)
(* the last step of its cleanup, or to its death.                          *)
HasPort == \A c \in Current : step[c] # "idle" => port = c

GateInv == Gate!TypeOK /\ HasPort

(* The ports, the steps and the bounded counters keep their types: there   *)
(* is no third listen attempt.                                             *)
THEOREM GateTypes == ASSUME Gate!GateAssumption PROVE Gate!Spec => []Gate!TypeOK
<1>1. Gate!Init => Gate!TypeOK
  BY Gate!GateAssumption DEF Gate!GateAssumption, Gate!Init, Gate!TypeOK, Gate!Steps
<1>2. Gate!TypeOK /\ [Gate!Next]_Gate!vars => Gate!TypeOK'
  <2> SUFFICES ASSUME Gate!TypeOK, [Gate!Next]_Gate!vars PROVE Gate!TypeOK'
    OBVIOUS
  <2> USE Gate!GateAssumption DEF Gate!GateAssumption, Gate!TypeOK, Gate!Steps, Gate!Goto
  <2>1. ASSUME NEW c \in Current, Gate!CurrentStep(c) PROVE Gate!TypeOK'
    <3>1. CASE Gate!Listen(c) \/ Gate!BackOff(c) \/ Gate!CloseLegacy(c) \/ Gate!Close(c)
      BY <3>1 DEF Gate!Listen, Gate!BackOff, Gate!CloseLegacy, Gate!Close
    <3>2. CASE Gate!HoldLegacy(c)
      BY <3>2 DEF Gate!HoldLegacy
    <3>3. CASE Gate!Probe(c)
      BY <3>3 DEF Gate!Probe
    <3>4. CASE Gate!Kill(c)
      BY <3>4 DEF Gate!Kill
    <3>5. QED
      BY <2>1, <3>1, <3>2, <3>3, <3>4 DEF Gate!CurrentStep
  <2>2. ASSUME NEW o \in Old, Gate!OldEnter(o) \/ Gate!OldLeave(o) PROVE Gate!TypeOK'
    BY <2>2 DEF Gate!OldEnter, Gate!OldLeave
  <2>3. CASE Gate!SocketOpens \/ Gate!SocketCloses
    BY <2>3 DEF Gate!SocketOpens, Gate!SocketCloses
  <2>4. CASE UNCHANGED Gate!vars
    BY <2>4 DEF Gate!vars
  <2>5. QED
    BY <2>1, <2>2, <2>3, <2>4 DEF Gate!Next
<1>3. QED
  BY <1>1, <1>2, PTL DEF Gate!Spec

LEMMA GateNext ==
  ASSUME Gate!GateAssumption
  PROVE  GateInv /\ Gate!TypeOK' /\ [Gate!Next]_Gate!vars => GateInv'
<1> SUFFICES ASSUME GateInv, Gate!TypeOK', [Gate!Next]_Gate!vars PROVE HasPort'
  BY DEF GateInv
<1> USE Gate!GateAssumption DEF Gate!GateAssumption, GateInv, Gate!TypeOK, HasPort, Gate!Goto
<1>1. ASSUME NEW c \in Current, Gate!CurrentStep(c) PROVE HasPort'
  BY <1>1 DEF Gate!CurrentStep, Gate!Listen, Gate!HoldLegacy, Gate!Probe, Gate!BackOff,
     Gate!CloseLegacy, Gate!Close, Gate!Kill
<1>2. ASSUME NEW o \in Old, Gate!OldEnter(o) \/ Gate!OldLeave(o) PROVE HasPort'
  BY <1>2 DEF Gate!OldEnter, Gate!OldLeave
<1>3. CASE Gate!SocketOpens \/ Gate!SocketCloses \/ UNCHANGED Gate!vars
  BY <1>3 DEF Gate!SocketOpens, Gate!SocketCloses, Gate!vars
<1>4. QED
  BY <1>1, <1>2, <1>3 DEF Gate!Next

(* Coordinators of this version exclude each other through the current     *)
(* port, whatever happens on the legacy port and whoever is killed.        *)
THEOREM ExclusionHolds ==
  ASSUME Gate!GateAssumption PROVE Gate!Spec => []Gate!CurrentExclusion
<1>1. Gate!Init => GateInv
  BY Gate!GateAssumption
  DEF Gate!GateAssumption, Gate!Init, GateInv, HasPort, Gate!TypeOK, Gate!Steps
<1>2. GateInv => Gate!CurrentExclusion
  BY Gate!GateAssumption
  DEF Gate!GateAssumption, GateInv, HasPort, Gate!CurrentExclusion, Gate!Admitting
<1>3. QED
  BY <1>1, <1>2, Gate!GateAssumption, GateNext, GateTypes, PTL DEF Gate!Spec

Between(x, first, last) == x \in Nat /\ first <= x /\ x <= last

(* "All four ranges are disjoint so a process holding a reuse mutex can    *)
(* still take the nested admission mutex": the ranges of the four ports.   *)
THEOREM PortsDisjoint ==
  ASSUME NEW hash \in Nat
  PROVE  /\ Between(Gate!AdmissionPort(hash, FALSE), 10000, 14999)
         /\ Between(Gate!AdmissionPort(hash, TRUE), 15000, 19999)
         /\ Between(Gate!LegacyPort(hash, FALSE), 20000, 49999)
         /\ Between(Gate!LegacyPort(hash, TRUE), 50000, 64999)
<1>1. /\ Between(hash % 5000, 0, 4999)
      /\ Between(hash % 15000, 0, 14999)
      /\ Between(hash % 30000, 0, 29999)
  BY DEF Between
<1>2. QED
  BY <1>1 DEF Between, Gate!AdmissionPort, Gate!LegacyPort
==============================================================================
