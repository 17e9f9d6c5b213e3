------------------------- MODULE SessionRecordProofs -------------------------
(***************************************************************************)
(* Proofs about SessionRecord for any processes, sessions, commands and    *)
(* deaths, and about the lock file under which records are saved.          *)
(***************************************************************************)
EXTENDS SessionRecord, FileLock, FiniteSetTheorems, WellFoundedInduction, TLAPS

-----------------------------------------------------------------------------
(* The inductive invariant.                                                *)

(* Records are created in order, and count what was done to them.          *)
Ordered == Begun = 1 .. Cardinality(Begun)

Counted(s) ==
  /\ s \notin Begun => edits[s] = 0 /\ worked[s] = 0
  /\ s \in Begun => /\ rec[s].tasks = edits[s] /\ rec[s].beat = worked[s]
                    /\ rec[s].ready <= commits[s]
                    /\ rec[s].status = "no_changes" => ~rec[s].open /\ recorded[s] = 0
  /\ landed[s] <= commits[s] /\ recorded[s] <= commits[s]

(* What the two index files show of a session.                             *)
Pointed(s) ==
  \A w \in Worktrees : pointer[w] # None /\ pointer[w].id = s =>
    pointer[w].status = rec[s].status
Listed(s) == index[s] \in {None, rec[s].status}

Indexing(p) == proc[p].pc \in {"indexing", "pointed", "indexed"}

Indexed ==
  /\ \A w \in Worktrees : pointer[w] # None =>
       pointer[w].id \in Begun /\ rec[pointer[w].id].place = w
  /\ \A s \in Begun \ torn :
       \/ Pointed(s) /\ Listed(s)
       \/ \E p \in Processes : Indexing(p) /\ proc[p].s = s

(* A copy that may be saved is of a session that has begun, in its place,  *)
(* and says no_changes only if the record does; or it is the first record  *)
(* of a session, by the begin that holds the configuration lock.           *)
First(p) ==
  /\ proc[p].cmd = "begin" /\ proc[p].s = Cardinality(Begun) + 1
Copied(s, copy) ==
  /\ copy \in Records /\ copy.ready <= commits[s]
  /\ s \in Begun =>
       /\ copy.place = rec[s].place
       /\ copy.status = "no_changes" => rec[s].status = "no_changes"

Copies(p) ==
  \/ proc[p].pc \in {"locking", "merging", "releasing", "telling",
                     "save", "indexing", "pointed", "indexed", "unlock"}
  \/ proc[p].pc = "found" /\ proc[p].cmd # "abandon"

(* The commands: who has begun, what is held, what is about to be written. *)
Having == {"found", "recording", "closing", "locking", "merging", "releasing", "telling",
           "indexing", "pointed", "indexed", "unlock"}
Locking == {"write", "indexing", "pointed", "indexed", "unlock"}

(* What a command may write of a session, seen from the record as it is.   *)
Writable(p, s, n, kind) ==
  LET r == rec[s] IN
  /\ n \in Records /\ n.ready <= commits[s]
  /\ n.tasks = edits[s] + IF kind = "tasks" THEN 1 ELSE 0
  /\ n.beat \in {worked[s], worked[s] + 1}
  /\ s \notin Begun => First(p) /\ n.status = "active" /\ kind = "save"
  /\ s \in Begun =>
       /\ n.place = r.place
       /\ r.status = "no_changes" => n.status = "no_changes" /\ n.open = r.open
       /\ n.status = "no_changes" /\ r.status # "no_changes" => ~n.open /\ recorded[s] = 0
       /\ (r.status = "abandoned") # (n.status = "abandoned") =>
            kind \in {"abandon", "restore"}
       /\ n.status = "abandoned" /\ r.status # "abandoned" =>
            n.included \/ recorded[s] <= landed[s]
       /\ kind = "commit" => n.status # "no_changes"

Running(p) ==
  /\ proc[p].pc \notin {"idle", "dead"} /\ proc[p].cmd = "begin" => configLock = p
  /\ DOMAIN proc[p].plan \subseteq Begun
  /\ proc[p].pc = "batch" \/ proc[p].plan # <<>> => proc[p].cmd = "abandon"
  /\ proc[p].pc \in Having => proc[p].s \in Begun
  /\ Copies(p) => proc[p].s \in Sessions /\ Copied(proc[p].s, proc[p].copy)
  /\ proc[p].pc = "save" /\ proc[p].s \notin Begun =>
       /\ First(p) /\ proc[p].activity /\ proc[p].copy.tasks = 0
       /\ proc[p].copy.status = "active"
  /\ proc[p].pc \in {"find", "create"} => proc[p].activity /\ proc[p].cmd \in Commands
  /\ proc[p].pc = "create" => proc[p].cmd = "begin"
  /\ proc[p].pc = "recording" => proc[p].cmd = "commit"
  /\ proc[p].pc = "closing" => proc[p].cmd = "finish"
  /\ proc[p].pc \in Locking => proc[p].s \in Sessions /\ lock[proc[p].s] = p
  /\ proc[p].pc = "write" => Writable(p, proc[p].s, proc[p].next, proc[p].kind)
  /\ proc[p].pc \in {"pointed", "unlock"} => Pointed(proc[p].s)
  /\ proc[p].pc \in {"indexed", "unlock"} => Listed(proc[p].s)

IInv ==
  /\ TypeOK /\ Ordered /\ Indexed
  /\ \A s \in Sessions : Counted(s)
  /\ \A p \in Processes : Running(p)

-----------------------------------------------------------------------------
(* What a command's next value is.                                         *)
Alone(p) ==
  /\ proc' = [q \in Processes |-> proc'[q]]
  /\ \A q \in Processes \ {p} : proc'[q] = proc[q]
  /\ CommandType(proc'[p])

LEMMA GotoFields ==
  ASSUME TypeOK, NEW p \in Processes, NEW point \in Steps, Goto(p, point)
  PROVE  /\ Alone(p)
         /\ proc'[p].pc = point
         /\ proc'[p].cmd = proc[p].cmd /\ proc'[p].s = proc[p].s
         /\ proc'[p].copy = proc[p].copy /\ proc'[p].next = proc[p].next
         /\ proc'[p].activity = proc[p].activity /\ proc'[p].then = proc[p].then
         /\ proc'[p].kind = proc[p].kind /\ proc'[p].plan = proc[p].plan
<1>1. proc' = [proc EXCEPT ![p] = [proc[p] EXCEPT !.pc = point]]
  BY DEF Goto
<1>2. CommandType(proc[p]) /\ proc = [q \in Processes |-> proc[q]]
  BY DEF TypeOK
<1> DEFINE c == [proc[p] EXCEPT !.pc = point]
<1>3. /\ CommandType(c) /\ c.pc = point
      /\ c.cmd = proc[p].cmd /\ c.s = proc[p].s
      /\ c.copy = proc[p].copy /\ c.next = proc[p].next
      /\ c.activity = proc[p].activity /\ c.then = proc[p].then
      /\ c.kind = proc[p].kind /\ c.plan = proc[p].plan
  BY <1>2 DEF CommandType
<1>4. proc' = [proc EXCEPT ![p] = c]
  BY <1>1
<1> HIDE DEF c
<1>5. proc'[p] = c /\ Alone(p)
  BY <1>2, <1>3, <1>4 DEF Alone
<1>6. QED
  BY <1>3, <1>5

LEMMA SaveFields ==
  ASSUME TypeOK, NEW p \in Processes, NEW copy \in Records, NEW then \in Thens,
         SaveThen(p, copy, then)
  PROVE  /\ Alone(p)
         /\ proc'[p].pc = "save" /\ proc'[p].copy = copy /\ proc'[p].then = then
         /\ proc'[p].activity = TRUE
         /\ proc'[p].cmd = proc[p].cmd /\ proc'[p].s = proc[p].s
         /\ proc'[p].plan = proc[p].plan
<1> DEFINE c == [proc[p] EXCEPT !.pc = "save", !.copy = copy, !.then = then, !.activity = TRUE]
<1>1. proc' = [proc EXCEPT ![p] = c]
  BY DEF SaveThen
<1>2. CommandType(proc[p]) /\ proc = [q \in Processes |-> proc[q]]
  BY DEF TypeOK
<1>3. /\ CommandType(c)
      /\ c.pc = "save" /\ c.copy = copy /\ c.then = then /\ c.activity = TRUE
      /\ c.cmd = proc[p].cmd /\ c.s = proc[p].s /\ c.plan = proc[p].plan
  BY <1>2 DEF CommandType, Steps
<1> HIDE DEF c
<1>4. proc'[p] = c /\ Alone(p)
  BY <1>1, <1>2, <1>3 DEF Alone
<1>5. QED
  BY <1>3, <1>4

LEMMA IdleTyped == CommandType(Idle) /\ Idle.plan = <<>> /\ DOMAIN <<>> = {}
  BY DEF Idle, CommandType, Steps, Thens

LEMMA EndFields ==
  ASSUME TypeOK, NEW p \in Processes, End(p)
  PROVE  Alone(p) /\ proc'[p] = Idle
<1>1. proc' = [proc EXCEPT ![p] = Idle] /\ proc = [q \in Processes |-> proc[q]]
  BY DEF End, TypeOK
<1>2. QED
  BY <1>1, IdleTyped DEF Alone

LEMMA HoldFields ==
  ASSUME TypeOK, NEW p \in Processes, NEW cmd \in Commands, NEW s \in Sessions,
         NEW include \in BOOLEAN, Hold(p, cmd, s, include)
  PROVE  /\ Alone(p)
         /\ proc'[p].pc = "found" /\ proc'[p].cmd = cmd /\ proc'[p].s = s
         /\ proc'[p].copy = rec[s] /\ proc'[p].plan = <<>>
<1> DEFINE noticed == IF cmd = "abandon" THEN Facts(s, rec[s], None) ELSE None
<1> HIDE DEF noticed
<1> DEFINE c == [Idle EXCEPT !.pc = "found", !.cmd = cmd, !.s = s,
                   !.copy = rec[s], !.include = include, !.seen = noticed]
<1>1. proc' = [proc EXCEPT ![p] = c] /\ proc = [q \in Processes |-> proc[q]]
  BY DEF Hold, noticed, TypeOK
<1>2. rec[s] \in Records \cup {None}
  BY DEF TypeOK
<1>3. /\ CommandType(c)
      /\ c.pc = "found" /\ c.cmd = cmd /\ c.s = s /\ c.copy = rec[s]
      /\ c.plan = Idle.plan
  BY <1>2 DEF CommandType, Steps, Thens, Idle
<1> HIDE DEF c
<1>4. proc'[p] = c /\ Alone(p)
  BY <1>1, <1>3 DEF Alone
<1>5. QED
  BY <1>3, <1>4, IdleTyped

-----------------------------------------------------------------------------
(* Numbers of sessions.                                                    *)
LEMMA LatestIn ==
  ASSUME RecordAssumption, NEW S \in SUBSET Sessions, S # {}
  PROVE  Latest(S) \in S
<1> DEFINE Less == {ss \in Nat \X Nat : ss[1] < ss[2]}
           Ages == {MaxSessions - s : s \in S}
<1>1. MaxSessions \in Nat /\ S \subseteq 1 .. MaxSessions
  BY DEF RecordAssumption, Sessions
<1>2. IsWellFoundedOn(Less, Nat)
  <2>1. Less = OpToRel(<, Nat)
    BY DEF OpToRel
  <2>2. QED
    BY <2>1, NatLessThanWellFounded
<1>3. Ages \subseteq Nat /\ Ages # {}
  <2>1. \A s \in S : MaxSessions - s \in Nat
    BY <1>1
  <2>2. QED
    BY <2>1
<1> HIDE DEF Less
<1>4. PICK a \in Ages : \A b \in Ages : ~(<<b, a>> \in Less)
  <2> HIDE DEF Ages
  <2>1. QED
    BY <1>2, <1>3, WFMin
<1>5. PICK s \in S : a = MaxSessions - s
  OBVIOUS
<1>6. \A t \in S : t <= s
  <2>1. TAKE t \in S
  <2>2. MaxSessions - t \in Ages /\ MaxSessions - t \in Nat /\ a \in Nat
    BY <1>3
  <2>3. ~(MaxSessions - t < a)
    BY <1>4, <2>2 DEF Less
  <2>4. QED
    BY <1>1, <1>5, <2>3
<1>7. QED
  BY <1>6 DEF Latest

LEMMA HowMany ==
  ASSUME RecordAssumption, TypeOK
  PROVE  /\ IsFiniteSet(Begun) /\ Cardinality(Begun) \in 0 .. MaxSessions
         /\ Begun # Sessions => Cardinality(Begun) + 1 \in Sessions
<1>1. IsFiniteSet(Sessions) /\ Cardinality(Sessions) = MaxSessions
  BY FS_Interval DEF Sessions, RecordAssumption
<1>2. Begun \subseteq Sessions
  BY DEF Begun
<1>3. IsFiniteSet(Begun) /\ Cardinality(Begun) <= MaxSessions
  BY <1>1, <1>2, FS_Subset
<1>4. Cardinality(Begun) \in Nat
  BY <1>3, FS_CardinalityType
<1>5. Begun # Sessions => Cardinality(Begun) # MaxSessions
  BY <1>1, <1>2, FS_Subset
<1>6. QED
  BY <1>3, <1>4, <1>5 DEF Sessions, RecordAssumption

-----------------------------------------------------------------------------
(* What a step of p may do that writes no record.                          *)
Still(p) ==
  /\ Alone(p)
  /\ UNCHANGED <<rec, edits, worked, recorded>>
  /\ \A s \in Sessions : /\ commits[s] <= commits'[s] /\ landed[s] <= landed'[s]
                         /\ landed'[s] <= commits'[s]
  /\ \A q \in Processes \ {p} :
       /\ configLock = q => configLock' = q
       /\ \A s \in Sessions : lock[s] = q => lock'[s] = q
  /\ \A s \in Sessions : lock[s] # p =>
       index'[s] = index[s] /\ (Pointed(s) => Pointed(s)')

LEMMA Beside ==
  ASSUME RecordAssumption, IInv, TypeOK', NEW p \in Processes, NEW q \in Processes \ {p}, Still(p)
  PROVE  Running(q)'
<1> DEFINE c == proc[q]
<1>1. /\ proc'[q] = proc[q] /\ Running(q)
      /\ rec' = rec /\ Begun' = Begun /\ edits' = edits /\ worked' = worked
      /\ recorded' = recorded
  BY DEF Still, Alone, IInv, Begun
<1>2. configLock = q => configLock' = q
  BY DEF Still
<1>3. \A s \in Sessions : lock[s] = q =>
        /\ lock'[s] = q /\ index'[s] = index[s] /\ (Pointed(s) => Pointed(s)')
  BY DEF Still
<1>4. \A s \in Sessions : /\ commits[s] \in Nat /\ commits'[s] \in Nat
                          /\ landed[s] \in Nat /\ landed'[s] \in Nat
                          /\ recorded[s] \in Nat
                          /\ commits[s] <= commits'[s] /\ landed[s] <= landed'[s]
  BY DEF Still, TypeOK, IInv
<1>5. First(q)' <=> First(q)
  BY <1>1 DEF First
<1>6. Copies(q)' <=> Copies(q)
  BY <1>1 DEF Copies
<1>7. \A s \in Sessions : \A copy : Copied(s, copy) => Copied(s, copy)'
  <2>1. TAKE s \in Sessions
  <2>11. TAKE copy
  <2>2. SUFFICES ASSUME copy \in Records, copy.ready <= commits[s]
                 PROVE  copy.ready <= commits'[s]
    BY <1>1 DEF Copied
  <2>3. copy.ready \in Nat
    BY <2>2 DEF Records
  <2>4. QED
    BY <1>4, <2>2, <2>3
<1>8. proc[q].pc \in Locking => proc[q].s \in Sessions /\ lock[proc[q].s] = q
  BY <1>1 DEF Running
<1>9. proc[q].pc = "write" => Writable(q, proc[q].s, proc[q].next, proc[q].kind)'
  <2>1. SUFFICES ASSUME proc[q].pc = "write"
                 PROVE  Writable(q, proc[q].s, proc[q].next, proc[q].kind)'
    OBVIOUS
  <2>2. Writable(q, proc[q].s, proc[q].next, proc[q].kind) /\ proc[q].s \in Sessions
    BY <1>1, <1>8, <2>1 DEF Running, Locking
  <2>3. proc[q].next.ready \in Nat
    BY <2>2 DEF Writable, Records
  <2>4. QED
    BY <1>1, <1>4, <1>5, <2>2, <2>3 DEF Writable
<1>10. \A s \in Sessions : lock[s] = q => (Listed(s) => Listed(s)')
  BY <1>1, <1>3 DEF Listed
<1>11. /\ proc[q].pc \in {"pointed", "unlock"} => Pointed(proc[q].s)'
       /\ proc[q].pc \in {"indexed", "unlock"} => Listed(proc[q].s)'
  BY <1>1, <1>3, <1>8, <1>10 DEF Running, Locking
<1>12. QED
  BY <1>1, <1>2, <1>3, <1>5, <1>6, <1>7, <1>8, <1>9, <1>11 DEF Running

LEMMA Frame ==
  ASSUME RecordAssumption, IInv, TypeOK', NEW p \in Processes, Still(p)
  PROVE  Ordered' /\ (\A s \in Sessions : Counted(s)')
<1>1. /\ rec' = rec /\ Begun' = Begun /\ edits' = edits /\ worked' = worked
      /\ recorded' = recorded
  BY DEF Still, Begun
<1>2. Ordered'
  BY <1>1 DEF IInv, Ordered
<1>3. ASSUME NEW s \in Sessions PROVE Counted(s)'
  <2>1. /\ commits[s] \in Nat /\ commits'[s] \in Nat /\ landed'[s] <= commits'[s]
        /\ recorded[s] \in Nat /\ commits[s] <= commits'[s]
    BY DEF Still, TypeOK, IInv
  <2>2. s \in Begun => rec[s].ready \in Nat
    BY DEF TypeOK, IInv, Begun, Records
  <2>3. Counted(s)
    BY DEF IInv
  <2>4. QED
    BY <1>1, <2>1, <2>2, <2>3 DEF Counted
<1>4. QED
  BY <1>2, <1>3

(* A step that neither writes a file nor is of a command that does.        *)
Plain(p) ==
  /\ Alone(p)
  /\ UNCHANGED <<rec, pointer, index, edits, worked, recorded, torn>>
  /\ \A s \in Sessions : /\ commits[s] <= commits'[s] /\ landed[s] <= landed'[s]
                         /\ landed'[s] <= commits'[s]
  /\ \A q \in Processes \ {p} :
       /\ configLock = q => configLock' = q
       /\ \A s \in Sessions : lock[s] = q => lock'[s] = q
  /\ ~Indexing(p)

LEMMA PlainStep ==
  ASSUME RecordAssumption, IInv, TypeOK', NEW p \in Processes, Plain(p), Running(p)'
  PROVE  IInv'
<1>1. Still(p)
  BY DEF Plain, Still, Pointed
<1>2. Indexed'
  <2>1. /\ rec' = rec /\ Begun' = Begun /\ pointer' = pointer /\ index' = index /\ torn' = torn
    BY DEF Plain, Begun
  <2>2. \A s \in Sessions : (Pointed(s)' <=> Pointed(s)) /\ (Listed(s)' <=> Listed(s))
    BY <2>1 DEF Pointed, Listed
  <2>3. \A s \in Sessions : (\E q \in Processes : Indexing(q) /\ proc[q].s = s)
                         => (\E q \in Processes : Indexing(q)' /\ proc'[q].s = s)
    BY DEF Plain, Alone, Indexing
  <2>4. Indexed /\ Begun \subseteq Sessions
    BY DEF IInv, Begun
  <2>5. \A w \in Worktrees : pointer'[w] # None =>
          pointer'[w].id \in Begun' /\ rec'[pointer'[w].id].place = w
    BY <2>1, <2>4 DEF Indexed
  <2>6. ASSUME NEW s \in Begun' \ torn'
        PROVE  \/ Pointed(s)' /\ Listed(s)'
               \/ \E q \in Processes : Indexing(q)' /\ proc'[q].s = s
    BY <2>1, <2>2, <2>3, <2>4 DEF Indexed
  <2>7. QED
    BY <2>5, <2>6 DEF Indexed
<1>3. \A q \in Processes : Running(q)'
  BY <1>1, Beside
<1>4. QED
  BY <1>1, <1>2, <1>3, Frame DEF IInv

(* The locks of a command that only moves, and those of one that ends.     *)
LEMMA PlainMove ==
  ASSUME RecordAssumption, IInv, NEW p \in Processes, Alone(p), ~Indexing(p),
         UNCHANGED <<files, locks, work, deaths, history>>, started' \in Nat, Running(p)'
  PROVE  IInv'
<1>1. \A s \in Sessions : /\ commits[s] \in Nat /\ landed[s] \in Nat
                          /\ landed[s] <= commits[s]
  BY DEF IInv, TypeOK, Counted
<1>2. Plain(p)
  BY <1>1 DEF Plain, files, locks, work, history
<1>3. \A q \in Processes : CommandType(proc'[q])
  BY DEF Alone, IInv, TypeOK
<1>4. TypeOK'
  BY <1>3 DEF Alone, IInv, TypeOK, files, locks, work, history
<1>5. QED
  BY <1>2, <1>4, PlainStep

LEMMA PlainEnd ==
  ASSUME RecordAssumption, IInv, NEW p \in Processes, End(p), ~Indexing(p),
         UNCHANGED <<files, work, started, deaths, history>>
  PROVE  IInv'
<1>1. Alone(p) /\ proc'[p] = Idle
  BY EndFields DEF IInv
<1>2. Running(p)'
  BY <1>1, IdleTyped DEF Running, Idle, Having, Copies, Locking, Begun, Commands, Wanted
<1>3. \A s \in Sessions : /\ commits[s] \in Nat /\ landed[s] \in Nat
                          /\ landed[s] <= commits[s]
  BY DEF IInv, TypeOK, Counted
<1>4. Plain(p)
  BY <1>1, <1>3 DEF Plain, End, files, work, history
<1>5. \A q \in Processes : CommandType(proc'[q])
  BY <1>1 DEF Alone, IInv, TypeOK
<1>6. TypeOK'
  BY <1>1, <1>5 DEF Alone, End, IInv, TypeOK, files, work, history
<1>7. QED
  BY <1>2, <1>4, <1>6, PlainStep

-----------------------------------------------------------------------------
(* Starting, and finding the session.                                      *)
LEMMA Copy ==
  ASSUME RecordAssumption, IInv, NEW s \in Begun, NEW p \in Processes
  PROVE  Copied(s, rec[s]) /\ s \in Sessions /\ rec[s] \in Records
<1>1. s \in Sessions /\ rec[s] \in Records
  BY DEF Begun, IInv, TypeOK
<1>2. QED
  BY <1>1 DEF IInv, Counted, Copied

(* A command that has found its session.                                   *)
LEMMA Found ==
  ASSUME RecordAssumption, IInv, NEW p \in Processes, NEW cmd \in Commands, NEW s \in Begun,
         NEW include \in BOOLEAN, Hold(p, cmd, s, include), commits' = commits, rec' = rec,
         cmd = "begin" => configLock' = p
  PROVE  Alone(p) /\ Running(p)'
<1>1. Copied(s, rec[s]) /\ s \in Sessions /\ rec[s] \in Records
  BY Copy
<1>2. /\ Alone(p)
      /\ proc'[p].pc = "found" /\ proc'[p].cmd = cmd /\ proc'[p].s = s
      /\ proc'[p].copy = rec[s] /\ proc'[p].plan = <<>>
  BY <1>1, HoldFields DEF IInv
<1>3. Begun' = Begun
  BY DEF Begun
<1>4. Copied(s, rec[s])'
  BY <1>1, <1>3 DEF Copied
<1>5. QED
  BY <1>1, <1>2, <1>3, <1>4, IdleTyped DEF Running, Having, Copies, Locking

LEMMA StartByIdStep ==
  ASSUME RecordAssumption, IInv, NEW p \in Processes, StartById(p)
  PROVE  IInv'
<1>1. PICK cmd \in Commands \ {"begin"}, s \in Begun, include \in BOOLEAN :
        Hold(p, cmd, s, include)
  BY DEF StartById
<1>2. UNCHANGED <<files, locks, work, deaths, history>> /\ started' \in Nat
  BY DEF StartById, IInv, TypeOK
<1>3. Alone(p) /\ Running(p)'
  BY <1>1, <1>2, Found DEF files, work
<1>4. ~Indexing(p)
  BY DEF StartById, Indexing
<1>5. QED
  BY <1>2, <1>3, <1>4, PlainMove

LEMMA StartHereStep ==
  ASSUME RecordAssumption, IInv, NEW p \in Processes, StartHere(p)
  PROVE  IInv'
<1>1. PICK cmd \in Commands \ ByIdOnly :
        /\ proc' = [proc EXCEPT ![p] = [Idle EXCEPT !.pc = "find", !.cmd = cmd]]
        /\ IF cmd = "begin" THEN configLock = None /\ configLock' = p
           ELSE UNCHANGED configLock
  BY DEF StartHere
<1> DEFINE c == [Idle EXCEPT !.pc = "find", !.cmd = cmd]
<1>2. /\ CommandType(c) /\ c.pc = "find" /\ c.cmd = cmd /\ c.activity = TRUE
      /\ c.plan = Idle.plan
  BY DEF CommandType, Steps, Thens, Idle
<1>3. proc' = [proc EXCEPT ![p] = c] /\ proc = [q \in Processes |-> proc[q]]
  BY <1>1 DEF IInv, TypeOK
<1> HIDE DEF c
<1>4. proc'[p] = c /\ Alone(p)
  BY <1>2, <1>3 DEF Alone
<1>5. Running(p)'
  BY <1>1, <1>2, <1>4, IdleTyped DEF Running, Having, Copies, Locking
<1>6. /\ UNCHANGED <<files, lock, repoLock, work, deaths, history>>
      /\ started' \in Nat /\ proc[p].pc = "idle" /\ None \notin Processes
  BY DEF StartHere, IInv, TypeOK, RecordAssumption
<1>7. \A s \in Sessions : /\ commits[s] \in Nat /\ landed[s] \in Nat
                          /\ landed[s] <= commits[s]
  BY DEF IInv, TypeOK, Counted
<1>8. Plain(p)
  BY <1>1, <1>4, <1>6, <1>7 DEF Plain, Indexing, files, work, history
<1>9. \A q \in Processes : CommandType(proc'[q])
  BY <1>4 DEF Alone, IInv, TypeOK
<1>10. TypeOK'
  BY <1>1, <1>4, <1>6, <1>9 DEF Alone, IInv, TypeOK, files, work, history
<1>11. QED
  BY <1>5, <1>8, <1>10, PlainStep

LEMMA StartBatchStep ==
  ASSUME RecordAssumption, IInv, NEW p \in Processes, StartBatch(p)
  PROVE  IInv'
<1>1. PICK include \in BOOLEAN :
        proc' = [proc EXCEPT ![p] = [Idle EXCEPT
                  !.pc = "batch", !.cmd = "abandon", !.include = include,
                  !.plan = [s \in Selected(include) |-> Facts(s, rec[s], None)]]]
  BY DEF StartBatch
<1> DEFINE plan == [s \in Selected(include) |-> Facts(s, rec[s], None)]
<1>2. DOMAIN plan \subseteq Begun
  BY DEF Selected, Audited
<1> HIDE DEF plan
<1> DEFINE c == [Idle EXCEPT !.pc = "batch", !.cmd = "abandon", !.include = include,
                             !.plan = plan]
<1>3. CommandType(c) /\ c.pc = "batch" /\ c.cmd = "abandon" /\ c.plan = plan
  BY DEF CommandType, Steps, Thens, Idle, Commands, Wanted
<1>4. proc' = [proc EXCEPT ![p] = c] /\ proc = [q \in Processes |-> proc[q]]
  BY <1>1 DEF IInv, TypeOK, plan
<1> HIDE DEF c
<1>5. proc'[p] = c /\ Alone(p)
  BY <1>3, <1>4 DEF Alone
<1>6. /\ UNCHANGED <<files, locks, work, deaths, history>>
      /\ started' \in Nat /\ ~Indexing(p)
  BY DEF StartBatch, IInv, TypeOK, Indexing
<1>7. Begun' = Begun
  BY <1>6 DEF Begun, files
<1>8. Running(p)'
  BY <1>2, <1>3, <1>5, <1>7 DEF Running, Having, Copies, Locking
<1>9. QED
  BY <1>5, <1>6, <1>8, PlainMove

LEMMA NextOfBatchStep ==
  ASSUME RecordAssumption, IInv, NEW p \in Processes, NextOfBatch(p)
  PROVE  IInv'
<1>1. PICK s \in DOMAIN proc[p].plan :
        proc' = [proc EXCEPT ![p] = [proc[p] EXCEPT
          !.pc = "found", !.s = s, !.seen = proc[p].plan[s],
          !.include = (proc[p].plan[s].bucket = "unsaved"),
          !.plan = [t \in DOMAIN proc[p].plan \ {s} |-> proc[p].plan[t]]]]
  BY DEF NextOfBatch
<1> DEFINE noticed == proc[p].plan[s]
           include == (proc[p].plan[s].bucket = "unsaved")
           plan == [t \in DOMAIN proc[p].plan \ {s} |-> proc[p].plan[t]]
           c == [proc[p] EXCEPT !.pc = "found", !.s = s, !.seen = noticed,
                                !.include = include, !.plan = plan]
<1>2. include \in BOOLEAN /\ DOMAIN plan = DOMAIN proc[p].plan \ {s}
  OBVIOUS
<1>3. proc' = [proc EXCEPT ![p] = c] /\ proc = [q \in Processes |-> proc[q]]
  BY <1>1 DEF IInv, TypeOK
<1> HIDE DEF noticed, include, plan
<1>4. Running(p) /\ CommandType(proc[p]) /\ proc[p].pc = "batch"
  BY DEF IInv, TypeOK, NextOfBatch
<1>5. s \in Begun /\ s \in Sessions /\ DOMAIN plan \subseteq Begun
  BY <1>2, <1>4 DEF Running, Begun
<1>6. /\ CommandType(c) /\ c.pc = "found" /\ c.s = s /\ c.plan = plan
      /\ c.cmd = proc[p].cmd /\ c.copy = proc[p].copy
  BY <1>2, <1>4, <1>5 DEF CommandType, Steps
<1> HIDE DEF c
<1>7. proc'[p] = c /\ Alone(p)
  BY <1>3, <1>6 DEF Alone
<1>8. UNCHANGED <<files, locks, work, deaths, history>> /\ started' \in Nat /\ ~Indexing(p)
  BY <1>4 DEF NextOfBatch, IInv, TypeOK, Indexing
<1>9. Begun' = Begun
  BY <1>8 DEF Begun, files
<1>10. Running(p)'
  BY <1>4, <1>5, <1>6, <1>7, <1>8, <1>9 DEF Running, Having, Copies, Locking, locks
<1>11. QED
  BY <1>7, <1>8, <1>10, PlainMove

(* A command that is about to save a copy of its session.                  *)
LEMMA SaveRuns ==
  ASSUME RecordAssumption, IInv, NEW p \in Processes, NEW copy \in Records,
         NEW then \in Thens, SaveThen(p, copy, then), proc[p].s \in Begun, rec' = rec,
         proc[p].pc \notin {"idle", "dead", "batch"}, configLock = p => configLock' = p,
         Copied(proc[p].s, copy)'
  PROVE  Alone(p) /\ Running(p)'
<1>1. /\ Alone(p)
      /\ proc'[p].pc = "save" /\ proc'[p].copy = copy /\ proc'[p].then = then
      /\ proc'[p].cmd = proc[p].cmd /\ proc'[p].s = proc[p].s
      /\ proc'[p].plan = proc[p].plan
  BY SaveFields DEF IInv
<1>2. Begun' = Begun /\ Begun \subseteq Sessions /\ Running(p)
  BY DEF Begun, IInv
<1>3. QED
  BY <1>1, <1>2 DEF Running, Having, Copies, Locking

LEMMA NotHereStep ==
  ASSUME RecordAssumption, IInv, NEW p \in Processes, proc[p].pc = "find", NotHere(p),
         UNCHANGED <<files, work, started, deaths, history>>
  PROVE  IInv'
<1>1. Running(p) /\ ~Indexing(p) /\ started' \in Nat
  BY DEF IInv, Indexing, TypeOK
<1>2. CASE proc[p].cmd = "begin"
  <2>1. Goto(p, "create") /\ UNCHANGED locks
    BY <1>2 DEF NotHere
  <2>2. /\ Alone(p) /\ proc'[p].pc = "create" /\ proc'[p].cmd = "begin"
        /\ proc'[p].activity = proc[p].activity /\ proc'[p].plan = proc[p].plan
    BY <1>2, <2>1, GotoFields DEF IInv, Steps
  <2>3. Begun' = Begun
    BY DEF Begun, files
  <2>4. Running(p)'
    BY <1>1, <1>2, <2>1, <2>2, <2>3 DEF Running, Having, Copies, Locking, locks
  <2>5. QED
    BY <1>1, <2>1, <2>2, <2>4, PlainMove
<1>3. CASE proc[p].cmd # "begin" /\ Cardinality(Launched(p)) = 1
  <2>1. Hold(p, proc[p].cmd, Latest(Launched(p)), FALSE) /\ UNCHANGED locks
    BY <1>3 DEF NotHere
  <2>2. Launched(p) \subseteq Begun
    BY DEF Launched, Matching
  <2>3. Launched(p) # {}
    BY <1>3, FS_EmptySet
  <2>4. Latest(Launched(p)) \in Begun
    BY <2>2, <2>3, LatestIn DEF Begun
  <2>5. proc[p].cmd \in Commands
    BY <1>1 DEF Running
  <2>6. QED
    BY <1>1, <1>3, <2>1, <2>4, <2>5, Found, PlainMove DEF files, work
<1>4. CASE proc[p].cmd # "begin" /\ Cardinality(Launched(p)) # 1
  BY <1>1, <1>4, PlainEnd DEF NotHere
<1>5. QED
  BY <1>2, <1>3, <1>4

LEMMA FindStep ==
  ASSUME RecordAssumption, IInv, NEW p \in Processes, Find(p)
  PROVE  IInv'
<1> DEFINE here == {s \in Matching(p) : rec[s].place = Main}
<1>1. /\ proc[p].pc = "find" /\ Running(p) /\ ~Indexing(p)
      /\ UNCHANGED <<files, work, started, deaths, history>> /\ started' \in Nat
  BY DEF Find, IInv, TypeOK, Indexing
<1>2. proc[p].cmd \in Commands
  BY <1>1 DEF Running
<1>3. CASE /\ pointer[Main] # None
           /\ Hold(p, proc[p].cmd, pointer[Main].id, FALSE) /\ UNCHANGED locks
  <2>1. pointer[Main].id \in Begun
    BY <1>3 DEF IInv, Indexed, Worktrees
  <2>2. proc[p].cmd = "begin" => configLock' = p
    BY <1>1, <1>3 DEF Running, locks
  <2>3. Alone(p) /\ Running(p)'
    BY <1>1, <1>2, <1>3, <2>1, <2>2, Found DEF files, work
  <2>4. QED
    BY <1>1, <1>3, <2>3, PlainMove
<1>4. CASE /\ here # {}
           /\ proc' = [proc EXCEPT ![p].pc = "save", ![p].s = Latest(here),
                         ![p].copy = rec[Latest(here)], ![p].activity = FALSE,
                         ![p].then = "found"]
           /\ UNCHANGED locks
  <2>1. here \subseteq Begun
    BY DEF Matching
  <2>2. PICK s \in Begun : s = Latest(here)
    BY <1>4, <2>1, LatestIn DEF Begun
  <2> DEFINE c == [proc[p] EXCEPT !.pc = "save", !.s = s, !.copy = rec[s],
                                  !.activity = FALSE, !.then = "found"]
  <2>3. proc' = [proc EXCEPT ![p] = c] /\ proc = [q \in Processes |-> proc[q]]
    BY <1>4, <2>2 DEF IInv, TypeOK
  <2> HIDE DEF here
  <2>4. Copied(s, rec[s]) /\ s \in Sessions /\ rec[s] \in Records
    BY <2>2, Copy
  <2>5. /\ CommandType(c) /\ c.pc = "save" /\ c.s = s /\ c.copy = rec[s]
        /\ c.cmd = proc[p].cmd /\ c.plan = proc[p].plan
    <3>1. CommandType(proc[p])
      BY DEF IInv, TypeOK
    <3>2. QED
      BY <2>4, <3>1 DEF CommandType, Steps, Thens
  <2> HIDE DEF c
  <2>6. proc'[p] = c /\ Alone(p)
    BY <2>3, <2>5 DEF Alone
  <2>7. Begun' = Begun /\ rec' = rec /\ commits' = commits
    BY <1>1 DEF Begun, files, work
  <2>8. Copied(s, rec[s])'
    BY <2>4, <2>7 DEF Copied
  <2>9. Running(p)'
    <3>1. configLock' = configLock
      BY <1>4 DEF locks
    <3>2. /\ proc'[p].pc = "save" /\ proc'[p].s = s /\ proc'[p].copy = rec[s]
          /\ proc'[p].cmd = proc[p].cmd /\ proc'[p].plan = proc[p].plan
      BY <2>5, <2>6
    <3>3. Copied(proc[p].s, proc[p].copy)'
      BY <2>8, <3>2, <2>7 DEF Copied
    <3>4. QED
      BY <1>1, <2>2, <2>4, <2>7, <3>1, <3>2, <3>3 DEF Running, Having, Copies, Locking
  <2>10. QED
    BY <1>1, <1>4, <2>6, <2>9, PlainMove
<1>5. CASE NotHere(p)
  BY <1>1, <1>5, NotHereStep
<1>6. QED
  BY <1>3, <1>4, <1>5 DEF Find

LEMMA CreateStep ==
  ASSUME RecordAssumption, IInv, NEW p \in Processes, Create(p)
  PROVE  IInv'
<1>1. /\ proc[p].pc = "create" /\ Begun # Sessions /\ Running(p) /\ ~Indexing(p)
      /\ UNCHANGED <<files, locks, work, deaths, history>> /\ started' \in Nat
  BY DEF Create, IInv, TypeOK, Indexing
<1>2. PICK s \in Sessions : s = Cardinality(Begun) + 1
  BY <1>1, HowMany DEF IInv
<1>3. s \notin Begun
  <2>1. Cardinality(Begun) \in Nat
    BY HowMany DEF IInv, RecordAssumption
  <2>2. Begun = 1 .. Cardinality(Begun)
    BY DEF IInv, Ordered
  <2>3. QED
    BY <1>2, <2>1, <2>2
<1>4. Begun' = Begun /\ s = Cardinality(Begun') + 1
  BY <1>1, <1>2 DEF Begun, files
<1>5. PICK managed \in Managed :
        proc' = [proc EXCEPT ![p].pc = "save", ![p].s = s, ![p].copy = New(s, managed)]
  BY <1>2 DEF Create
<1>55. PICK copy \in Records : /\ copy = New(s, managed)
                              /\ copy.tasks = 0 /\ copy.status = "active" /\ copy.ready = 0
  <2> DEFINE copy == New(s, managed)
  <2>1. /\ copy \in Records /\ copy.tasks = 0 /\ copy.status = "active" /\ copy.ready = 0
    BY DEF New, Records, Statuses, Live, Closed, Worktrees
  <2> HIDE DEF copy
  <2>2. QED
    BY <2>1 DEF copy
<1> DEFINE c == [proc[p] EXCEPT !.pc = "save", !.s = s, !.copy = copy]
<1>6. proc' = [proc EXCEPT ![p] = c] /\ proc = [q \in Processes |-> proc[q]]
  BY <1>5, <1>55 DEF IInv, TypeOK
<1>7. /\ CommandType(c) /\ c.pc = "save" /\ c.s = s /\ c.copy = copy
      /\ c.activity = proc[p].activity /\ c.cmd = proc[p].cmd /\ c.plan = proc[p].plan
  <2>1. CommandType(proc[p])
    BY DEF IInv, TypeOK
  <2>2. QED
    BY <2>1 DEF CommandType, Steps
<1> HIDE DEF c
<1>8. proc'[p] = c /\ Alone(p)
  BY <1>6, <1>7 DEF Alone
<1>9. Copied(s, copy)'
  BY <1>1, <1>3, <1>4, <1>55 DEF Copied, work, IInv, TypeOK
<1>10. First(p)'
  BY <1>1, <1>4, <1>7, <1>8 DEF First, Running
<1>11. Running(p)'
  BY <1>1, <1>3, <1>4, <1>55, <1>7, <1>8, <1>9, <1>10
  DEF Running, Having, Copies, Locking, locks
<1>12. QED
  BY <1>1, <1>8, <1>11, PlainMove

-----------------------------------------------------------------------------
(* The commands.                                                           *)
LEMMA BeginRefusedStep ==
  ASSUME RecordAssumption, IInv, NEW p \in Processes, BeginRefused(p) \/ NotClean(p)
  PROVE  IInv'
<1>1. /\ End(p) /\ ~Indexing(p)
      /\ UNCHANGED <<files, work, started, deaths, history>>
  BY DEF BeginRefused, NotClean, Indexing
<1>2. QED
  BY <1>1, PlainEnd

LEMMA OverStep ==
  ASSUME RecordAssumption, IInv, NEW p \in Processes, Over(p), ~Indexing(p),
         UNCHANGED <<files, work, started, deaths, history>>, proc[p].pc \notin {"idle", "dead"}
  PROVE  IInv'
<1>1. CASE End(p)
  BY <1>1, PlainEnd
<1>2. CASE proc[p].plan # <<>> /\ Goto(p, "batch") /\ UNCHANGED locks
  <2>1. /\ Alone(p) /\ proc'[p].pc = "batch" /\ proc'[p].cmd = proc[p].cmd
        /\ proc'[p].plan = proc[p].plan
    BY <1>2, GotoFields DEF IInv, Steps
  <2>2. Running(p) /\ Begun' = Begun /\ started' \in Nat
    BY DEF IInv, TypeOK, Begun, files
  <2>3. Running(p)'
    BY <1>2, <2>1, <2>2 DEF Running, Having, Copies, Locking, locks
  <2>4. QED
    BY <1>2, <2>1, <2>2, <2>3, PlainMove
<1>3. QED
  BY <1>1, <1>2 DEF Over

LEMMA DoneStep ==
  ASSUME RecordAssumption, IInv, NEW p \in Processes, Done(p) \/ Refuse(p)
  PROVE  IInv'
<1>1. /\ Over(p) /\ UNCHANGED <<files, work, started, deaths, history>>
      /\ ~Indexing(p) /\ proc[p].pc \notin {"idle", "dead"}
  BY DEF Done, Refuse, Updating, Indexing
<1>2. QED
  BY <1>1, OverStep

(* A step that keeps the locks of the others, and adds commits at most.    *)
LEMMA PlainWork ==
  ASSUME RecordAssumption, IInv, NEW p \in Processes, Alone(p), Running(p)', ~Indexing(p),
         UNCHANGED <<files, lock, configLock, started, deaths, history>>,
         repoLock' \in Processes \cup {None}, dirty' \in [Sessions -> BOOLEAN],
         commits' \in [Sessions -> Nat], landed' \in [Sessions -> Nat],
         \A s \in Sessions : /\ commits[s] <= commits'[s] /\ landed[s] <= landed'[s]
                             /\ landed'[s] <= commits'[s]
  PROVE  IInv'
<1>1. Plain(p)
  BY DEF Plain, files, history
<1>2. \A q \in Processes : CommandType(proc'[q])
  BY DEF Alone, IInv, TypeOK
<1>3. TypeOK'
  BY <1>2 DEF Alone, IInv, TypeOK, files, history
<1>4. QED
  BY <1>1, <1>3, PlainStep

LEMMA CommitsGrow ==
  ASSUME IInv
  PROVE  /\ commits \in [Sessions -> Nat] /\ landed \in [Sessions -> Nat]
         /\ dirty \in [Sessions -> BOOLEAN] /\ repoLock \in Processes \cup {None}
         /\ \A s \in Sessions : /\ commits[s] <= commits[s] /\ landed[s] <= landed[s]
                                /\ landed[s] <= commits[s]
  BY DEF IInv, TypeOK, Counted

(* A command that only moves on to a step that needs its session.          *)
LEMMA MoveRuns ==
  ASSUME RecordAssumption, IInv, NEW p \in Processes, rec' = rec,
         NEW point \in {"recording", "closing", "telling"}, Goto(p, point), configLock' = configLock,
         proc[p].s \in Begun, proc[p].pc \notin {"idle", "dead"},
         point = "recording" => proc[p].cmd = "commit",
         point = "closing" => proc[p].cmd = "finish",
         point = "telling" => Copied(proc[p].s, proc[p].copy)'
  PROVE  Alone(p) /\ Running(p)'
<1>1. /\ Alone(p) /\ proc'[p].pc = point /\ proc'[p].cmd = proc[p].cmd
      /\ proc'[p].s = proc[p].s /\ proc'[p].copy = proc[p].copy
      /\ proc'[p].plan = proc[p].plan
  BY GotoFields DEF IInv, Steps
<1>2. Begun' = Begun /\ Begun \subseteq Sessions /\ Running(p)
  BY DEF Begun, IInv
<1>3. QED
  BY <1>1, <1>2 DEF Running, Having, Copies, Locking

LEMMA GitCommitStep ==
  ASSUME RecordAssumption, IInv, NEW p \in Processes, GitCommit(p)
  PROVE  IInv'
<1> DEFINE s == proc[p].s
<1>1. /\ proc[p].pc = "found" /\ proc[p].cmd = "commit" /\ s \in Begun /\ s \in Sessions
      /\ UNCHANGED <<files, landed, started, deaths, history>> /\ ~Indexing(p)
  BY DEF GitCommit, IInv, Running, Having, Indexing, Begun
<1>2. CASE End(p) /\ UNCHANGED <<commits, dirty>>
  BY <1>1, <1>2, PlainEnd DEF work
<1>3. CASE /\ commits' = [commits EXCEPT ![s] = @ + 1]
           /\ dirty' = [dirty EXCEPT ![s] = FALSE]
           /\ Goto(p, "recording") /\ UNCHANGED locks
  <2>1. Alone(p) /\ Running(p)'
    BY <1>1, <1>3, MoveRuns DEF files, locks
  <2>2. /\ commits' \in [Sessions -> Nat] /\ dirty' \in [Sessions -> BOOLEAN]
        /\ \A t \in Sessions : commits'[t] = IF t = s THEN commits[t] + 1 ELSE commits[t]
    BY <1>1, <1>3, CommitsGrow
  <2>3. \A t \in Sessions : /\ commits[t] <= commits'[t] /\ landed[t] <= landed'[t]
                            /\ landed'[t] <= commits'[t]
    BY <1>1, <2>2, CommitsGrow
  <2>4. landed' \in [Sessions -> Nat] /\ repoLock' \in Processes \cup {None}
    BY <1>1, <1>3, CommitsGrow DEF locks
  <2>5. QED
    BY <1>1, <1>3, <2>1, <2>2, <2>3, <2>4, PlainWork DEF locks
<1>4. QED
  BY <1>1, <1>2, <1>3 DEF GitCommit

LEMMA FinishLockStep ==
  ASSUME RecordAssumption, IInv, NEW p \in Processes, FinishLock(p)
  PROVE  IInv'
<1>1. /\ proc[p].pc = "found" /\ proc[p].cmd = "finish" /\ proc[p].s \in Begun
      /\ UNCHANGED <<files, work, started, deaths, history>> /\ ~Indexing(p)
  BY DEF FinishLock, IInv, Running, Having, Indexing
<1>2. CASE End(p)
  BY <1>1, <1>2, PlainEnd
<1>3. CASE repoLock' = p /\ Goto(p, "closing") /\ UNCHANGED <<lock, configLock>>
  <2>1. Alone(p) /\ Running(p)'
    BY <1>1, <1>3, MoveRuns DEF files
  <2>2. QED
    BY <1>1, <1>3, <2>1, CommitsGrow, PlainWork DEF work
<1>4. QED
  BY <1>2, <1>3 DEF FinishLock

(* What a command holds that may save it.                                  *)
LEMMA HeldCopy ==
  ASSUME RecordAssumption, IInv, NEW p \in Processes,
         \/ proc[p].pc \in {"locking", "merging", "releasing", "telling"}
         \/ proc[p].pc = "found" /\ proc[p].cmd # "abandon"
  PROVE  /\ proc[p].s \in Begun /\ proc[p].s \in Sessions
         /\ Copied(proc[p].s, proc[p].copy) /\ proc[p].copy \in Records
         /\ proc[p].copy.ready \in Nat /\ ~Indexing(p)
         /\ proc[p].pc \notin {"idle", "dead", "batch"}
<1>1. Running(p)
  BY DEF IInv
<1>2. proc[p].s \in Begun /\ proc[p].s \in Sessions
  BY <1>1 DEF Running, Having, Begun
<1>3. Copied(proc[p].s, proc[p].copy)
  BY <1>1 DEF Running, Copies
<1>4. proc[p].copy \in Records
  BY <1>3 DEF Copied
<1>5. QED
  BY <1>2, <1>3, <1>4 DEF Records, Indexing

(* A copy with a status of the lifecycle is as good as the copy.           *)
LEMMA Restatus ==
  ASSUME NEW p \in Processes, NEW s \in Sessions, NEW copy, Copied(s, copy),
         NEW status \in {"ready", "pending", "succeeded"}
  PROVE  /\ Copied(s, [copy EXCEPT !.status = status])
         /\ [copy EXCEPT !.status = status] \in Records
  BY DEF Copied, Records, Statuses, Live, Closed

(* A save of a copy in a step that changes nothing else.                   *)
LEMMA SaveStep ==
  ASSUME RecordAssumption, IInv, NEW p \in Processes, NEW copy \in Records,
         NEW then \in Thens, SaveThen(p, copy, then), Copied(proc[p].s, copy),
         UNCHANGED <<files, lock, configLock, work, started, deaths, history>>,
         repoLock' \in Processes \cup {None},
         \/ proc[p].pc \in {"locking", "merging", "releasing", "telling"}
         \/ proc[p].pc = "found" /\ proc[p].cmd # "abandon"
  PROVE  IInv'
<1>1. /\ proc[p].s \in Begun /\ ~Indexing(p)
      /\ proc[p].pc \notin {"idle", "dead", "batch"}
  BY HeldCopy
<1>2. Begun' = Begun /\ proc[p].s \in Sessions
  BY <1>1 DEF Begun, files
<1>3. Alone(p)
  BY SaveFields DEF IInv
<1>4. Copied(proc[p].s, copy)'
  <2>1. proc'[p].s = proc[p].s
    BY SaveFields DEF IInv
  <2>2. QED
    BY <1>2, <2>1 DEF Copied, files, work
<1>5. Running(p)'
  BY <1>1, <1>4, SaveRuns DEF files
<1>6. QED
  BY <1>1, <1>3, <1>5, CommitsGrow, PlainWork DEF work

LEMMA ValidatedStep ==
  ASSUME RecordAssumption, IInv, NEW p \in Processes, Validated(p)
  PROVE  IInv'
<1>1. PICK then \in {"done", "telling"} : SaveThen(p, proc[p].copy, then)
  BY DEF Validated
<1>2. /\ proc[p].pc = "found" /\ proc[p].cmd # "abandon"
      /\ UNCHANGED <<files, locks, work, started, deaths, history>>
  BY DEF Validated
<1>3. Copied(proc[p].s, proc[p].copy) /\ proc[p].copy \in Records /\ then \in Thens
  BY <1>2, HeldCopy DEF Thens
<1>4. repoLock' \in Processes \cup {None}
  BY <1>2, CommitsGrow DEF locks
<1>5. QED
  BY <1>1, <1>2, <1>3, <1>4, SaveStep DEF locks

LEMMA WaitingStep ==
  ASSUME RecordAssumption, IInv, NEW p \in Processes, Waiting(p)
  PROVE  IInv'
<1> DEFINE held == proc[p].copy
           copy == IF held.status = "active"
                   THEN [held EXCEPT !.status = "ready", !.ready = commits[proc[p].s]]
                   ELSE held
<1>1. /\ proc[p].pc = "found" /\ proc[p].cmd # "abandon" /\ SaveThen(p, copy, "locking")
      /\ UNCHANGED <<files, locks, work, started, deaths, history>>
  BY DEF Waiting
<1>2. /\ Copied(proc[p].s, held) /\ held \in Records /\ proc[p].s \in Sessions
  BY <1>1, HeldCopy
<1>3. commits[proc[p].s] \in Nat
  BY <1>2, CommitsGrow
<1>4. copy \in Records /\ Copied(proc[p].s, copy)
  <2> DEFINE ready == [held EXCEPT !.status = "ready", !.ready = commits[proc[p].s]]
  <2> HIDE DEF held
  <2>1. /\ ready \in Records /\ ready.ready = commits[proc[p].s]
        /\ ready.status = "ready" /\ ready.place = held.place
    BY <1>2, <1>3 DEF Records, Statuses, Live, Closed
  <2>2. Copied(proc[p].s, ready)
    <3> HIDE DEF ready
    <3>1. QED
      BY <1>2, <1>3, <2>1 DEF Copied
  <2>3. QED
    BY <1>2, <2>1, <2>2
<1>5. repoLock' \in Processes \cup {None} /\ "locking" \in Thens
  BY <1>1, CommitsGrow DEF locks, Thens
<1> HIDE DEF copy
<1>6. QED
  BY <1>1, <1>4, <1>5, SaveStep DEF locks

LEMMA AfterWaitCopied ==
  ASSUME RecordAssumption, IInv, NEW p \in Processes, proc[p].pc = "locking"
  PROVE  AfterWait(p) \in Records /\ Copied(proc[p].s, AfterWait(p))
<1>1. /\ proc[p].s \in Begun /\ Copied(proc[p].s, proc[p].copy)
      /\ proc[p].copy \in Records
  BY HeldCopy
<1>2. QED
  BY <1>1, Copy DEF AfterWait

LEMMA LockingStep ==
  ASSUME RecordAssumption, IInv, NEW p \in Processes, TakeRepo(p) \/ RepoTimeout(p)
  PROVE  IInv'
<1>1. proc[p].pc = "locking" /\ AfterWait(p) \in Records /\ Copied(proc[p].s, AfterWait(p))
  BY AfterWaitCopied DEF TakeRepo, RepoTimeout
<1>2. PICK copy \in Records : copy = AfterWait(p)
  BY <1>1
<1>3. CASE TakeRepo(p)
  BY <1>1, <1>2, <1>3, SaveStep DEF TakeRepo, Thens
<1>4. CASE RepoTimeout(p)
  BY <1>1, <1>2, <1>4, SaveStep, CommitsGrow DEF RepoTimeout, Thens, locks
<1>5. QED
  BY <1>3, <1>4

(* A save that follows the promotion of the copy's ready snapshot.         *)
LEMMA LandStep ==
  ASSUME RecordAssumption, IInv, NEW p \in Processes,
         \/ proc[p].pc = "merging"
         \/ proc[p].pc = "found" /\ proc[p].cmd # "abandon",
         Land(proc[p].s, proc[p].copy),
         SaveThen(p, [proc[p].copy EXCEPT !.status = "succeeded"], "done"),
         UNCHANGED <<files, locks, commits, dirty, started, deaths, history>>
  PROVE  IInv'
<1> DEFINE s == proc[p].s
           copy == [proc[p].copy EXCEPT !.status = "succeeded"]
<1>1. /\ s \in Begun /\ s \in Sessions /\ ~Indexing(p)
      /\ Copied(s, proc[p].copy) /\ proc[p].copy \in Records
      /\ proc[p].copy.ready \in Nat /\ proc[p].pc \notin {"idle", "dead", "batch"}
  BY HeldCopy
<1>2. copy \in Records /\ Copied(s, copy)
  BY <1>1, Restatus
<1>3. proc[p].copy.ready <= commits[s]
  BY <1>1 DEF Copied
<1>4. landed' = [landed EXCEPT ![s] = Larger(@, proc[p].copy.ready)]
  BY DEF Land
<1>5. /\ landed' \in [Sessions -> Nat]
      /\ \A t \in Sessions : landed[t] <= landed'[t] /\ landed'[t] <= commits[t]
  BY <1>1, <1>3, <1>4, CommitsGrow DEF Larger
<1> HIDE DEF copy
<1>6. SaveThen(p, copy, "done") /\ "done" \in Thens
  BY DEF copy, Thens
<1>7. Alone(p) /\ proc'[p].s = s
  BY <1>2, <1>6, SaveFields DEF IInv
<1>8. Copied(proc'[p].s, copy) /\ Begun' = Begun /\ rec' = rec /\ commits' = commits
  BY <1>2, <1>7 DEF files, Begun
<1>10. PICK saved \in Records : saved = copy
  BY <1>2
<1>11. Copied(s, saved)'
  BY <1>8, <1>10 DEF Copied
<1>12. Running(p)'
  BY <1>1, <1>6, <1>8, <1>10, <1>11, SaveRuns DEF locks
<1>13. \A t \in Sessions : commits[t] <= commits'[t]
  BY <1>8, CommitsGrow
<1>14. /\ repoLock' \in Processes \cup {None} /\ dirty' \in [Sessions -> BOOLEAN]
       /\ commits' \in [Sessions -> Nat]
  BY CommitsGrow DEF locks
<1>15. QED
  BY <1>1, <1>5, <1>7, <1>8, <1>12, <1>13, <1>14, PlainWork DEF locks

LEMMA IntegratedStep ==
  ASSUME RecordAssumption, IInv, NEW p \in Processes, Integrated(p)
  PROVE  IInv'
BY LandStep DEF Integrated

LEMMA ReconcileStep ==
  ASSUME RecordAssumption, IInv, NEW p \in Processes, Reconcile(p)
  PROVE  IInv'
<1>1. /\ proc[p].pc = "found" /\ proc[p].cmd = "reconcile" /\ ~Indexing(p)
      /\ UNCHANGED <<files, commits, dirty, started, deaths, history>>
  BY DEF Reconcile, Indexing
<1>2. CASE End(p) /\ UNCHANGED landed
  BY <1>1, <1>2, PlainEnd DEF work
<1>3. CASE /\ Land(proc[p].s, proc[p].copy)
           /\ SaveThen(p, [proc[p].copy EXCEPT !.status = "succeeded"], "done")
           /\ UNCHANGED locks
  BY <1>1, <1>3, LandStep
<1>4. QED
  BY <1>2, <1>3 DEF Reconcile

LEMMA FailureSteps ==
  ASSUME RecordAssumption, IInv, NEW p \in Processes,
         IntegrationFails(p) \/ RecordIncident(p)
  PROVE  IInv'
<1>1. /\ proc[p].pc \in {"merging", "telling"}
      /\ UNCHANGED <<files, locks, work, started, deaths, history>>
  BY DEF IntegrationFails, RecordIncident
<1>2. /\ Copied(proc[p].s, proc[p].copy) /\ proc[p].copy \in Records
      /\ proc[p].s \in Sessions
  BY <1>1, HeldCopy
<1>3. ASSUME NEW status \in {proc[p].copy.status, "pending"}
      PROVE  /\ [proc[p].copy EXCEPT !.status = status] \in Records
             /\ Copied(proc[p].s, [proc[p].copy EXCEPT !.status = status])
  <2>1. CASE status = "pending"
    BY <1>2, <2>1, Restatus
  <2>2. CASE status = proc[p].copy.status
    <3>1. [proc[p].copy EXCEPT !.status = status] = proc[p].copy
      BY <1>2, <2>2 DEF Records
    <3>2. QED
      BY <1>2, <3>1
  <2>3. QED
    BY <2>1, <2>2
<1>4. repoLock' \in Processes \cup {None} /\ {"releasing", "done"} \subseteq Thens
  BY <1>1, CommitsGrow DEF locks, Thens
<1>5. CASE IntegrationFails(p)
  <2>1. PICK status \in {proc[p].copy.status, "pending"} :
          SaveThen(p, [proc[p].copy EXCEPT !.status = status], "releasing")
    BY <1>5 DEF IntegrationFails
  <2> DEFINE r == [proc[p].copy EXCEPT !.status = status]
  <2>2. r \in Records /\ Copied(proc[p].s, r) /\ SaveThen(p, r, "releasing")
    BY <1>3, <2>1
  <2> HIDE DEF r
  <2>3. /\ UNCHANGED <<files, lock, configLock, work, started, deaths, history>>
        /\ repoLock' \in Processes \cup {None}
    BY <1>1, <1>4 DEF locks
  <2>4. QED
    BY <1>1, <1>4, <2>2, <2>3, SaveStep
<1>6. CASE RecordIncident(p)
  BY <1>1, <1>2, <1>4, <1>6, SaveStep DEF RecordIncident, locks
<1>7. QED
  BY <1>5, <1>6

LEMMA ReleaseRepoStep ==
  ASSUME RecordAssumption, IInv, NEW p \in Processes, ReleaseRepo(p)
  PROVE  IInv'
<1>1. /\ proc[p].pc = "releasing" /\ repoLock' = None /\ Goto(p, "telling")
      /\ UNCHANGED <<files, lock, configLock, work, started, deaths, history>>
  BY DEF ReleaseRepo
<1>2. /\ Copied(proc[p].s, proc[p].copy) /\ proc[p].s \in Begun /\ ~Indexing(p)
  BY <1>1, HeldCopy
<1>3. proc'[p].s = proc[p].s /\ proc'[p].copy = proc[p].copy
  BY <1>1, GotoFields DEF IInv, Steps
<1>4. Copied(proc[p].s, proc[p].copy)'
  BY <1>1, <1>2, <1>3 DEF Copied, files, work, Begun
<1>5. Alone(p) /\ Running(p)'
  BY <1>1, <1>2, <1>4, MoveRuns DEF files
<1>6. QED
  BY <1>1, <1>2, <1>5, CommitsGrow, PlainWork DEF work

-----------------------------------------------------------------------------
(* Updates under the record lock.                                          *)
LEMMA UpdateHas ==
  ASSUME RecordAssumption, IInv, NEW p \in Processes, Updating(p)
  PROVE  /\ proc[p].s \in Sessions /\ ~Indexing(p)
         /\ proc[p].pc \notin {"idle", "dead", "batch"}
         /\ proc[p].pc # "save" => proc[p].s \in Begun
         /\ proc[p].pc = "save" => Copied(proc[p].s, proc[p].copy)
         /\ Kind(p) \in {"save", "tasks", "commit", "finish", "abandon", "restore"}
         /\ Kind(p) = "save" <=> proc[p].pc = "save"
<1>1. Running(p)
  BY DEF IInv
<1>2. proc[p].pc # "save" => proc[p].s \in Begun
  BY <1>1 DEF Updating, Running, Having
<1>3. proc[p].pc = "save" => proc[p].s \in Sessions /\ Copied(proc[p].s, proc[p].copy)
  BY <1>1 DEF Running, Copies
<1>4. /\ Kind(p) \in {"save", "tasks", "commit", "finish", "abandon", "restore"}
      /\ Kind(p) = "save" <=> proc[p].pc = "save"
  BY <1>1 DEF Updating, Running, Kind
<1>5. QED
  BY <1>2, <1>3, <1>4 DEF Updating, Indexing, Begun

(* What the record says that an update reads.                              *)
LEMMA Before ==
  ASSUME RecordAssumption, IInv, NEW s \in Begun
  PROVE  /\ rec[s] \in Records /\ s \in Sessions
         /\ rec[s].tasks = edits[s] /\ rec[s].beat = worked[s]
         /\ rec[s].ready <= commits[s] /\ edits[s] \in Nat /\ worked[s] \in Nat
         /\ rec[s].status = "no_changes" => ~rec[s].open /\ recorded[s] = 0
         /\ landed[s] <= commits[s] /\ recorded[s] <= commits[s]
         /\ landed[s] \in Nat /\ commits[s] \in Nat /\ recorded[s] \in Nat
  BY Copy DEF IInv, Counted, TypeOK, Begun

(* A save of a copy keeps the checklist and the heartbeat of the record.   *)
LEMMA SaveWrites ==
  ASSUME RecordAssumption, IInv, NEW p \in Processes, proc[p].pc = "save",
         NEW n \in WriteSession(p, rec[proc[p].s])
  PROVE  Writable(p, proc[p].s, n, "save")
<1> DEFINE s == proc[p].s
           copy == proc[p].copy
           activity == proc[p].activity
           r == rec[s]
<1>1. /\ s \in Sessions /\ Copied(s, copy) /\ copy \in Records /\ Running(p)
      /\ activity \in BOOLEAN
  BY UpdateHas DEF Updating, Copied, IInv, TypeOK, CommandType
<1>2. n = Merged(p, r)
  BY DEF WriteSession
<1>3. CASE s \in Begun
  <2>1. /\ r \in Records /\ r # None /\ r.tasks = edits[s] /\ r.beat = worked[s]
        /\ worked[s] \in Nat /\ edits[s] \in Nat
    BY <1>3, Before DEF Begun
  <2>2. n = [copy EXCEPT !.tasks = r.tasks, !.open = r.open,
                         !.beat = IF activity THEN worked[s] + 1 ELSE r.beat]
    BY <1>2, <2>1 DEF Merged, Now
  <2>3. /\ ~(r.status = "no_changes" /\ copy.status # "no_changes")
        /\ ~((r.status = "abandoned") # (copy.status = "abandoned"))
    BY <2>1 DEF WriteSession
  <2>4. /\ copy.ready <= commits[s] /\ copy.place = r.place
        /\ copy.status = "no_changes" => r.status = "no_changes"
    BY <1>1, <1>3 DEF Copied
  <2> HIDE DEF s, copy, r, activity
  <2>5. /\ n \in Records /\ n.tasks = r.tasks /\ n.open = r.open
        /\ n.beat \in {worked[s], worked[s] + 1} /\ n.ready = copy.ready
        /\ n.place = copy.place /\ n.status = copy.status
    <3>1. PICK beat \in Nat : /\ beat = IF activity THEN worked[s] + 1 ELSE r.beat
                             /\ beat \in {worked[s], worked[s] + 1}
      BY <1>1, <2>1
    <3>2. n = [copy EXCEPT !.tasks = r.tasks, !.open = r.open, !.beat = beat]
      BY <2>2, <3>1
    <3>3. r.tasks \in Nat /\ r.open \in BOOLEAN
      BY <2>1 DEF Records
    <3>4. QED
      BY <1>1, <3>1, <3>2, <3>3 DEF Records
  <2>6. Writable(p, s, n, "save")
    <3> HIDE DEF Records
    <3>1. edits[s] + 0 = edits[s]
      BY <2>1
    <3>2. QED
      BY <1>3, <2>1, <2>3, <2>4, <2>5, <3>1 DEF Writable, r
  <2>7. QED
    BY <2>6 DEF s
<1>4. CASE s \notin Begun
  <2>1. /\ r = None /\ edits[s] = 0 /\ worked[s] = 0
        /\ First(p) /\ activity /\ copy.tasks = 0 /\ copy.status = "active"
    BY <1>1, <1>4 DEF Running, Begun, IInv, Counted
  <2>2. n = [copy EXCEPT !.tasks = copy.tasks, !.open = copy.open, !.beat = 1]
    BY <1>2, <2>1 DEF Merged, Now
  <2>3. copy.ready <= commits[s]
    BY <1>1 DEF Copied
  <2> HIDE DEF s, copy, r, activity
  <2>4. /\ n \in Records /\ n.tasks = 0 /\ n.beat = 1 /\ n.ready = copy.ready
        /\ n.status = "active"
    BY <1>1, <2>1, <2>2 DEF Records
  <2>5. Writable(p, s, n, "save")
    BY <1>4, <2>1, <2>3, <2>4 DEF Writable
  <2>6. QED
    BY <2>5 DEF s
<1>5. QED
  BY <1>3, <1>4

(* Every other update starts from the record as it is.                     *)
LEMMA UpdateWrites ==
  ASSUME RecordAssumption, IInv, NEW p \in Processes, Updating(p), proc[p].pc # "save",
         NEW n \in Update(p, rec[proc[p].s])
  PROVE  Writable(p, proc[p].s, n, Kind(p))
<1> DEFINE s == proc[p].s
           r == rec[s]
<1>1. s \in Begun /\ Kind(p) \in {"tasks", "commit", "finish", "abandon", "restore"}
  BY UpdateHas
<1>2. /\ r \in Records /\ s \in Sessions
      /\ r.tasks = edits[s] /\ r.beat = worked[s]
      /\ r.ready <= commits[s] /\ edits[s] \in Nat /\ worked[s] \in Nat
      /\ landed[s] <= commits[s] /\ recorded[s] <= commits[s]
      /\ landed[s] \in Nat /\ commits[s] \in Nat /\ recorded[s] \in Nat
  BY <1>1, Before
<1>25. worked[s] + 1 \in Nat /\ edits[s] + 1 \in Nat
  BY <1>2
<1>3. CASE Kind(p) = "tasks"
  <2>1. PICK open \in BOOLEAN :
          n = [[r EXCEPT !.tasks = @ + 1, !.open = open] EXCEPT !.beat = worked[s] + 1]
    BY <1>3 DEF Update, UpdateTasks, EditTasks, Now
  <2>2. r.status \notin Closed
    BY <1>3 DEF Update, UpdateTasks
  <2> HIDE DEF r, s
  <2>3. /\ n \in Records /\ n.tasks = r.tasks + 1 /\ n.beat = worked[s] + 1
        /\ n.ready = r.ready /\ n.place = r.place /\ n.status = r.status
    BY <1>2, <1>25, <2>1 DEF Records
  <2>4. Writable(p, s, n, "tasks")
    BY <1>1, <1>2, <2>2, <2>3 DEF Writable, Closed, r
  <2>5. QED
    BY <1>3, <2>4 DEF s
<1>4. CASE Kind(p) = "commit"
  <2>1. n = [r EXCEPT !.beat = worked[s] + 1] /\ r.status \notin Closed
    BY <1>4 DEF Update, RecordActivity, Now
  <2> HIDE DEF r, s
  <2>2. /\ n \in Records /\ n.tasks = r.tasks /\ n.beat = worked[s] + 1
        /\ n.ready = r.ready /\ n.place = r.place /\ n.status = r.status
    BY <1>2, <1>25, <2>1 DEF Records
  <2>3. Writable(p, s, n, "commit")
    BY <1>1, <1>2, <2>1, <2>2 DEF Writable, Closed, r
  <2>4. QED
    BY <1>4, <2>3 DEF s
<1>5. CASE Kind(p) = "finish"
  <2>1. /\ n = [r EXCEPT !.status = "no_changes", !.beat = worked[s] + 1]
        /\ r.status = "active" /\ ~r.open /\ commits[s] = 0
    BY <1>5 DEF Update, FinishNoChanges, AtStart, Now
  <2> HIDE DEF r, s
  <2>2. /\ n \in Records /\ n.tasks = r.tasks /\ n.beat = worked[s] + 1
        /\ n.ready = r.ready /\ n.place = r.place /\ n.status = "no_changes"
        /\ n.open = r.open
    BY <1>2, <1>25, <2>1 DEF Records, Statuses, Closed
  <2>3. recorded[s] = 0
    BY <1>2, <2>1
  <2>4. Writable(p, s, n, "finish")
    BY <1>1, <1>2, <2>1, <2>2, <2>3 DEF Writable, r
  <2>5. QED
    BY <1>5, <2>4 DEF s
<1>6. CASE Kind(p) = "abandon"
  <2> DEFINE included == (Bucket(s, r, p) = "unsaved")
  <2>1. /\ n = [r EXCEPT !.status = "abandoned", !.included = included]
        /\ Recheck(p, r)
    BY <1>6 DEF Update, AbandonRecord
  <2>2. r.status = "active" /\ Bucket(s, r, p) # "lifecycle"
    BY <2>1 DEF Recheck, MayAbandon, Facts
  <2>3. ~included => ~(commits[s] > landed[s])
    <3>1. SUFFICES ASSUME commits[s] > landed[s] PROVE Bucket(s, r, p) = "unsaved"
      OBVIOUS
    <3>2. Inspected(s).outside
      BY <3>1 DEF Inspected
    <3>3. InLifecycle(s, r, p) => Bucket(s, r, p) = "lifecycle"
      BY DEF Bucket
    <3> HIDE DEF s, r
    <3>4. QED
      BY <2>2, <3>2, <3>3 DEF Bucket
  <2> HIDE DEF r, s
  <2>4. included \in BOOLEAN
    OBVIOUS
  <2> HIDE DEF included
  <2>5. /\ n \in Records /\ n.tasks = r.tasks /\ n.beat = r.beat
        /\ n.ready = r.ready /\ n.place = r.place /\ n.status = "abandoned"
        /\ n.included = included
    BY <1>2, <2>1, <2>4 DEF Records, Statuses, Closed
  <2>6. ~included => recorded[s] <= landed[s]
    BY <1>2, <2>3
  <2>7. Writable(p, s, n, "abandon")
    BY <1>1, <1>2, <2>2, <2>5, <2>6 DEF Writable, r
  <2>8. QED
    BY <1>6, <2>7 DEF s
<1>7. CASE Kind(p) = "restore"
  <2>1. n = [r EXCEPT !.status = "active", !.beat = worked[s] + 1] /\ r.status = "abandoned"
    BY <1>7 DEF Update, RestoreRecord, Now
  <2> HIDE DEF r, s
  <2>2. /\ n \in Records /\ n.tasks = r.tasks /\ n.beat = worked[s] + 1
        /\ n.ready = r.ready /\ n.place = r.place /\ n.status = "active"
    BY <1>2, <1>25, <2>1 DEF Records, Statuses, Live
  <2>3. Writable(p, s, n, "restore")
    BY <1>1, <1>2, <2>1, <2>2 DEF Writable, r
  <2>4. QED
    BY <1>7, <2>3 DEF s
<1>8. QED
  BY <1>1, <1>3, <1>4, <1>5, <1>6, <1>7

LEMMA EnterStep ==
  ASSUME RecordAssumption, IInv, NEW p \in Processes, Enter(p)
  PROVE  IInv'
<1> DEFINE s == proc[p].s
<1>1. /\ Updating(p) /\ lock[s] = None /\ lock' = [lock EXCEPT ![s] = p]
      /\ UNCHANGED <<files, configLock, repoLock, work, started, deaths, history>>
  BY DEF Enter
<1>2. PICK n \in Update(p, rec[s]) :
        proc' = [proc EXCEPT ![p].next = n, ![p].pc = "write", ![p].kind = Kind(p)]
  BY DEF Enter
<1>3. /\ s \in Sessions /\ ~Indexing(p) /\ proc[p].pc \notin {"idle", "dead", "batch"}
      /\ Kind(p) \in {"save", "tasks", "commit", "finish", "abandon", "restore"}
  BY <1>1, UpdateHas
<1>4. Writable(p, s, n, Kind(p))
  <2>1. CASE proc[p].pc = "save"
    <3>1. Kind(p) = "save" /\ n \in WriteSession(p, rec[s])
      BY <1>2, <2>1 DEF Kind, Update
    <3>2. QED
      BY <2>1, <3>1, SaveWrites
  <2>2. CASE proc[p].pc # "save"
    BY <1>1, <1>2, <2>2, UpdateWrites
  <2>3. QED
    BY <2>1, <2>2
<1>5. n \in Records /\ CommandType(proc[p]) /\ proc = [q \in Processes |-> proc[q]]
  BY <1>4 DEF Writable, IInv, TypeOK
<1>6. PICK kind \in Commands \cup {"save", None} : kind = Kind(p)
  BY <1>3 DEF Commands, Wanted
<1> DEFINE c == [proc[p] EXCEPT !.next = n, !.pc = "write", !.kind = kind]
<1>7. proc' = [proc EXCEPT ![p] = c]
  BY <1>2, <1>6
<1>8. /\ CommandType(c) /\ c.pc = "write" /\ c.next = n /\ c.kind = kind
      /\ c.s = s /\ c.cmd = proc[p].cmd /\ c.plan = proc[p].plan
  BY <1>5 DEF CommandType, Steps
<1> HIDE DEF c
<1>9. proc'[p] = c /\ Alone(p)
  BY <1>5, <1>7, <1>8 DEF Alone
<1>10. /\ rec' = rec /\ Begun' = Begun /\ commits' = commits /\ landed' = landed
       /\ edits' = edits /\ worked' = worked /\ recorded' = recorded
       /\ configLock' = configLock
  BY <1>1 DEF files, work, history, Begun
<1>11. Writable(p, proc[p].s, proc[p].next, proc[p].kind)'
  <2>1. First(p)' <=> First(p)
    BY <1>8, <1>9, <1>10 DEF First
  <2> HIDE DEF s
  <2>2. proc'[p].s = s /\ proc'[p].next = n /\ proc'[p].kind = kind
    BY <1>8, <1>9
  <2>3. Writable(p, s, n, kind)
    BY <1>4, <1>6
  <2>4. QED
    BY <1>10, <2>1, <2>2, <2>3 DEF Writable
<1>12. lock \in [Sessions -> Processes \cup {None}] /\ None \notin Processes
  BY DEF IInv, TypeOK, RecordAssumption
<1>13. /\ lock' \in [Sessions -> Processes \cup {None}] /\ lock'[s] = p
       /\ \A q \in Processes, t \in Sessions : lock[t] = q => lock'[t] = q
  BY <1>1, <1>3, <1>12
<1>14. Running(p) /\ Running(p)'
  <2>1. Running(p)
    BY DEF IInv
  <2>2. /\ proc'[p].pc = "write" /\ proc'[p].s = s /\ proc'[p].cmd = proc[p].cmd
        /\ proc'[p].plan = proc[p].plan
    BY <1>8, <1>9
  <2>3. QED
    BY <1>3, <1>10, <1>11, <1>13, <2>1, <2>2 DEF Running, Having, Copies, Locking
<1>15. Plain(p)
  BY <1>1, <1>3, <1>9, <1>13, CommitsGrow DEF Plain, files, work, history
<1>16. \A q \in Processes : CommandType(proc'[q])
  BY <1>9 DEF Alone, IInv, TypeOK
<1>17. TypeOK'
  BY <1>1, <1>9, <1>13, <1>16 DEF Alone, IInv, TypeOK, files, work, history
<1>18. QED
  BY <1>14, <1>15, <1>17, PlainStep

-----------------------------------------------------------------------------
(* Writing the record.                                                     *)
LEMMA WriteRecordStep ==
  ASSUME RecordAssumption, IInv, NEW p \in Processes, WriteRecord(p)
  PROVE  IInv'
<1>1. PICK s \in Sessions, n \in Records, kind \in Commands \cup {"save", None} :
        /\ proc[p].pc = "write" /\ proc[p].s = s /\ proc[p].next = n /\ proc[p].kind = kind
        /\ lock[s] = p /\ Writable(p, s, n, kind) /\ Running(p)
  <2>1. CommandType(proc[p]) /\ Running(p) /\ proc[p].pc = "write"
    BY DEF WriteRecord, IInv, TypeOK
  <2>2. proc[p].kind \in Commands \cup {"save", None}
    BY <2>1 DEF CommandType
  <2>3. QED
    BY <2>1, <2>2 DEF Running, Locking, Writable
<1>2. /\ rec' = [rec EXCEPT ![s] = n]
      /\ proc' = [proc EXCEPT ![p].pc = "indexing", ![p].copy = n, ![p].next = None]
      /\ edits' = [edits EXCEPT ![s] = IF kind = "tasks" THEN @ + 1 ELSE @]
      /\ worked' = [worked EXCEPT ![s] = IF n.beat = worked[s] + 1 THEN @ + 1 ELSE @]
      /\ recorded' = [recorded EXCEPT ![s] = IF kind = "commit" THEN commits[s] ELSE @]
      /\ UNCHANGED <<pointer, index, locks, work, started, deaths, torn>>
  BY <1>1 DEF WriteRecord, Now
<1>3. /\ rec \in [Sessions -> Records \cup {None}] /\ commits \in [Sessions -> Nat]
      /\ edits \in [Sessions -> Nat] /\ worked \in [Sessions -> Nat]
      /\ recorded \in [Sessions -> Nat] /\ landed \in [Sessions -> Nat]
      /\ lock \in [Sessions -> Processes \cup {None}] /\ None \notin Processes
  BY DEF IInv, TypeOK, RecordAssumption
<1>4. n # None
  BY NoneIsNoRecord
<1>5. /\ Begun' = Begun \cup {s} /\ Begun \subseteq Sessions
      /\ rec'[s] = n /\ \A t \in Sessions \ {s} : rec'[t] = rec[t]
  BY <1>2, <1>3, <1>4 DEF Begun
<1> DEFINE c == [proc[p] EXCEPT !.pc = "indexing", !.copy = n, !.next = None]
<1>6. proc' = [proc EXCEPT ![p] = c] /\ proc = [q \in Processes |-> proc[q]]
  BY <1>2 DEF IInv, TypeOK
<1>7. /\ CommandType(c) /\ c.pc = "indexing" /\ c.copy = n /\ c.s = s
      /\ c.cmd = proc[p].cmd /\ c.plan = proc[p].plan
  <2>1. CommandType(proc[p])
    BY DEF IInv, TypeOK
  <2>2. QED
    BY <1>1, <2>1 DEF CommandType, Steps
<1> HIDE DEF c
<1>8. /\ Alone(p) /\ proc'[p].pc = "indexing" /\ proc'[p].copy = n /\ proc'[p].s = s
      /\ proc'[p].cmd = proc[p].cmd /\ proc'[p].plan = proc[p].plan
  BY <1>6, <1>7 DEF Alone
<1>9. s \notin Begun => First(p) /\ s = Cardinality(Begun) + 1 /\ configLock = p
  BY <1>1 DEF Writable, First, Running
<1>10. Ordered'
  <2>1. Begun = 1 .. Cardinality(Begun) /\ IsFiniteSet(Begun) /\ Cardinality(Begun) \in Nat
    BY HowMany DEF IInv, Ordered, RecordAssumption
  <2>2. CASE s \in Begun
    BY <1>5, <2>1, <2>2 DEF Ordered
  <2>3. CASE s \notin Begun
    <3>1. Cardinality(Begun') = Cardinality(Begun) + 1
      BY <1>5, <2>1, <2>3, FS_AddElement
    <3>2. PICK k \in Nat : k = Cardinality(Begun)
      BY <2>1
    <3>3. Begun' = 1 .. k + 1
      BY <1>5, <1>9, <2>1, <2>3, <3>2
    <3>4. QED
      BY <3>1, <3>2, <3>3 DEF Ordered
  <2>4. QED
    BY <2>2, <2>3
<1>11. \A t \in Sessions : Counted(t)'
  <2>1. TAKE t \in Sessions
  <2>2. Counted(t) /\ commits' = commits /\ landed' = landed
    BY <1>2 DEF IInv, work
  <2>3. CASE t # s
    BY <1>2, <1>3, <1>5, <2>2, <2>3 DEF Counted
  <2>4. CASE t = s
    <3>1. /\ edits'[s] = edits[s] + IF kind = "tasks" THEN 1 ELSE 0
          /\ worked'[s] = IF n.beat = worked[s] + 1 THEN worked[s] + 1 ELSE worked[s]
          /\ recorded'[s] = IF kind = "commit" THEN commits[s] ELSE recorded[s]
      BY <1>2, <1>3
    <3>2. /\ n.ready <= commits[s] /\ n.tasks = edits'[s] /\ n.beat = worked'[s]
      BY <1>1, <3>1 DEF Writable
    <3>3. n.status = "no_changes" => ~n.open /\ recorded'[s] = 0
      <4>1. SUFFICES ASSUME n.status = "no_changes" PROVE ~n.open /\ recorded'[s] = 0
        OBVIOUS
      <4>2. s \in Begun /\ kind # "commit"
        BY <1>1, <4>1 DEF Writable
      <4>3. CASE rec[s].status = "no_changes"
        BY <1>1, <2>2, <2>4, <3>1, <4>2, <4>3 DEF Writable, Counted
      <4>4. CASE rec[s].status # "no_changes"
        BY <1>1, <3>1, <4>1, <4>2, <4>4 DEF Writable
      <4>5. QED
        BY <4>3, <4>4
    <3>4. recorded'[s] <= commits[s] /\ landed[s] <= commits[s]
      BY <1>3, <2>2, <2>4, <3>1 DEF Counted
    <3>5. QED
      BY <1>5, <2>2, <2>4, <3>2, <3>3, <3>4 DEF Counted
  <2>5. QED
    BY <2>3, <2>4
<1>12. \A t \in Begun : rec'[t].place = rec[t].place
  BY <1>1, <1>5 DEF Writable
<1>13. \A t \in Sessions \ {s} : (Pointed(t)' <=> Pointed(t)) /\ (Listed(t)' <=> Listed(t))
  BY <1>2, <1>5 DEF Pointed, Listed
<1>14. Indexed'
  <2>1. Indexed
    BY DEF IInv
  <2>2. \A w \in Worktrees : pointer'[w] # None =>
          pointer'[w].id \in Begun' /\ rec'[pointer'[w].id].place = w
    BY <1>2, <1>5, <1>12, <2>1 DEF Indexed
  <2>3. ASSUME NEW t \in Begun' \ torn'
        PROVE  \/ Pointed(t)' /\ Listed(t)'
               \/ \E q \in Processes : Indexing(q)' /\ proc'[q].s = t
    <3>1. CASE t = s
      BY <1>8, <3>1 DEF Indexing
    <3>2. CASE t # s
      <4>1. t \in Begun \ torn /\ t \in Sessions \ {s}
        BY <1>2, <1>5, <3>2
      <4>2. ASSUME NEW q \in Processes, Indexing(q), proc[q].s = t
            PROVE  Indexing(q)' /\ proc'[q].s = t
        BY <1>1, <1>8, <3>2, <4>2 DEF Alone, Indexing
      <4>3. QED
        BY <1>13, <2>1, <4>1, <4>2 DEF Indexed
    <3>3. QED
      BY <3>1, <3>2
  <2>4. QED
    BY <2>2, <2>3 DEF Indexed
<1>15. Running(p)'
  <2>1. Copied(s, n)'
    BY <1>1, <1>2, <1>5, <1>8 DEF Writable, Copied, work
  <2>2. Copied(proc[p].s, proc[p].copy)'
    BY <1>8, <2>1 DEF Copied
  <2>3. lock' = lock /\ configLock' = configLock
    BY <1>2 DEF locks
  <2>4. DOMAIN proc[p].plan \subseteq Begun'
    BY <1>1, <1>5 DEF Running
  <2>5. QED
    BY <1>1, <1>5, <1>8, <2>2, <2>3, <2>4 DEF Running, Having, Copies, Locking
<1>16. ASSUME NEW q \in Processes \ {p} PROVE Running(q)'
  <2>1. Running(q) /\ proc'[q] = proc[q]
    BY <1>8 DEF IInv, Alone
  <2>2. /\ lock' = lock /\ configLock' = configLock /\ commits' = commits /\ landed' = landed
        /\ pointer' = pointer /\ index' = index
    BY <1>2 DEF locks, work
  <2>3. proc[q].pc \in Locking => proc[q].s \in Sessions \ {s}
    BY <1>1, <2>1 DEF Running
  <2>4. ASSUME First(q), proc[q].pc \notin {"idle", "dead"}
        PROVE  s \in Begun /\ Begun' = Begun /\ First(q)'
    <3>1. configLock = q
      BY <2>1, <2>4 DEF Running, First
    <3>2. s \in Begun /\ Begun' = Begun
      BY <1>5, <1>9, <3>1
    <3>3. QED
      BY <2>1, <2>4, <3>2 DEF First
  <2>5. proc[q].pc = "save" /\ proc[q].s \notin Begun => First(q)
    BY <2>1 DEF Running
  <2>6. ASSUME Copies(q) PROVE Copied(proc[q].s, proc[q].copy)'
    <3>1. Copied(proc[q].s, proc[q].copy) /\ proc[q].s \in Sessions
      BY <2>1, <2>6 DEF Running
    <3>2. CASE proc[q].s \in Begun
      <4>1. proc[q].s # s => rec'[proc[q].s] = rec[proc[q].s]
        BY <1>5, <3>1
      <4>2. proc[q].s = s => /\ n.place = rec[s].place
                             /\ rec[s].status = "no_changes" => n.status = "no_changes"
        BY <1>1, <3>2 DEF Writable
      <4>3. QED
        BY <1>5, <2>1, <2>2, <3>1, <3>2, <4>1, <4>2 DEF Copied
    <3>3. CASE proc[q].s \notin Begun
      <4>1. proc[q].pc = "save"
        BY <2>1, <2>6, <3>3 DEF Running, Having, Copies
      <4>2. Begun' = Begun
        BY <2>4, <2>5, <3>3, <4>1
      <4>3. QED
        BY <2>1, <2>2, <3>1, <3>3, <4>2 DEF Copied
    <3>4. QED
      BY <3>2, <3>3
  <2>7. Copies(q)' <=> Copies(q)
    BY <2>1 DEF Copies
  <2>8. proc[q].pc = "save" /\ proc[q].s \notin Begun' => First(q)'
    BY <1>5, <2>4, <2>5
  <2>9. ASSUME proc[q].pc = "write"
        PROVE  Writable(q, proc[q].s, proc[q].next, proc[q].kind)'
    <3>1. Writable(q, proc[q].s, proc[q].next, proc[q].kind) /\ proc[q].s \in Sessions \ {s}
      BY <2>1, <2>3, <2>9 DEF Running, Locking
    <3>2. PICK t \in Sessions \ {s} : t = proc[q].s
      BY <3>1
    <3>3. /\ rec'[t] = rec[t] /\ edits'[t] = edits[t] /\ worked'[t] = worked[t]
          /\ recorded'[t] = recorded[t] /\ (t \in Begun' <=> t \in Begun)
      BY <1>2, <1>3, <1>5
    <3>4. First(q) => First(q)'
      BY <2>4, <2>9
    <3>5. QED
      BY <2>1, <2>2, <3>1, <3>2, <3>3, <3>4 DEF Writable
  <2>10. /\ proc[q].pc \in {"pointed", "unlock"} => Pointed(proc[q].s)'
         /\ proc[q].pc \in {"indexed", "unlock"} => Listed(proc[q].s)'
    BY <1>13, <2>1, <2>3 DEF Running, Locking
  <2>11. QED
    BY <1>5, <2>1, <2>2, <2>6, <2>7, <2>8, <2>9, <2>10 DEF Running, Locking
<1>17. TypeOK'
  <2>1. /\ rec' \in [Sessions -> Records \cup {None}] /\ edits' \in [Sessions -> Nat]
        /\ worked' \in [Sessions -> Nat] /\ recorded' \in [Sessions -> Nat]
    BY <1>2, <1>3
  <2>2. \A q \in Processes : CommandType(proc'[q])
    BY <1>8 DEF Alone, IInv, TypeOK
  <2>3. QED
    BY <1>2, <1>8, <2>1, <2>2 DEF Alone, IInv, TypeOK, locks, work
<1>18. QED
  BY <1>10, <1>11, <1>14, <1>15, <1>16, <1>17 DEF IInv

-----------------------------------------------------------------------------
(* The two index files, and the lock.                                      *)
LEMMA Holder ==
  ASSUME RecordAssumption, IInv, NEW p \in Processes,
         proc[p].pc \in {"indexing", "pointed", "indexed", "unlock"}
  PROVE  /\ proc[p].s \in Begun /\ proc[p].s \in Sessions /\ lock[proc[p].s] = p
         /\ Copied(proc[p].s, proc[p].copy) /\ Running(p)
         /\ rec[proc[p].s].status \in Statuses /\ rec[proc[p].s].place \in Worktrees
<1>1. Running(p)
  BY DEF IInv
<1>2. proc[p].s \in Begun
  BY <1>1 DEF Running, Having
<1>3. rec[proc[p].s] \in Records
  BY <1>2, Copy
<1>4. QED
  BY <1>1, <1>2, <1>3 DEF Running, Locking, Copies, Records

(* A step of the holder that stays with its session.                       *)
LEMMA HolderMoves ==
  ASSUME RecordAssumption, IInv, NEW p \in Processes,
         proc[p].pc \in {"indexing", "pointed", "indexed"},
         NEW point \in {"pointed", "indexed", "unlock"}, Goto(p, point),
         rec' = rec, commits' = commits, UNCHANGED locks,
         point \in {"pointed", "unlock"} => Pointed(proc[p].s)',
         point \in {"indexed", "unlock"} => Listed(proc[p].s)'
  PROVE  Alone(p) /\ Running(p)' /\ proc'[p].pc = point /\ proc'[p].s = proc[p].s
<1>1. /\ Alone(p) /\ proc'[p].pc = point /\ proc'[p].cmd = proc[p].cmd
      /\ proc'[p].s = proc[p].s /\ proc'[p].copy = proc[p].copy
      /\ proc'[p].plan = proc[p].plan
  BY GotoFields DEF IInv, Steps
<1>2. /\ proc[p].s \in Begun /\ proc[p].s \in Sessions /\ lock[proc[p].s] = p
      /\ Copied(proc[p].s, proc[p].copy) /\ Running(p)
  BY Holder
<1>3. Begun' = Begun
  BY DEF Begun
<1>4. Copied(proc[p].s, proc[p].copy)'
  BY <1>1, <1>2, <1>3 DEF Copied
<1>5. QED
  BY <1>1, <1>2, <1>3, <1>4 DEF Running, Having, Copies, Locking, locks

LEMMA WritePointerStep ==
  ASSUME RecordAssumption, IInv, NEW p \in Processes, WritePointer(p)
  PROVE  IInv'
<1>1. PICK s \in Sessions :
        /\ s = proc[p].s /\ s \in Begun /\ lock[s] = p /\ Running(p)
        /\ rec[s].status \in Statuses /\ rec[s].place \in Worktrees
  BY Holder DEF WritePointer
<1> DEFINE point == IF proc[p].pc = "indexed" THEN "unlock" ELSE "pointed"
<1>2. /\ proc[p].pc \in {"indexing", "indexed"} /\ Goto(p, point)
      /\ pointer' = [pointer EXCEPT ![rec[s].place] = [id |-> s, status |-> rec[s].status]]
      /\ UNCHANGED <<rec, index, locks, work, started, deaths, history>>
  BY <1>1 DEF WritePointer
<1>3. /\ Begun' = Begun /\ commits' = commits /\ UNCHANGED locks /\ torn' = torn
      /\ index' = index
  BY <1>2 DEF Begun, work, history
<1>4. pointer \in [Worktrees -> [id : Sessions, status : Statuses] \cup {None}] /\ Indexed
  BY DEF IInv, TypeOK
<1>5. \A w \in Worktrees : pointer'[w] =
        IF w = rec[s].place THEN [id |-> s, status |-> rec[s].status] ELSE pointer[w]
  BY <1>1, <1>2, <1>4
<1>6. Pointed(s)'
  <2>1. ASSUME NEW w \in Worktrees, pointer'[w] # None, pointer'[w].id = s
        PROVE  pointer'[w].status = rec'[s].status
    <3>1. CASE w = rec[s].place
      BY <1>2, <1>5, <3>1
    <3>2. CASE w # rec[s].place
      BY <1>4, <1>5, <2>1, <3>2 DEF Indexed
    <3>3. QED
      BY <3>1, <3>2
  <2>2. QED
    BY <2>1 DEF Pointed
<1>7. \A t \in Sessions : t # s => (Pointed(t) => Pointed(t)') /\ (Listed(t)' <=> Listed(t))
  <2>1. \A w \in Worktrees, t \in Sessions \ {s} : pointer'[w].id = t => pointer'[w] = pointer[w]
    BY <1>5
  <2>2. QED
    BY <1>2, <1>3, <2>1 DEF Pointed, Listed
<1>8. Listed(s)' <=> Listed(s)
  BY <1>2, <1>3 DEF Listed
<1>9. proc[p].pc = "indexed" => Listed(s)
  BY <1>1 DEF Running
<1>10. point \in {"pointed", "indexed", "unlock"}
  OBVIOUS
<1>11. /\ point \in {"pointed", "unlock"} => Pointed(proc[p].s)'
       /\ point \in {"indexed", "unlock"} => Listed(proc[p].s)'
  <2>1. proc'[p].s = s
    BY <1>1, <1>2, <1>10, GotoFields DEF IInv, Steps
  <2>2. QED
    BY <1>1, <1>2, <1>6, <1>8, <1>9, <2>1 DEF Pointed, Listed
<1>12. Alone(p) /\ Running(p)' /\ proc'[p].pc = point /\ proc'[p].s = s
  <2> HIDE DEF point
  <2>1. PICK step \in {"pointed", "indexed", "unlock"} : step = point
    BY <1>10
  <2>2. QED
    BY <1>1, <1>2, <1>3, <1>11, <2>1, HolderMoves
<1>13. Still(p)
  BY <1>1, <1>2, <1>3, <1>7, <1>12, CommitsGrow DEF Still, work, history, locks
<1>14. Indexed'
  <2>1. \A w \in Worktrees : pointer'[w] # None =>
          pointer'[w].id \in Begun' /\ rec'[pointer'[w].id].place = w
    BY <1>1, <1>2, <1>3, <1>4, <1>5 DEF Indexed
  <2>2. ASSUME NEW t \in Begun' \ torn'
        PROVE  \/ Pointed(t)' /\ Listed(t)'
               \/ \E q \in Processes : Indexing(q)' /\ proc'[q].s = t
    <3>1. CASE t = s /\ point = "unlock"
      BY <1>6, <1>8, <1>9, <3>1
    <3>2. CASE t = s /\ point = "pointed"
      BY <1>12, <3>2 DEF Indexing
    <3>3. CASE t # s
      <4>1. t \in Begun \ torn /\ t \in Sessions
        BY <1>3 DEF Begun
      <4>2. ASSUME NEW q \in Processes, Indexing(q), proc[q].s = t
            PROVE  Indexing(q)' /\ proc'[q].s = t
        BY <1>1, <1>12, <3>3, <4>2 DEF Alone, Indexing
      <4>3. QED
        BY <1>4, <1>7, <3>3, <4>1, <4>2 DEF Indexed
    <3>4. QED
      BY <3>1, <3>2, <3>3
  <2>3. QED
    BY <2>1, <2>2 DEF Indexed
<1>15. TypeOK'
  <2>1. pointer' \in [Worktrees -> [id : Sessions, status : Statuses] \cup {None}]
    BY <1>1, <1>2, <1>4
  <2>2. \A q \in Processes : CommandType(proc'[q])
    BY <1>12 DEF Alone, IInv, TypeOK
  <2>3. QED
    BY <1>2, <1>12, <2>1, <2>2 DEF Alone, IInv, TypeOK, locks, work, history
<1>16. \A q \in Processes : Running(q)'
  BY <1>12, <1>13, <1>15, Beside
<1>17. QED
  BY <1>13, <1>14, <1>15, <1>16, Frame DEF IInv

LEMMA WriteIndexStep ==
  ASSUME RecordAssumption, IInv, NEW p \in Processes, WriteIndex(p)
  PROVE  IInv'
<1>1. PICK s \in Sessions :
        /\ s = proc[p].s /\ s \in Begun /\ lock[s] = p /\ Running(p)
        /\ rec[s].status \in Statuses
  BY Holder DEF WriteIndex
<1> DEFINE point == IF proc[p].pc = "pointed" THEN "unlock" ELSE "indexed"
<1>2. /\ proc[p].pc \in {"indexing", "pointed"} /\ Goto(p, point)
      /\ index' = [index EXCEPT ![s] = rec[s].status]
      /\ UNCHANGED <<rec, pointer, locks, work, started, deaths, history>>
  BY <1>1 DEF WriteIndex
<1>3. /\ Begun' = Begun /\ commits' = commits /\ UNCHANGED locks /\ torn' = torn
      /\ pointer' = pointer
  BY <1>2 DEF Begun, work, history
<1>4. index \in [Sessions -> Statuses \cup {None}] /\ Indexed
  BY DEF IInv, TypeOK
<1>5. \A t \in Sessions : index'[t] = IF t = s THEN rec[s].status ELSE index[t]
  BY <1>2, <1>4
<1>6. \A t \in Sessions : Pointed(t)' <=> Pointed(t)
  BY <1>2, <1>3 DEF Pointed
<1>7. Listed(s)' /\ \A t \in Sessions : t # s => (Listed(t)' <=> Listed(t))
  BY <1>2, <1>5 DEF Listed
<1>8. proc[p].pc = "pointed" => Pointed(s)
  BY <1>1 DEF Running
<1>9. point \in {"pointed", "indexed", "unlock"}
  OBVIOUS
<1>10. /\ point \in {"pointed", "unlock"} => Pointed(proc[p].s)'
       /\ point \in {"indexed", "unlock"} => Listed(proc[p].s)'
  <2>1. proc'[p].s = s
    BY <1>1, <1>2, <1>9, GotoFields DEF IInv, Steps
  <2>2. QED
    BY <1>1, <1>2, <1>6, <1>7, <1>8, <2>1 DEF Pointed, Listed
<1>11. Alone(p) /\ Running(p)' /\ proc'[p].pc = point /\ proc'[p].s = s
  <2> HIDE DEF point
  <2>1. PICK step \in {"pointed", "indexed", "unlock"} : step = point
    BY <1>9
  <2>2. QED
    BY <1>1, <1>2, <1>3, <1>10, <2>1, HolderMoves
<1>12. Still(p)
  BY <1>1, <1>2, <1>3, <1>5, <1>6, <1>11, CommitsGrow DEF Still, work, history, locks
<1>13. Indexed'
  <2>1. \A w \in Worktrees : pointer'[w] # None =>
          pointer'[w].id \in Begun' /\ rec'[pointer'[w].id].place = w
    BY <1>2, <1>3, <1>4 DEF Indexed
  <2>2. ASSUME NEW t \in Begun' \ torn'
        PROVE  \/ Pointed(t)' /\ Listed(t)'
               \/ \E q \in Processes : Indexing(q)' /\ proc'[q].s = t
    <3>1. CASE t = s /\ point = "unlock"
      BY <1>6, <1>7, <1>8, <3>1
    <3>2. CASE t = s /\ point = "indexed"
      BY <1>11, <3>2 DEF Indexing
    <3>3. CASE t # s
      <4>1. t \in Begun \ torn /\ t \in Sessions
        BY <1>3 DEF Begun
      <4>2. ASSUME NEW q \in Processes, Indexing(q), proc[q].s = t
            PROVE  Indexing(q)' /\ proc'[q].s = t
        BY <1>1, <1>11, <3>3, <4>2 DEF Alone, Indexing
      <4>3. QED
        BY <1>4, <1>6, <1>7, <3>3, <4>1, <4>2 DEF Indexed
    <3>4. QED
      BY <3>1, <3>2, <3>3
  <2>3. QED
    BY <2>1, <2>2 DEF Indexed
<1>14. TypeOK'
  <2>1. index' \in [Sessions -> Statuses \cup {None}]
    BY <1>1, <1>2, <1>4
  <2>2. \A q \in Processes : CommandType(proc'[q])
    BY <1>11 DEF Alone, IInv, TypeOK
  <2>3. QED
    BY <1>2, <1>11, <2>1, <2>2 DEF Alone, IInv, TypeOK, locks, work, history
<1>15. \A q \in Processes : Running(q)'
  BY <1>11, <1>12, <1>14, Beside
<1>16. QED
  BY <1>12, <1>13, <1>14, <1>15, Frame DEF IInv

LEMMA UnlockStep ==
  ASSUME RecordAssumption, IInv, NEW p \in Processes, Unlock(p)
  PROVE  IInv'
<1>1. PICK s \in Sessions :
        /\ s = proc[p].s /\ s \in Begun /\ lock[s] = p /\ Running(p)
        /\ Copied(s, proc[p].copy) /\ proc[p].pc = "unlock"
  BY Holder DEF Unlock, Written
<1>2. PICK point \in Thens : point = IF proc[p].kind = "save" THEN proc[p].then ELSE "done"
  <2>1. proc[p].then \in Thens
    BY DEF IInv, TypeOK, CommandType
  <2>2. QED
    BY <2>1 DEF Thens
<1>3. /\ Goto(p, point) /\ lock' = [lock EXCEPT ![s] = None] /\ torn' = torn \ {s}
      /\ UNCHANGED <<files, configLock, repoLock, work, started, deaths, edits, worked, recorded>>
  BY <1>1, <1>2 DEF Unlock
<1>4. /\ Alone(p) /\ proc'[p].pc = point /\ proc'[p].cmd = proc[p].cmd
      /\ proc'[p].s = s /\ proc'[p].copy = proc[p].copy /\ proc'[p].plan = proc[p].plan
  <2>1. point \in Steps
    BY DEF Thens, Steps
  <2>2. QED
    BY <1>1, <1>3, <2>1, GotoFields DEF IInv
<1>5. /\ Begun' = Begun /\ rec' = rec /\ commits' = commits /\ pointer' = pointer
      /\ index' = index
  BY <1>3 DEF Begun, files, work
<1>6. \A t \in Sessions : (Pointed(t)' <=> Pointed(t)) /\ (Listed(t)' <=> Listed(t))
  BY <1>5 DEF Pointed, Listed
<1>7. lock \in [Sessions -> Processes \cup {None}] /\ None \notin Processes
  BY DEF IInv, TypeOK, RecordAssumption
<1>8. /\ lock' \in [Sessions -> Processes \cup {None}]
      /\ \A q \in Processes \ {p}, t \in Sessions : lock[t] = q => lock'[t] = q
  BY <1>1, <1>3, <1>7
<1>9. Still(p)
  BY <1>3, <1>4, <1>5, <1>6, <1>8, CommitsGrow DEF Still, work
<1>10. Running(p)'
  <2>1. Copied(s, proc[p].copy)'
    BY <1>1, <1>4, <1>5 DEF Copied
  <2>2. Copied(proc[p].s, proc[p].copy)'
    BY <1>4, <2>1 DEF Copied
  <2>3. configLock' = configLock
    BY <1>3
  <2>4. QED
    BY <1>1, <1>4, <1>5, <2>2, <2>3 DEF Running, Having, Copies, Locking, Thens
<1>11. Indexed'
  <2>1. Indexed /\ Pointed(s) /\ Listed(s)
    BY <1>1 DEF IInv, Running
  <2>2. \A w \in Worktrees : pointer'[w] # None =>
          pointer'[w].id \in Begun' /\ rec'[pointer'[w].id].place = w
    BY <1>5, <2>1 DEF Indexed
  <2>3. ASSUME NEW t \in Begun' \ torn'
        PROVE  \/ Pointed(t)' /\ Listed(t)'
               \/ \E q \in Processes : Indexing(q)' /\ proc'[q].s = t
    <3>1. CASE t = s
      BY <1>6, <2>1, <3>1
    <3>2. CASE t # s
      <4>1. t \in Begun \ torn /\ t \in Sessions
        BY <1>3, <1>5, <3>2 DEF Begun
      <4>2. ASSUME NEW q \in Processes, Indexing(q), proc[q].s = t
            PROVE  Indexing(q)' /\ proc'[q].s = t
        BY <1>1, <1>4, <3>2, <4>2 DEF Alone, Indexing
      <4>3. QED
        BY <1>6, <2>1, <4>1, <4>2 DEF Indexed
    <3>3. QED
      BY <3>1, <3>2
  <2>4. QED
    BY <2>2, <2>3 DEF Indexed
<1>12. TypeOK'
  <2>1. \A q \in Processes : CommandType(proc'[q])
    BY <1>4 DEF Alone, IInv, TypeOK
  <2>2. QED
    BY <1>3, <1>4, <1>8, <2>1 DEF Alone, IInv, TypeOK, files, work
<1>13. \A q \in Processes : Running(q)'
  BY <1>9, <1>10, <1>12, Beside
<1>14. QED
  BY <1>9, <1>11, <1>12, <1>13, Frame DEF IInv

-----------------------------------------------------------------------------
(* Deaths, leftover locks, edits of a worktree.                            *)
LEMMA DieStep ==
  ASSUME RecordAssumption, IInv, NEW p \in Processes, Die(p)
  PROVE  IInv'
<1> DEFINE c == [Idle EXCEPT !.pc = "dead"]
<1>1. /\ proc' = [proc EXCEPT ![p] = c] /\ proc = [q \in Processes |-> proc[q]]
      /\ torn' = IF Indexing(p) THEN torn \cup {proc[p].s} ELSE torn
      /\ deaths' = deaths + 1 /\ deaths \in Nat /\ Running(p)
      /\ UNCHANGED <<files, locks, work, started, edits, worked, recorded>>
  BY DEF Die, Indexing, IInv, TypeOK
<1>2. CommandType(c) /\ c.pc = "dead" /\ c.plan = Idle.plan
  BY DEF Idle, CommandType, Steps, Thens
<1> HIDE DEF c
<1>3. Alone(p) /\ proc'[p] = c
  BY <1>1, <1>2 DEF Alone
<1>4. /\ rec' = rec /\ Begun' = Begun /\ pointer' = pointer /\ index' = index /\ lock' = lock
      /\ configLock' = configLock /\ commits' = commits /\ landed' = landed
  BY <1>1 DEF files, locks, work, Begun
<1>5. \A s \in Sessions : (Pointed(s)' <=> Pointed(s)) /\ (Listed(s)' <=> Listed(s))
  BY <1>4 DEF Pointed, Listed
<1>6. Still(p)
  BY <1>1, <1>3, <1>4, <1>5, CommitsGrow DEF Still
<1>7. Running(p)'
  BY <1>2, <1>3, IdleTyped DEF Running, Having, Copies, Locking
<1>8. Indexed'
  <2>1. Indexed
    BY DEF IInv
  <2>2. \A w \in Worktrees : pointer'[w] # None =>
          pointer'[w].id \in Begun' /\ rec'[pointer'[w].id].place = w
    BY <1>4, <2>1 DEF Indexed
  <2>3. ASSUME NEW t \in Begun' \ torn'
        PROVE  \/ Pointed(t)' /\ Listed(t)'
               \/ \E q \in Processes : Indexing(q)' /\ proc'[q].s = t
    <3>1. t \in Begun \ torn /\ t \in Sessions
      BY <1>1, <1>4 DEF Begun
    <3>2. ASSUME NEW q \in Processes, Indexing(q), proc[q].s = t
          PROVE  Indexing(q)' /\ proc'[q].s = t
      <4>1. q # p
        BY <1>1, <3>2
      <4>2. QED
        BY <1>3, <3>2, <4>1 DEF Alone, Indexing
    <3>3. QED
      BY <1>5, <2>1, <3>1, <3>2 DEF Indexed
  <2>4. QED
    BY <2>2, <2>3 DEF Indexed
<1>9. TypeOK'
  <2>1. \A q \in Processes : CommandType(proc'[q])
    BY <1>3 DEF Alone, IInv, TypeOK
  <2>2. torn' \subseteq Sessions
    BY <1>1 DEF IInv, TypeOK, Running, Having, Indexing, Begun
  <2>3. QED
    BY <1>1, <1>3, <2>1, <2>2 DEF Alone, IInv, TypeOK, files, locks, work
<1>10. \A q \in Processes : Running(q)'
  BY <1>6, <1>7, <1>9, Beside
<1>11. QED
  BY <1>6, <1>8, <1>9, <1>10, Frame DEF IInv

LEMMA RemoveLeftoverStep ==
  ASSUME RecordAssumption, IInv, NEW p \in Processes, RemoveLeftover(p)
  PROVE  IInv'
<1>1. /\ proc[p].pc = "dead" /\ proc' = proc
      /\ lock' = [s \in Sessions |-> IF lock[s] = p THEN None ELSE lock[s]]
      /\ configLock' = IF configLock = p THEN None ELSE configLock
      /\ repoLock' = IF repoLock = p THEN None ELSE repoLock
      /\ UNCHANGED <<files, work, proc, started, deaths, history>>
  BY DEF RemoveLeftover, IsUp
<1>2. Alone(p) /\ Running(p)
  BY <1>1 DEF Alone, IInv, TypeOK
<1>3. Begun' = Begun
  BY <1>1 DEF Begun, files
<1>4. Running(p)'
  BY <1>1, <1>2, <1>3 DEF Running, Having, Copies, Locking
<1>5. Plain(p)
  BY <1>1, <1>2, CommitsGrow DEF Plain, Indexing, files, work, history
<1>6. /\ lock' \in [Sessions -> Processes \cup {None}]
      /\ configLock' \in Processes \cup {None} /\ repoLock' \in Processes \cup {None}
  BY <1>1 DEF IInv, TypeOK
<1>7. TypeOK'
  BY <1>1, <1>6 DEF IInv, TypeOK, files, work, history
<1>8. QED
  BY <1>4, <1>5, <1>7, PlainStep

(* A step that changes no more than whether a worktree is dirty.           *)
LEMMA NoCommandStep ==
  ASSUME RecordAssumption, IInv, dirty' \in [Sessions -> BOOLEAN],
         UNCHANGED <<files, locks, commits, landed, proc, started, deaths, history>>
  PROVE  IInv'
<1>1. /\ Begun' = Begun /\ rec' = rec /\ pointer' = pointer /\ index' = index
      /\ lock' = lock /\ configLock' = configLock /\ commits' = commits /\ landed' = landed
      /\ proc' = proc /\ edits' = edits /\ worked' = worked /\ recorded' = recorded
      /\ torn' = torn
  BY DEF Begun, files, locks, history
<1>2. TypeOK'
  BY DEF IInv, TypeOK, files, locks, history
<1>3. \A s \in Sessions : (Pointed(s)' <=> Pointed(s)) /\ (Listed(s)' <=> Listed(s))
  BY <1>1 DEF Pointed, Listed
<1>4. Ordered' /\ (\A s \in Sessions : Counted(s)')
  BY <1>1 DEF IInv, Ordered, Counted
<1>5. Indexed'
  <2>1. Indexed /\ Begun \subseteq Sessions
    BY DEF IInv, Begun
  <2>2. QED
    BY <1>1, <1>3, <2>1 DEF Indexed, Indexing
<1>6. ASSUME NEW p \in Processes PROVE Running(p)'
  <2>1. Running(p)
    BY DEF IInv
  <2>2. proc[p].pc \in Locking => proc[p].s \in Sessions
    BY <2>1 DEF Running
  <2>3. proc[p].pc = "write" =>
          Writable(p, proc[p].s, proc[p].next, proc[p].kind)'
    BY <1>1, <2>1 DEF Running, Writable, First
  <2>4. /\ proc[p].pc \in {"pointed", "unlock"} => Pointed(proc[p].s)'
        /\ proc[p].pc \in {"indexed", "unlock"} => Listed(proc[p].s)'
    BY <1>1, <1>3, <2>1, <2>2 DEF Running, Locking
  <2>5. Copies(p) => Copied(proc[p].s, proc[p].copy)'
    BY <1>1, <2>1 DEF Running, Copied
  <2>6. (Copies(p)' <=> Copies(p)) /\ (First(p)' <=> First(p))
    BY <1>1 DEF Copies, First
  <2>7. QED
    BY <1>1, <2>1, <2>3, <2>4, <2>5, <2>6 DEF Running
<1>7. QED
  BY <1>2, <1>4, <1>5, <1>6 DEF IInv

LEMMA EditSourceStep ==
  ASSUME RecordAssumption, IInv, NEW s \in Sessions, EditSource(s)
  PROVE  IInv'
<1>1. dirty' \in [Sessions -> BOOLEAN]
  BY DEF EditSource, IInv, TypeOK
<1>2. QED
  BY <1>1, NoCommandStep DEF EditSource

-----------------------------------------------------------------------------
LEMMA Initial ==
  ASSUME RecordAssumption, Init
  PROVE  IInv
<1>1. PICK legacy \in BOOLEAN :
       /\ pointer = [w \in Worktrees |-> IF w = Main /\ ~legacy
                       THEN [id |-> 1, status |-> "active"] ELSE None]
       /\ index = [s \in Sessions |-> IF s = 1 /\ ~legacy THEN "active" ELSE None]
  BY DEF Init
<1>2. 1 \in Sessions /\ Main \in Worktrees
  BY DEF RecordAssumption, Sessions, Worktrees
<1> DEFINE n == New(1, FALSE)
<1>3. /\ n \in Records /\ n.status = "active" /\ n.place = Main /\ n.tasks = 0 /\ n.beat = 0
      /\ n.ready = 0 /\ n.open = FALSE
  BY <1>2 DEF New, Records, Statuses, Live
<1>4. n # None
  BY <1>3, NoneIsNoRecord
<1>5. rec = [s \in Sessions |-> IF s = 1 THEN n ELSE None]
  BY DEF Init
<1> HIDE DEF n
<1>6. /\ proc = [p \in Processes |-> Idle]
      /\ lock = [s \in Sessions |-> None] /\ configLock = None /\ repoLock = None
      /\ commits = [s \in Sessions |-> 0] /\ landed = commits
      /\ dirty = [s \in Sessions |-> FALSE] /\ started = 0 /\ deaths = 0
      /\ edits = [s \in Sessions |-> 0] /\ worked = edits /\ recorded = edits
      /\ torn = {}
  BY DEF Init
<1>7. Begun = {1} /\ rec[1] = n
  BY <1>2, <1>4, <1>5 DEF Begun
<1>8. Ordered
  <2>1. Cardinality(Begun) = 1
    BY <1>7, FS_Singleton
  <2>2. Begun = 1 .. 1
    BY <1>7
  <2>3. QED
    BY <2>1, <2>2 DEF Ordered
<1>9. TypeOK
  <2>1. rec \in [Sessions -> Records \cup {None}]
    BY <1>3, <1>5
  <2>2. /\ pointer \in [Worktrees -> [id : Sessions, status : Statuses] \cup {None}]
        /\ index \in [Sessions -> Statuses \cup {None}]
    BY <1>1, <1>2 DEF Statuses, Live
  <2>3. \A p \in Processes : CommandType(proc[p])
    BY <1>6, IdleTyped
  <2>4. QED
    BY <1>6, <2>1, <2>2, <2>3 DEF TypeOK
<1>10. Indexed
  <2>1. \A w \in Worktrees : pointer[w] # None =>
          w = Main /\ pointer[w].id = 1 /\ pointer[w].status = "active"
    BY <1>1
  <2>2. Pointed(1) /\ Listed(1)
    BY <1>1, <1>2, <1>3, <1>7, <2>1 DEF Pointed, Listed
  <2>3. QED
    BY <1>3, <1>7, <2>1, <2>2 DEF Indexed
<1>11. \A s \in Sessions : Counted(s)
  BY <1>3, <1>6, <1>7 DEF Counted
<1>12. \A p \in Processes : Running(p)
  <2>1. TAKE p \in Processes
  <2>2. proc[p].pc = "idle" /\ proc[p].plan = <<>>
    BY <1>6 DEF Idle
  <2>3. QED
    BY <2>2, IdleTyped DEF Running, Having, Copies, Locking
<1>13. QED
  BY <1>8, <1>9, <1>10, <1>11, <1>12 DEF IInv

-----------------------------------------------------------------------------
(* Every step.                                                             *)
LEMMA StepKeeps ==
  ASSUME RecordAssumption, IInv, NEW p \in Processes, Step(p)
  PROVE  IInv'
<1>1. CASE StartById(p) \/ StartHere(p) \/ Find(p) \/ StartBatch(p) \/ NextOfBatch(p)
  BY <1>1, StartByIdStep, StartHereStep, FindStep, StartBatchStep, NextOfBatchStep
<1>2. CASE Enter(p) \/ Refuse(p) \/ WriteRecord(p) \/ WritePointer(p)
           \/ WriteIndex(p) \/ Unlock(p) \/ Done(p)
  BY <1>2, EnterStep, DoneStep, WriteRecordStep, WritePointerStep, WriteIndexStep, UnlockStep
<1>3. CASE BeginRefused(p) \/ Create(p) \/ GitCommit(p) \/ FinishLock(p)
           \/ NotClean(p) \/ Validated(p) \/ Waiting(p) \/ TakeRepo(p) \/ RepoTimeout(p)
  BY <1>3, BeginRefusedStep, CreateStep, GitCommitStep, FinishLockStep, ValidatedStep,
     WaitingStep, LockingStep
<1>4. CASE Integrated(p) \/ IntegrationFails(p) \/ ReleaseRepo(p)
           \/ RecordIncident(p) \/ Reconcile(p) \/ Die(p) \/ RemoveLeftover(p)
  BY <1>4, IntegratedStep, FailureSteps, ReleaseRepoStep, ReconcileStep, DieStep,
     RemoveLeftoverStep
<1>5. QED
  BY <1>1, <1>2, <1>3, <1>4 DEF Step

LEMMA NextKeeps ==
  ASSUME RecordAssumption, IInv, [Next]_vars
  PROVE  IInv'
<1>1. CASE UNCHANGED vars
  <2>1. dirty' \in [Sessions -> BOOLEAN]
    BY <1>1 DEF vars, work, IInv, TypeOK
  <2>2. QED
    BY <1>1, <2>1, NoCommandStep DEF vars, work
<1>2. QED
  BY <1>1, StepKeeps, EditSourceStep DEF Next

(* Only WriteRecord changes a record.                                      *)
LEMMA RecordKept ==
  ASSUME NEW p \in Processes, Step(p), ~WriteRecord(p)
  PROVE  rec' = rec
<1>1. CASE StartById(p) \/ StartHere(p) \/ Find(p) \/ StartBatch(p) \/ NextOfBatch(p)
  BY <1>1 DEF StartById, StartHere, Find, StartBatch, NextOfBatch, files
<1>2. CASE Enter(p) \/ Refuse(p) \/ WritePointer(p) \/ WriteIndex(p) \/ Unlock(p) \/ Done(p)
  BY <1>2 DEF Enter, Refuse, WritePointer, WriteIndex, Unlock, Done, files
<1>3. CASE BeginRefused(p) \/ Create(p) \/ GitCommit(p) \/ FinishLock(p)
           \/ NotClean(p) \/ Validated(p) \/ Waiting(p) \/ TakeRepo(p) \/ RepoTimeout(p)
  BY <1>3 DEF BeginRefused, Create, GitCommit, FinishLock, NotClean, Validated, Waiting,
     TakeRepo, RepoTimeout, files
<1>4. CASE Integrated(p) \/ IntegrationFails(p) \/ ReleaseRepo(p)
           \/ RecordIncident(p) \/ Reconcile(p) \/ Die(p) \/ RemoveLeftover(p)
  BY <1>4 DEF Integrated, IntegrationFails, ReleaseRepo, RecordIncident, Reconcile, Die,
     RemoveLeftover, files
<1>5. QED
  BY <1>1, <1>2, <1>3, <1>4 DEF Step

LEMMA Changes ==
  ASSUME RecordAssumption, IInv, [Next]_vars, NEW s \in Begun
  PROVE  \/ rec'[s] = rec[s]
         \/ \E p \in Processes : /\ proc[p].pc = "write" /\ proc[p].s = s
                                 /\ Writable(p, s, rec'[s], proc[p].kind)
<1>1. CASE UNCHANGED vars \/ \E t \in Sessions : EditSource(t)
  BY <1>1 DEF vars, files, EditSource
<1>2. ASSUME NEW p \in Processes, Step(p)
      PROVE  \/ rec'[s] = rec[s]
             \/ /\ proc[p].pc = "write" /\ proc[p].s = s
                /\ Writable(p, s, rec'[s], proc[p].kind)
  <2>1. CASE ~WriteRecord(p)
    BY <1>2, <2>1, RecordKept
  <2>2. CASE WriteRecord(p)
    <3>1. /\ proc[p].pc = "write" /\ rec' = [rec EXCEPT ![proc[p].s] = proc[p].next]
          /\ rec \in [Sessions -> Records \cup {None}] /\ Running(p) /\ s \in Sessions
      BY <2>2 DEF WriteRecord, IInv, TypeOK, Begun
    <3>2. CASE proc[p].s # s
      BY <3>1, <3>2
    <3>3. CASE proc[p].s = s
      <4>1. rec'[s] = proc[p].next
        BY <3>1, <3>3
      <4>2. QED
        BY <3>1, <3>3, <4>1 DEF Running
    <3>4. QED
      BY <3>2, <3>3
  <2>3. QED
    BY <2>1, <2>2
<1>3. QED
  BY <1>1, <1>2 DEF Next

(* What records, counters, index files, locks and the copies of the        *)
(* commands say of each other (IInv) holds at every step of any command.   *)
THEOREM Invariant == Spec => []IInv
<1>1. Init => IInv
  BY RecordAssumption, Initial
<1>2. IInv /\ [Next]_vars => IInv'
  BY RecordAssumption, NextKeeps
<1>3. QED
  BY <1>1, <1>2, PTL DEF Spec

(* The record files, the index files, the locks, the branches and what the *)
(* commands hold keep their types.                                         *)
THEOREM TypeCorrect == Spec => []TypeOK
<1>1. IInv => TypeOK
  BY DEF IInv
<1>2. QED
  BY <1>1, Invariant, PTL

(* No checklist edit that was acknowledged is lost and no heartbeat goes   *)
(* back, whatever old copies are saved in between (writeSession).          *)
THEOREM EditsStay == Spec => []EditsKept
<1>1. IInv => EditsKept
  BY DEF IInv, Counted, EditsKept, Begun
<1>2. QED
  BY <1>1, Invariant, PTL

(* A record nobody writes has the status its index files show, unless a    *)
(* process died inside the save (saveSession under the record lock).       *)
THEOREM IndexesFollow == Spec => []IndexFollows
<1>1. ASSUME IInv PROVE IndexFollows
  <2>1. SUFFICES ASSUME NEW s \in Begun \ torn, lock[s] = None
                 PROVE  Listed(s) /\ Pointed(s)
    BY DEF IndexFollows, Listed, Pointed
  <2>2. ASSUME NEW p \in Processes, Indexing(p), proc[p].s = s PROVE FALSE
    <3>1. lock[s] = p
      BY <1>1, <2>2, RecordAssumption, Holder DEF Indexing
    <3>2. QED
      BY <2>1, <3>1, RecordAssumption DEF RecordAssumption
  <2>3. QED
    BY <1>1, <2>2 DEF IInv, Indexed
<1>2. QED
  BY <1>1, Invariant, PTL

(* No command opens a session that finished without changes, and only      *)
(* abandon and restore move one in or out of abandoned.                    *)
THEOREM ClosedStays == Spec => ClosedStaysClosed
<1>1. ASSUME IInv, [Next]_vars
      PROVE  [\A s \in Begun :
       /\ rec[s].status = "no_changes" => rec'[s].status = "no_changes"
       /\ (rec[s].status = "abandoned") # (rec'[s].status = "abandoned") =>
            \E p \in Processes : /\ proc[p].pc = "write" /\ proc[p].s = s
                                 /\ proc[p].kind \in {"abandon", "restore"}]_vars
  BY <1>1, RecordAssumption, Changes DEF Writable
<1>2. QED
  BY <1>1, Invariant, PTL DEF Spec, ClosedStaysClosed

(* A session is finished without changes only with a closed checklist and  *)
(* no recorded commit, and abandoned without --include-unsaved only when   *)
(* the commits it recorded are on the target.                              *)
THEOREM NothingClosedAway == Spec => ClosedWithoutWork
<1>1. ASSUME IInv, [Next]_vars
      PROVE  [\A s \in Begun :
       /\ rec'[s].status = "no_changes" => ~rec'[s].open /\ recorded'[s] = 0
       /\ rec[s].status # "abandoned" /\ rec'[s].status = "abandoned" =>
            rec'[s].included \/ recorded[s] <= landed[s]]_vars
  <2>1. IInv'
    BY <1>1, RecordAssumption, NextKeeps
  <2>2. SUFFICES ASSUME NEW s \in Begun, ~UNCHANGED vars
                 PROVE  /\ rec'[s].status = "no_changes" => ~rec'[s].open /\ recorded'[s] = 0
                        /\ rec[s].status # "abandoned" /\ rec'[s].status = "abandoned" =>
                             rec'[s].included \/ recorded[s] <= landed[s]
    OBVIOUS
  <2>3. CASE rec'[s] = rec[s]
    BY <2>1, <2>2, <2>3 DEF IInv, Counted, Begun
  <2>4. CASE rec'[s] # rec[s]
    <3>1. PICK p \in Processes : Writable(p, s, rec'[s], proc[p].kind)
      BY <1>1, <2>4, RecordAssumption, Changes
    <3>2. rec'[s] # None /\ s \in Sessions
      BY <3>1, NoneIsNoRecord DEF Writable, Begun
    <3>3. Counted(s)' /\ s \in Begun'
      BY <2>1, <3>2 DEF IInv, Begun
    <3>4. QED
      BY <3>1, <3>3 DEF Counted, Writable
  <2>5. QED
    BY <2>3, <2>4
<1>2. QED
  BY <1>1, Invariant, PTL DEF Spec, ClosedWithoutWork

-----------------------------------------------------------------------------
(***************************************************************************)
(* FileLock, the lock under which records are saved, for any set of runs,  *)
(* tokens and inode numbers, when one operator at most removes stale       *)
(* files.  With two the second may remove the file a live run created      *)
(* after the first removed the stale one: acquireRepoLock says so where it *)
(* refuses to do it alone.                                                 *)
(***************************************************************************)


(* The lock file of a run between its open and its unlink is its own and   *)
(* carries what its handle says; a file an operator is about to remove is  *)
(* that of a dead run.                                                     *)
OwnFile ==
  \A r \in Runs :
    /\ pc[r] \in {"opened", "held"} \cup Releasing
         => file.by = r /\ file.ino = handle[r].ino
    /\ pc[r] \in {"held"} \cup Releasing
         => file.token = handle[r].token /\ file.token # Nothing
    /\ pc[r] = "opened" => handle[r].token # Nothing
    /\ pc[r] # "refused"

SeenIsDead == seen # {} => file.by # Nothing /\ pc[file.by] = "crashed"

LockInv == LockTypeOK /\ OwnFile /\ SeenIsDead

SingleOperator == \A o, p \in Operators : o = p

(* The state of the lock file, of the handles and of the runs stays within *)
(* its type: a file is absent, partial or carries the token of a handle.   *)
THEOREM LockTypeCorrect == LockSpec => []LockTypeOK
<1>1. LockInit => LockTypeOK
  BY DEF LockInit, LockTypeOK, Absent, LockSteps
<1>2. LockTypeOK /\ [LockNext]_lockVars => LockTypeOK'
  <2> SUFFICES ASSUME LockTypeOK, [LockNext]_lockVars PROVE LockTypeOK'
    OBVIOUS
  <2> USE DEF LockTypeOK, Moves, Absent, LockSteps, Releasing
  <2>1. ASSUME NEW r \in Runs, RunStep(r) PROVE LockTypeOK'
    <3>1. CASE Open(r)
      BY <3>1 DEF Open
    <3>2. CASE WriteOwner(r)
      BY <3>2 DEF WriteOwner
    <3>3. CASE WriteFails(r)
      BY <3>3 DEF WriteFails
    <3>4. CASE CheckOwner(r) \/ CheckIdentity(r) \/ CheckToken(r)
      BY <3>4 DEF CheckOwner, CheckIdentity, CheckToken
    <3>5. CASE Unlink(r)
      BY <3>5 DEF Unlink
    <3>6. CASE Crash(r)
      BY <3>6 DEF Crash
    <3>7. QED
      BY <2>1, <3>1, <3>2, <3>3, <3>4, <3>5, <3>6 DEF RunStep
  <2>2. ASSUME NEW o \in Operators, OperatorStep(o) PROVE LockTypeOK'
    BY <2>2 DEF OperatorStep, Inspect, RemoveStale
  <2>3. CASE UNCHANGED lockVars
    BY <2>3 DEF lockVars
  <2>4. QED
    BY <2>1, <2>2, <2>3 DEF LockNext
<1>3. QED
  BY <1>1, <1>2, PTL DEF LockSpec

------------------------------------------------------------------------------
LEMMA InitLockInv == LockInit => LockInv
BY NothingAssumption
   DEF LockInit, LockInv, LockTypeOK, OwnFile, SeenIsDead, Absent, LockSteps, Releasing

(* A step of a run keeps every other run's file and every finding of the   *)
(* operator: a live run's file is its own, a stale file has a dead owner.  *)
LEMMA RunStepLockInv ==
  ASSUME LockInv, LockTypeOK', NEW r \in Runs, RunStep(r)
  PROVE  LockInv'
<1> USE NothingAssumption DEF LockInv, LockTypeOK, OwnFile, SeenIsDead, Moves, Releasing
<1>1. CASE Open(r)
  <2>1. PICK i \in Inodes, t \in Tokens \ used :
          /\ file' = [by |-> r, ino |-> i, token |-> Nothing]
          /\ handle' = [handle EXCEPT ![r] = [ino |-> i, token |-> t]]
    BY <1>1 DEF Open
  <2>2. file.by = Nothing /\ seen = {} /\ seen' = {}
    BY <1>1 DEF Open
  <2>3. \A q \in Runs \ {r} :
          pc'[q] = pc[q] /\ pc[q] \notin {"opened", "held"} \cup Releasing
    BY <1>1, <2>2 DEF Open
  <2>4. pc'[r] = "opened"
    BY <1>1 DEF Open
  <2>5. OwnFile'
    BY <2>1, <2>3, <2>4
  <2>6. QED
    BY <2>2, <2>5
<1>2. CASE WriteOwner(r)
  <2>1. file.by = r /\ file' = [file EXCEPT !.token = handle[r].token]
    BY <1>2 DEF WriteOwner
  <2>2. OwnFile'
    BY <1>2, <2>1 DEF WriteOwner
  <2>3. SeenIsDead'
    BY <1>2, <2>1 DEF WriteOwner
  <2>4. QED
    BY <2>2, <2>3
<1>3. CASE WriteFails(r)
  BY <1>3 DEF WriteFails
<1>4. CASE CheckOwner(r) \/ CheckIdentity(r) \/ CheckToken(r)
  BY <1>4 DEF CheckOwner, CheckIdentity, CheckToken
<1>5. CASE Unlink(r)
  <2>1. file.by = r /\ seen = {}
    BY <1>5 DEF Unlink
  <2>2. \A q \in Runs \ {r} : pc[q] \notin {"opened", "held"} \cup Releasing
    BY <2>1
  <2>3. OwnFile'
    BY <1>5, <2>1, <2>2 DEF Unlink
  <2>4. QED
    BY <1>5, <2>1, <2>3 DEF Unlink
<1>6. CASE Crash(r)
  BY <1>6 DEF Crash
<1>7. QED
  BY <1>1, <1>2, <1>3, <1>4, <1>5, <1>6 DEF RunStep

LEMMA OperatorStepLockInv ==
  ASSUME LockInv, LockTypeOK', SingleOperator, NEW o \in Operators, OperatorStep(o)
  PROVE  LockInv'
<1> USE NothingAssumption DEF LockInv, LockTypeOK, OwnFile, SeenIsDead, Releasing
<1>1. CASE Inspect(o)
  BY <1>1 DEF Inspect
<1>2. CASE RemoveStale(o)
  <2>1. file.by # Nothing /\ pc[file.by] = "crashed"
    BY <1>2 DEF RemoveStale
  <2>2. \A q \in Runs : pc[q] \notin {"opened", "held"} \cup Releasing
    BY <2>1
  <2>3. seen' = {}
    BY <1>2 DEF RemoveStale, SingleOperator
  <2>4. QED
    BY <1>2, <2>2, <2>3 DEF RemoveStale
<1>3. QED
  BY <1>1, <1>2 DEF OperatorStep

LEMMA NextLockInv ==
  ASSUME SingleOperator PROVE LockInv /\ LockTypeOK' /\ [LockNext]_lockVars => LockInv'
<1> SUFFICES ASSUME LockInv, LockTypeOK', [LockNext]_lockVars PROVE LockInv'
  OBVIOUS
<1>1. CASE UNCHANGED lockVars
  BY <1>1 DEF lockVars, LockInv, LockTypeOK, OwnFile, SeenIsDead
<1>2. QED
  BY <1>1, RunStepLockInv, OperatorStepLockInv DEF LockNext

THEOREM LockInvariance == ASSUME SingleOperator PROVE LockSpec => []LockInv
<1>1. LockInv /\ LockTypeOK' /\ [LockNext]_lockVars => LockInv'
  BY NextLockInv
<1>2. QED
  BY <1>1, InitLockInv, LockTypeCorrect, PTL DEF LockSpec

------------------------------------------------------------------------------
(* Two runs never run the protected operation together: the file of a run  *)
(* that holds the lock is its own, and there is one file.                  *)
THEOREM ExclusionHolds == ASSUME SingleOperator PROVE LockSpec => []MutualExclusion
<1>1. LockInv => MutualExclusion
  BY DEF LockInv, OwnFile, MutualExclusion
<1>2. QED
  BY <1>1, LockInvariance, PTL

(* The release checks never refuse a live owner.                           *)
THEOREM ReleaseSucceeds ==
  ASSUME SingleOperator PROVE LockSpec => []ReleaseNotRefused
<1>1. LockInv => ReleaseNotRefused
  BY DEF LockInv, OwnFile, ReleaseNotRefused
<1>2. QED
  BY <1>1, LockInvariance, PTL

(* Only its owner or the death of its owner frees the lock: the unlink of  *)
(* releaseFileLock never hits a file other than the one it checked.        *)
THEOREM RemovalIsOwn == ASSUME SingleOperator PROVE LockSpec => NoForeignRemoval
<1>1. ASSUME LockInv, [LockNext]_lockVars, file.by # Nothing, file'.by = Nothing
      PROVE  \/ pc[file.by] = "owned" /\ pc'[file.by] = "idle"
             \/ pc[file.by] = "crashed"
  <2> USE NothingAssumption DEF LockInv, LockTypeOK, OwnFile, SeenIsDead, Moves, Releasing
  <2>1. ASSUME NEW r \in Runs, RunStep(r)
        PROVE  pc[file.by] = "owned" /\ pc'[file.by] = "idle"
    BY <1>1, <2>1 DEF RunStep, Open, WriteOwner, WriteFails, CheckOwner,
       CheckIdentity, CheckToken, Unlink, Crash
  <2>2. ASSUME NEW o \in Operators, OperatorStep(o)
        PROVE  pc[file.by] = "crashed"
    BY <1>1, <2>2 DEF OperatorStep, Inspect, RemoveStale
  <2>3. CASE UNCHANGED lockVars
    BY <1>1, <2>3 DEF lockVars
  <2>4. QED
    BY <1>1, <2>1, <2>2, <2>3 DEF LockNext
<1>2. LockInv /\ [LockNext]_lockVars =>
        [file.by # Nothing /\ file'.by = Nothing
           => \/ pc[file.by] = "owned" /\ pc'[file.by] = "idle"
              \/ pc[file.by] = "crashed"]_lockVars
  BY <1>1
<1>3. QED
  BY <1>2, LockInvariance, PTL DEF LockSpec, NoForeignRemoval

------------------------------------------------------------------------------
(* Opening the file acquires the abstract lock, the unlink releases it, a  *)
(* crash or a failed write kills the run, the operator reclaims; the       *)
(* checks are steps the abstraction does not see.                          *)
THEOREM LockRefinement == ASSUME SingleOperator PROVE LockSpec => ImplementsMutex
<1> DEFINE Halted(q) == pc[q] \in {"failed", "crashed"}
           Stopped == {q \in Runs : pc[q] \in {"failed", "crashed"}}
<1>1. LockInit => Lock!Init
  BY DEF LockInit, Lock!Init, Absent
<1>2. ASSUME LockInv, [LockNext]_lockVars PROVE [Lock!Next]_(Lock!vars)
  <2>1. ASSUME NEW r \in Runs, RunStep(r) PROVE [Lock!Next]_(Lock!vars)
    <3> USE NothingAssumption DEF LockInv, LockTypeOK, OwnFile, Moves, Releasing
    <3>1. CASE Open(r)
      <4>1. \A q \in Runs : Halted(q)' <=> Halted(q)
        BY <1>2, <3>1 DEF Open
      <4>2. file.by = Nothing /\ file'.by = r /\ ~Halted(r)
        BY <1>2, <3>1 DEF Open
      <4>3. Stopped' = Stopped /\ r \notin Stopped
        BY <4>1, <4>2
      <4>4. Lock!Acquire(r)
        BY <4>2, <4>3 DEF Lock!Acquire
      <4>5. QED
        BY <4>4 DEF Lock!Next
    <3>2. CASE WriteOwner(r) \/ CheckOwner(r) \/ CheckIdentity(r) \/ CheckToken(r)
      <4>1. \A q \in Runs : Halted(q)' <=> Halted(q)
        BY <1>2, <3>2 DEF WriteOwner, CheckOwner, CheckIdentity, CheckToken
      <4>2. file'.by = file.by
        BY <1>2, <3>2 DEF WriteOwner, CheckOwner, CheckIdentity, CheckToken
      <4>3. Stopped' = Stopped
        BY <4>1
      <4>4. QED
        BY <4>2, <4>3 DEF Lock!vars
    <3>3. CASE WriteFails(r) \/ Crash(r)
      <4>1. \A q \in Runs : Halted(q)' <=> (Halted(q) \/ q = r)
        BY <1>2, <3>3 DEF WriteFails, Crash
      <4>2. file' = file
        BY <3>3 DEF WriteFails, Crash
      <4>3. Stopped' = Stopped \cup {r}
        BY <4>1
      <4>4. CASE r \in Stopped
        <5>1. Stopped' = Stopped
          BY <4>3, <4>4
        <5>2. QED
          BY <4>2, <5>1 DEF Lock!vars
      <4>5. CASE r \notin Stopped
        <5>1. Lock!Die(r)
          BY <4>2, <4>3, <4>5 DEF Lock!Die
        <5>2. QED
          BY <5>1 DEF Lock!Next
      <4>6. QED
        BY <4>4, <4>5
    <3>4. CASE Unlink(r)
      <4>1. \A q \in Runs : Halted(q)' <=> Halted(q)
        BY <1>2, <3>4 DEF Unlink
      <4>2. file.by = r /\ file'.by = Nothing /\ ~Halted(r)
        BY <1>2, <3>4 DEF Unlink, Absent
      <4>3. Stopped' = Stopped /\ r \notin Stopped
        BY <4>1, <4>2
      <4>4. Lock!Release(r)
        BY <4>2, <4>3 DEF Lock!Release
      <4>5. QED
        BY <4>4 DEF Lock!Next
    <3>5. QED
      BY <2>1, <3>1, <3>2, <3>3, <3>4 DEF RunStep
  <2>2. ASSUME NEW o \in Operators, OperatorStep(o) PROVE [Lock!Next]_(Lock!vars)
    <3>1. CASE Inspect(o)
      BY <3>1 DEF Inspect, Lock!vars
    <3>2. CASE RemoveStale(o)
      <4>1. file.by \in Runs /\ Halted(file.by) /\ file'.by = Nothing /\ pc' = pc
        BY <1>2, <3>2, NothingAssumption
           DEF RemoveStale, Absent, LockInv, LockTypeOK, SeenIsDead
      <4>2. file.by \in Stopped /\ Stopped' = Stopped
        BY <4>1
      <4>3. Lock!Reclaim
        BY <4>1, <4>2 DEF Lock!Reclaim
      <4>4. QED
        BY <4>3 DEF Lock!Next
    <3>3. QED
      BY <2>2, <3>1, <3>2 DEF OperatorStep
  <2>3. CASE UNCHANGED lockVars
    BY <2>3 DEF lockVars, Lock!vars
  <2>4. QED
    BY <1>2, <2>1, <2>2, <2>3 DEF LockNext
<1>3. QED
  BY <1>1, <1>2, LockInvariance, PTL DEF LockSpec, ImplementsMutex, Lock!Spec
==============================================================================
