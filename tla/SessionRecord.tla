----------------------------- MODULE SessionRecord -----------------------------
(***************************************************************************)
(* Session records (runtime.ts) and the commands that change them: begin,  *)
(* tasks, commit, validate, integrate, resume, finish, abandon, restore,   *)
(* reconcile and the incident written after a failure.  A record is one    *)
(* JSON file; beside it are the worktree's pointer to its latest session   *)
(* and the repository's index entry.  The three are written one after the  *)
(* other under the session's record lock, by commands that mostly hold a   *)
(* copy of the record read much earlier.                                   *)
(*                                                                         *)
(* One repository with the checkout Main; begin may create a worktree for  *)
(* its session.  Integration is only the saves it makes: it succeeds or it *)
(* stays "pending" (needs_review, validation_pending, promotion_pending).  *)
(* Of the audit's evidence the work, the checklist and the locks are kept; *)
(* an inspection that fails counts as work.                                *)
(***************************************************************************)
EXTENDS Naturals, FiniteSets

CONSTANTS Processes, MaxSessions, Main, None,
          Managed,      \* may begin create a worktree: a set of Booleans
          MaxCommands,  \* bound on the commands started
          MaxCommits,   \* bound on the commits of a session
          MaxDeaths     \* bound on the processes that die

ASSUME RecordAssumption ==
  /\ MaxSessions \in Nat \ {0}
  /\ None \notin Processes
  /\ Managed \subseteq BOOLEAN
  /\ MaxCommands \in Nat /\ MaxCommits \in Nat /\ MaxDeaths \in Nat

Sessions == 1 .. MaxSessions   \* in the order they began
Worktrees == {Main} \cup Sessions

VARIABLES rec,        \* the record files
          pointer,    \* per worktree: its latest session, with a status
          index,      \* per session: the status in the repository's index
          lock,       \* per session: who holds its record lock
          configLock, repoLock,
          commits, landed, dirty, \* per branch: commits, those of them on the
                      \* target, and whether its worktree has other changes
          proc,       \* the commands
          started, deaths,
          edits, worked, recorded, torn \* history: see below

files == <<rec, pointer, index>>
locks == <<lock, configLock, repoLock>>
work == <<commits, landed, dirty>>
history == <<edits, worked, recorded, torn>>
vars == <<files, locks, work, proc, started, deaths, history>>

Live == {"active", "ready", "pending"}
Closed == {"no_changes", "abandoned"}
Statuses == Live \cup Closed \cup {"succeeded"}

Records == [status : Statuses, tasks : Nat, open : BOOLEAN, beat : Nat, ready : Nat,
            included : BOOLEAN, place : Worktrees, launch : {Main, None}]
ASSUME NoneIsNoRecord == None \notin Records

Wanted == [tasks |-> Statuses, commit |-> {"active"}, validate |-> {"active"},
           finish |-> {"active", "no_changes"},
           integrate |-> {"active", "ready"}, resume |-> {"pending"},
           begin |-> Live, abandon |-> {"active"}, restore |-> {"abandoned"},
           reconcile |-> {"pending", "succeeded"}]
ByIdOnly == {"abandon", "restore", "reconcile"}
Commands == DOMAIN Wanted

Begun == {s \in Sessions : rec[s] # None}
IsUp(p) == proc[p].pc # "dead"

New(s, managed) ==
  [status |-> "active", tasks |-> 0, open |-> FALSE, beat |-> 0, ready |-> 0,
   included |-> FALSE, place |-> IF managed THEN s ELSE Main,
   launch |-> IF managed THEN Main ELSE None]

Idle == [pc |-> "idle", cmd |-> None, s |-> None, copy |-> None, next |-> None,
         activity |-> TRUE, then |-> "done", kind |-> None, include |-> FALSE,
         seen |-> None, plan |-> <<>>]

(* A session already runs; its pointer and index may be those of an older   *)
(* version, which wrote none.                                               *)
Init ==
  /\ rec = [s \in Sessions |-> IF s = 1 THEN New(1, FALSE) ELSE None]
  /\ \E legacy \in BOOLEAN :
       /\ pointer = [w \in Worktrees |-> IF w = Main /\ ~legacy
                       THEN [id |-> 1, status |-> "active"] ELSE None]
       /\ index = [s \in Sessions |-> IF s = 1 /\ ~legacy THEN "active" ELSE None]
  /\ lock = [s \in Sessions |-> None] /\ configLock = None /\ repoLock = None
  /\ commits = [s \in Sessions |-> 0] /\ landed = commits
  /\ dirty = [s \in Sessions |-> FALSE]
  /\ proc = [p \in Processes |-> Idle]
  /\ started = 0 /\ deaths = 0
  /\ edits = [s \in Sessions |-> 0] /\ worked = edits /\ recorded = edits
  /\ torn = {}

-----------------------------------------------------------------------------
(* The end of a command, successful or not: its locks are released.         *)
End(p) ==
  /\ proc' = [proc EXCEPT ![p] = Idle]
  /\ configLock' = IF configLock = p THEN None ELSE configLock
  /\ repoLock' = IF repoLock = p THEN None ELSE repoLock
  /\ UNCHANGED lock

Goto(p, pc) == proc' = [proc EXCEPT ![p].pc = pc]

(* Save the copy, then go on at a step.                                     *)
SaveThen(p, copy, then) ==
  proc' = [proc EXCEPT ![p].pc = "save", ![p].copy = copy, ![p].then = then,
                       ![p].activity = TRUE]

----------------------------- (* The audit *) --------------------------------
RepoHeldFor(s) == repoLock # None /\ proc[repoLock].s = s

InLifecycle(s, r, own) ==
  r.status # "active" \/ RepoHeldFor(s) \/ lock[s] \notin {None, own}

Inspected(s) == [commits |-> commits[s], dirty |-> dirty[s],
                 outside |-> commits[s] > landed[s]]

(* classifySession for a record; own is the lock holder that asks itself.   *)
Bucket(s, r, own) ==
  IF InLifecycle(s, r, own) THEN "lifecycle"
  ELSE IF Inspected(s).dirty \/ Inspected(s).outside THEN "unsaved"
  ELSE IF Inspected(s).commits > 0 THEN "delivered"
  ELSE IF r.tasks = 0 THEN "empty" ELSE "other"

(* auditFingerprint                                                         *)
Facts(s, r, own) ==
  [status |-> r.status, beat |-> r.beat, tasks |-> r.tasks,
   bucket |-> Bucket(s, r, own), inspected |-> Inspected(s)]

(* abandonRefusal                                                           *)
MayAbandon(facts, include) ==
  /\ facts.status = "active" /\ facts.bucket # "lifecycle"
  /\ facts.bucket = "unsaved" => include

(* auditSessionRecords: every unfinished session, classified one by one.    *)
Audited == {s \in Begun : rec[s].status \notin Closed \cup {"succeeded"}}

(* What abandon --all may close, with the audit each preview shows.         *)
Buckets(include) ==
  {"empty", "delivered"} \cup IF include THEN {"unsaved"} ELSE {}
Selected(include) ==
  {s \in Audited : /\ MayAbandon(Facts(s, rec[s], None), include)
                   /\ Bucket(s, rec[s], None) \in Buckets(include)}

(* Mutant: the record is abandoned on what the preview showed.              *)
RecheckPreview(p, r) == r.status = "active" /\ MayAbandon(proc[p].seen, proc[p].include)

(* The audit under the record lock must allow it and equal the one shown.   *)
Recheck(p, r) ==
  /\ MayAbandon(Facts(proc[p].s, r, p), proc[p].include)
  /\ proc[p].seen = Facts(proc[p].s, r, p)

-------------------------- (* Updates under the lock *) -----------------------
(* What may be written for each kind of update, given the record as it is   *)
(* now; nothing when the update is refused.                                 *)
Now(s) == worked[s] + 1

(* Mutant: the checklist and the heartbeat of the copy are written.         *)
MergedWhole(p, r) ==
  [proc[p].copy EXCEPT !.beat = IF proc[p].activity THEN Now(proc[p].s) ELSE @]

(* A save keeps the checklist of the record, and its heartbeat unless the   *)
(* save is work on the session.                                             *)
Merged(p, r) ==
  [proc[p].copy EXCEPT
     !.tasks = IF r = None THEN @ ELSE r.tasks,
     !.open = IF r = None THEN @ ELSE r.open,
     !.beat = IF proc[p].activity THEN Now(proc[p].s) ELSE r.beat]

(* Mutant: a stale copy may be written over a closed record.                *)
WriteSessionAnyway(p, r) == {Merged(p, r)}

WriteSession(p, r) ==
  LET copy == proc[p].copy IN
  IF /\ r # None
     /\ \/ r.status = "no_changes" /\ copy.status # "no_changes"
        \/ (r.status = "abandoned") # (copy.status = "abandoned")
  THEN {} ELSE {Merged(p, r)}

(* An edit of the checklist leaves a task open, or none.                    *)
EditTasks(r) == {[r EXCEPT !.tasks = @ + 1, !.open = o] : o \in BOOLEAN}

UpdateTasks(p, r) ==
  IF r.status \in Closed THEN {}
  ELSE {[t EXCEPT !.beat = Now(proc[p].s)] : t \in EditTasks(r)}

RecordActivity(p, r) ==
  IF r.status \in Closed THEN {} ELSE {[r EXCEPT !.beat = Now(proc[p].s)]}

(* The worktree has no change that was not there when the session began.    *)
HandoffState(s) == ~dirty[s]
AtStart(s) == commits[s] = 0 /\ HandoffState(s)

FinishNoChanges(p, r) ==
  IF r.status # "active" \/ r.open \/ ~AtStart(proc[p].s) THEN {}
  ELSE {[r EXCEPT !.status = "no_changes", !.beat = Now(proc[p].s)]}

AbandonRecord(p, r) ==
  IF ~Recheck(p, r) THEN {}
  ELSE {[r EXCEPT !.status = "abandoned",
           !.included = (Bucket(proc[p].s, r, p) = "unsaved")]}

Claimants(s) == {t \in Begun \ {s} : /\ rec[t].status \in Live
                                     /\ rec[t].place = rec[s].place}

RestoreRecord(p, r) ==
  IF r.status # "abandoned" \/ Claimants(proc[p].s) # {} THEN {}
  ELSE {[r EXCEPT !.status = "active", !.beat = Now(proc[p].s)]}

Kind(p) == IF proc[p].pc = "save" THEN "save" ELSE proc[p].cmd

Update(p, r) ==
  CASE Kind(p) = "save" -> WriteSession(p, r)
    [] Kind(p) = "tasks" -> UpdateTasks(p, r)
    [] Kind(p) = "commit" -> RecordActivity(p, r)
    [] Kind(p) = "finish" -> FinishNoChanges(p, r)
    [] Kind(p) = "abandon" -> AbandonRecord(p, r)
    [] Kind(p) = "restore" -> RestoreRecord(p, r)

Updating(p) ==
  \/ proc[p].pc \in {"save", "recording", "closing"}
  \/ proc[p].pc = "found" /\ proc[p].cmd \in {"tasks", "abandon", "restore"}

(* Take the record lock, read the record and check it.                      *)
Enter(p) ==
  LET s == proc[p].s IN
  /\ Updating(p) /\ lock[s] = None
  /\ \E r \in Update(p, rec[s]) :
       proc' = [proc EXCEPT ![p].next = r, ![p].pc = "write", ![p].kind = Kind(p)]
  /\ lock' = [lock EXCEPT ![s] = p]
  /\ UNCHANGED <<files, configLock, repoLock, work, started, deaths, history>>

(* The end of the command, or of one session of a batch.                    *)
Over(p) == IF proc[p].plan = <<>> THEN End(p) ELSE Goto(p, "batch") /\ UNCHANGED locks

(* Refused, or the lock was not free within five seconds (at once when a    *)
(* batch finds it taken).                                                   *)
Refuse(p) ==
  /\ Updating(p)
  /\ lock[proc[p].s] # None \/ Update(p, rec[proc[p].s]) = {}
  /\ Over(p)
  /\ UNCHANGED <<files, work, started, deaths, history>>

WriteRecord(p) ==
  LET s == proc[p].s r == proc[p].next IN
  /\ proc[p].pc = "write"
  /\ rec' = [rec EXCEPT ![s] = r]
  /\ proc' = [proc EXCEPT ![p].pc = "indexing", ![p].copy = r, ![p].next = None]
  /\ edits' = [edits EXCEPT ![s] = IF proc[p].kind = "tasks" THEN @ + 1 ELSE @]
  /\ worked' = [worked EXCEPT ![s] = IF r.beat = Now(s) THEN @ + 1 ELSE @]
  /\ recorded' = [recorded EXCEPT ![s] = IF proc[p].kind = "commit" THEN commits[s] ELSE @]
  /\ UNCHANGED <<pointer, index, locks, work, started, deaths, torn>>

(* The two index files are written in parallel.                             *)
WritePointer(p) ==
  LET r == rec[proc[p].s] IN
  /\ proc[p].pc \in {"indexing", "indexed"}
  /\ pointer' = [pointer EXCEPT ![r.place] = [id |-> proc[p].s, status |-> r.status]]
  /\ Goto(p, IF proc[p].pc = "indexed" THEN "unlock" ELSE "pointed")
  /\ UNCHANGED <<rec, index, locks, work, started, deaths, history>>

WriteIndex(p) ==
  /\ proc[p].pc \in {"indexing", "pointed"}
  /\ index' = [index EXCEPT ![proc[p].s] = rec[proc[p].s].status]
  /\ Goto(p, IF proc[p].pc = "pointed" THEN "unlock" ELSE "indexed")
  /\ UNCHANGED <<rec, pointer, locks, work, started, deaths, history>>

(* Mutant: the lock is given back when one of the two files is written.     *)
SomeWritten == {"pointed", "indexed", "unlock"}
Written == {"unlock"}

Unlock(p) ==
  /\ proc[p].pc \in Written
  /\ lock' = [lock EXCEPT ![proc[p].s] = None]
  /\ torn' = torn \ {proc[p].s}
  /\ Goto(p, IF proc[p].kind = "save" THEN proc[p].then ELSE "done")
  /\ UNCHANGED <<files, configLock, repoLock, work, started, deaths, edits, worked, recorded>>

Done(p) ==
  /\ proc[p].pc = "done"
  /\ Over(p)
  /\ UNCHANGED <<files, work, started, deaths, history>>

------------------------- (* Finding the session *) ---------------------------
(* The command has its session: what it reads now is its copy, and abandon  *)
(* shows the audit.                                                         *)
Hold(p, cmd, s, include) ==
  proc' = [proc EXCEPT ![p] = [Idle EXCEPT !.pc = "found", !.cmd = cmd, !.s = s,
             !.copy = rec[s], !.include = include,
             !.seen = IF cmd = "abandon" THEN Facts(s, rec[s], None) ELSE None]]

(* By --session.  include is --include-unsaved.                             *)
StartById(p) ==
  /\ proc[p].pc = "idle" /\ started < MaxCommands
  /\ started' = started + 1
  /\ \E cmd \in Commands \ {"begin"}, s \in Begun, include \in BOOLEAN :
       /\ rec[s].status \in Wanted[cmd]
       /\ include => cmd = "abandon"
       /\ cmd = "abandon" => MayAbandon(Facts(s, rec[s], None), include)
       /\ Hold(p, cmd, s, include)
  /\ UNCHANGED <<files, locks, work, deaths, history>>

(* abandon --all --apply: every preview is made before the first update.    *)
StartBatch(p) ==
  /\ proc[p].pc = "idle" /\ started < MaxCommands
  /\ started' = started + 1
  /\ \E include \in BOOLEAN :
       /\ Selected(include) # {}
       /\ proc' = [proc EXCEPT ![p] = [Idle EXCEPT
                     !.pc = "batch", !.cmd = "abandon", !.include = include,
                     !.plan = [s \in Selected(include) |-> Facts(s, rec[s], None)]]]
  /\ UNCHANGED <<files, locks, work, deaths, history>>

(* The next one; --include-unsaved counts only where the preview needed it. *)
NextOfBatch(p) ==
  /\ proc[p].pc = "batch"
  /\ \E s \in DOMAIN proc[p].plan :
       LET plan == proc[p].plan IN
       proc' = [proc EXCEPT ![p] = [proc[p] EXCEPT
         !.pc = "found", !.s = s, !.seen = plan[s],
         !.include = (plan[s].bucket = "unsaved"),
         !.plan = [t \in DOMAIN plan \ {s} |-> plan[t]]]]
  /\ UNCHANGED <<files, locks, work, started, deaths, history>>

(* In a checkout.  begin does all of its work under the configuration lock. *)
StartHere(p) ==
  /\ proc[p].pc = "idle" /\ started < MaxCommands
  /\ started' = started + 1
  /\ \E cmd \in Commands \ ByIdOnly :
       /\ proc' = [proc EXCEPT ![p] = [Idle EXCEPT !.pc = "find", !.cmd = cmd]]
       /\ IF cmd = "begin" THEN configLock = None /\ configLock' = p
          ELSE UNCHANGED configLock
  /\ UNCHANGED <<files, lock, repoLock, work, deaths, history>>

Matching(p) == {s \in Begun : rec[s].status \in Wanted[proc[p].cmd]}
Launched(p) == {s \in Matching(p) : rec[s].launch = Main}
Latest(S) == CHOOSE s \in S : \A t \in S : t <= s

NotHere(p) ==
  IF proc[p].cmd = "begin" THEN Goto(p, "create") /\ UNCHANGED locks
  ELSE IF Cardinality(Launched(p)) = 1
  THEN Hold(p, proc[p].cmd, Latest(Launched(p)), FALSE) /\ UNCHANGED locks
  ELSE End(p)

(* The pointer decides by the status it holds, if there is one; a checkout  *)
(* without is indexed by a save that is no work on the session.             *)
Find(p) ==
  LET here == {s \in Matching(p) : rec[s].place = Main} IN
  /\ proc[p].pc = "find"
  /\ \/ /\ pointer[Main] # None /\ pointer[Main].status \in Wanted[proc[p].cmd]
        /\ Hold(p, proc[p].cmd, pointer[Main].id, FALSE)
        /\ UNCHANGED locks
     \/ /\ pointer[Main] = None /\ here # {}
        /\ proc' = [proc EXCEPT ![p].pc = "save", ![p].s = Latest(here),
                      ![p].copy = rec[Latest(here)], ![p].activity = FALSE,
                      ![p].then = "found"]
        /\ UNCHANGED locks
     \/ /\ IF pointer[Main] = None THEN here = {}
           ELSE pointer[Main].status \notin Wanted[proc[p].cmd]
        /\ NotHere(p)
  /\ UNCHANGED <<files, work, started, deaths, history>>

----------------------------- (* The commands *) ------------------------------
(* begin refuses a checkout that has a session, or writes the new record.   *)
BeginRefused(p) ==
  /\ proc[p].pc = "found" /\ proc[p].cmd = "begin"
  /\ End(p)
  /\ UNCHANGED <<files, work, started, deaths, history>>

Create(p) ==
  /\ proc[p].pc = "create" /\ Begun # Sessions
  /\ \E managed \in Managed :
       LET s == Cardinality(Begun) + 1 IN
       proc' = [proc EXCEPT ![p].pc = "save", ![p].s = s,
                 ![p].copy = New(s, managed)]
  /\ UNCHANGED <<files, locks, work, started, deaths, history>>

(* commit takes what is staged; its heartbeat follows.                      *)
GitCommit(p) ==
  LET s == proc[p].s IN
  /\ proc[p].pc = "found" /\ proc[p].cmd = "commit"
  /\ IF dirty[s] /\ commits[s] < MaxCommits
     THEN /\ commits' = [commits EXCEPT ![s] = @ + 1]
          /\ dirty' = [dirty EXCEPT ![s] = FALSE]
          /\ Goto(p, "recording") /\ UNCHANGED locks
     ELSE End(p) /\ UNCHANGED <<commits, dirty>>
  /\ UNCHANGED <<files, landed, started, deaths, history>>

(* finish does not wait for the repository lock.                            *)
FinishLock(p) ==
  /\ proc[p].pc = "found" /\ proc[p].cmd = "finish"
  /\ IF proc[p].copy.status = "active" /\ repoLock = None
     THEN repoLock' = p /\ Goto(p, "closing") /\ UNCHANGED <<lock, configLock>>
     ELSE End(p)
  /\ UNCHANGED <<files, work, started, deaths, history>>

(* validate, integrate and resume refuse a worktree that is not clean.      *)
NotClean(p) ==
  /\ proc[p].pc = "found" /\ proc[p].cmd \in {"validate", "integrate", "resume"}
  /\ ~HandoffState(proc[p].s)
  /\ End(p)
  /\ UNCHANGED <<files, work, started, deaths, history>>

(* validate saves the copy it began with, after a failure once more.        *)
Validated(p) ==
  /\ proc[p].pc = "found" /\ proc[p].cmd = "validate" /\ HandoffState(proc[p].s)
  /\ \E then \in {"done", "telling"} : SaveThen(p, proc[p].copy, then)
  /\ UNCHANGED <<files, locks, work, started, deaths, history>>

(* integrate makes the ready snapshot; both wait for the repository lock.   *)
Waiting(p) ==
  LET copy == proc[p].copy IN
  /\ proc[p].pc = "found" /\ proc[p].cmd \in {"integrate", "resume"}
  /\ HandoffState(proc[p].s)
  /\ SaveThen(p, IF copy.status = "active"
                 THEN [copy EXCEPT !.status = "ready", !.ready = commits[proc[p].s]]
                 ELSE copy, "locking")
  /\ UNCHANGED <<files, locks, work, started, deaths, history>>

(* integrate reads its record again when the wait is over; resume does not. *)
AfterWait(p) == IF proc[p].cmd = "integrate" THEN rec[proc[p].s] ELSE proc[p].copy

TakeRepo(p) ==
  /\ proc[p].pc = "locking" /\ repoLock = None
  /\ repoLock' = p
  /\ SaveThen(p, AfterWait(p), "merging")
  /\ UNCHANGED <<files, lock, configLock, work, started, deaths, history>>

RepoTimeout(p) ==
  /\ proc[p].pc = "locking" /\ repoLock # None
  /\ SaveThen(p, AfterWait(p), "telling")
  /\ UNCHANGED <<files, locks, work, started, deaths, history>>

Larger(m, n) == IF m < n THEN n ELSE m
Land(s, copy) == landed' = [landed EXCEPT ![s] = Larger(@, copy.ready)]

Integrated(p) ==
  /\ proc[p].pc = "merging"
  /\ Land(proc[p].s, proc[p].copy)
  /\ SaveThen(p, [proc[p].copy EXCEPT !.status = "succeeded"], "done")
  /\ UNCHANGED <<files, locks, commits, dirty, started, deaths, history>>

(* Only a failure after the merge in a worktree began marks the record.     *)
IntegrationFails(p) ==
  /\ proc[p].pc = "merging"
  /\ \E status \in {proc[p].copy.status, "pending"} :
       SaveThen(p, [proc[p].copy EXCEPT !.status = status], "releasing")
  /\ UNCHANGED <<files, locks, work, started, deaths, history>>

ReleaseRepo(p) ==
  /\ proc[p].pc = "releasing"
  /\ repoLock' = None
  /\ Goto(p, "telling")
  /\ UNCHANGED <<files, lock, configLock, work, started, deaths, history>>

(* The investigation may take minutes; then the copy is saved again.        *)
RecordIncident(p) ==
  /\ proc[p].pc = "telling"
  /\ SaveThen(p, proc[p].copy, "done")
  /\ UNCHANGED <<files, locks, work, started, deaths, history>>

(* reconcile --apply promotes what a record says is integrated, without the *)
(* repository lock.                                                         *)
Reconcile(p) ==
  LET copy == proc[p].copy IN
  /\ proc[p].pc = "found" /\ proc[p].cmd = "reconcile"
  /\ IF copy.ready > landed[proc[p].s]
     THEN /\ Land(proc[p].s, copy)
          /\ SaveThen(p, [copy EXCEPT !.status = "succeeded"], "done")
          /\ UNCHANGED locks
     ELSE End(p) /\ UNCHANGED landed
  /\ UNCHANGED <<files, commits, dirty, started, deaths, history>>

------------------------------ (* The world *) --------------------------------
EditSource(s) ==
  /\ s \in Begun /\ ~dirty[s] /\ rec[s].status = "active"
  /\ dirty' = [dirty EXCEPT ![s] = TRUE]
  /\ UNCHANGED <<files, locks, commits, landed, proc, started, deaths, history>>

(* A process dies; its lock files stay, and perhaps half of its save.       *)
Die(p) ==
  /\ proc[p].pc \notin {"idle", "dead"} /\ deaths < MaxDeaths
  /\ deaths' = deaths + 1
  /\ proc' = [proc EXCEPT ![p] = [Idle EXCEPT !.pc = "dead"]]
  /\ torn' = IF proc[p].pc \in {"indexing", "pointed", "indexed"}
             THEN torn \cup {proc[p].s} ELSE torn
  /\ UNCHANGED <<files, locks, work, started, edits, worked, recorded>>

(* Somebody inspects a leftover lock file and removes it.                   *)
RemoveLeftover(p) ==
  /\ ~IsUp(p) /\ p \in {lock[s] : s \in Sessions} \cup {configLock, repoLock}
  /\ lock' = [s \in Sessions |-> IF lock[s] = p THEN None ELSE lock[s]]
  /\ configLock' = IF configLock = p THEN None ELSE configLock
  /\ repoLock' = IF repoLock = p THEN None ELSE repoLock
  /\ UNCHANGED <<files, work, proc, started, deaths, history>>

Step(p) ==
  \/ StartById(p) \/ StartHere(p) \/ Find(p) \/ StartBatch(p) \/ NextOfBatch(p)
  \/ Enter(p) \/ Refuse(p) \/ WriteRecord(p) \/ WritePointer(p)
  \/ WriteIndex(p) \/ Unlock(p) \/ Done(p)
  \/ BeginRefused(p) \/ Create(p) \/ GitCommit(p) \/ FinishLock(p)
  \/ NotClean(p) \/ Validated(p) \/ Waiting(p) \/ TakeRepo(p) \/ RepoTimeout(p)
  \/ Integrated(p) \/ IntegrationFails(p) \/ ReleaseRepo(p)
  \/ RecordIncident(p) \/ Reconcile(p) \/ Die(p) \/ RemoveLeftover(p)

Next == (\E p \in Processes : Step(p)) \/ (\E s \in Sessions : EditSource(s))

Spec == Init /\ [][Next]_vars

-----------------------------------------------------------------------------
Steps == {"idle", "dead", "find", "found", "create", "batch", "recording", "closing",
          "save", "write", "indexing", "pointed", "indexed", "unlock", "done",
          "locking", "merging", "releasing", "telling"}
Thens == {"done", "found", "telling", "locking", "merging", "releasing"}

CommandType(c) ==
  c \in [pc : Steps, cmd : Commands \cup {None}, s : Sessions \cup {None},
         copy : Records \cup {None}, next : Records \cup {None}, activity : BOOLEAN,
         then : Thens, kind : Commands \cup {"save", None}, include : BOOLEAN,
         seen : {c.seen}, plan : {c.plan}]

TypeOK ==
  /\ rec \in [Sessions -> Records \cup {None}]
  /\ pointer \in [Worktrees -> [id : Sessions, status : Statuses] \cup {None}]
  /\ index \in [Sessions -> Statuses \cup {None}]
  /\ lock \in [Sessions -> Processes \cup {None}]
  /\ configLock \in Processes \cup {None} /\ repoLock \in Processes \cup {None}
  /\ commits \in [Sessions -> Nat] /\ landed \in [Sessions -> Nat]
  /\ dirty \in [Sessions -> BOOLEAN]
  /\ proc = [p \in Processes |-> proc[p]]
  /\ \A p \in Processes : CommandType(proc[p])
  /\ started \in Nat /\ deaths \in Nat
  /\ edits \in [Sessions -> Nat] /\ worked \in [Sessions -> Nat]
  /\ recorded \in [Sessions -> Nat] /\ torn \subseteq Sessions

(* A stale lifecycle save, a late task edit, a heartbeat or a second finish *)
(* never opens a session finished without changes, and only restore opens   *)
(* an abandoned one (SPEC.md, "No-change completion", "Abandoning").        *)
ClosedStaysClosed ==
  [][\A s \in Begun :
       /\ rec[s].status = "no_changes" => rec'[s].status = "no_changes"
       /\ (rec[s].status = "abandoned") # (rec'[s].status = "abandoned") =>
            \E p \in Processes : /\ proc[p].pc = "write" /\ proc[p].s = s
                                 /\ proc[p].kind \in {"abandon", "restore"}]_vars

(* Every acknowledged checklist edit is still in the record and the         *)
(* heartbeat is that of the last work, whatever copies commands save, late  *)
(* lookups included (runtime.ts, writeSession).                             *)
EditsKept ==
  \A s \in Begun : rec[s].tasks = edits[s] /\ rec[s].beat = worked[s]

(* A session is finished without changes only with a closed checklist and   *)
(* no commit, and abandoned without --include-unsaved only when every       *)
(* commit it recorded is on the target: what the preview or the command's   *)
(* copy showed may be old (abandon.ts, finishNoChangesSession).             *)
ClosedWithoutWork ==
  [][\A s \in Begun :
       /\ rec'[s].status = "no_changes" => ~rec'[s].open /\ recorded'[s] = 0
       /\ rec[s].status # "abandoned" /\ rec'[s].status = "abandoned" =>
            rec'[s].included \/ recorded[s] <= landed[s]]_vars

(* Unless a process died inside its save, a record nobody is writing has    *)
(* the status its index entry and a pointer to it show.                     *)
IndexFollows ==
  \A s \in Begun \ torn : lock[s] = None =>
    /\ index[s] \in {None, rec[s].status}
    /\ \A w \in Worktrees : pointer[w] # None /\ pointer[w].id = s =>
         pointer[w].status = rec[s].status

(* No two unfinished sessions share a worktree.  Not so: restore looks at   *)
(* the records under its session's lock, begin at the pointer under the     *)
(* configuration lock, and a task edit of a finished session takes the      *)
(* pointer away from a running one.                                         *)
OneLivePerWorktree ==
  \A s, t \in Begun : /\ s # t
                      /\ rec[s].status \in Live /\ rec[t].status \in Live
                      => rec[s].place # rec[t].place
==============================================================================
