----------------------------- MODULE Installation -----------------------------
(* What setup and uninstall do to the files they install for coding agents,  *)
(* how uninstall waits for the sessions of its agents, and how commands keep *)
(* a copy of the build they run, the coordinator a session is pinned to.     *)
(* Users edit installed files, builds replace each other in place, copies    *)
(* get lost and processes die at every step.                                 *)
EXTENDS FiniteSets

CONSTANTS
  Procs,      \* commands; one that died does not come back
  Harness,
  Path,       \* files setup manages: skills, and its block in a guidance file
  AgentOf,    \* the harness that a path belongs to
  Build,      \* builds of the package; also: what a build installs at a path
  Custom,     \* what users write instead
  Session,
  Repair,     \* names of a second copy of a build
  None, Damaged

(* What is assumed of the constants, and named in every theorem.             *)
InstallationAssumption ==
  /\ AgentOf \in [Path -> Harness]
  /\ Build \cap Custom = {} /\ None \notin Build \cup Custom \cup Procs
  /\ Damaged \notin Build /\ Damaged # None

VARIABLES
  project,    \* the build that is installed
  file,       \* what is at each managed path
  receipt,    \* installation.json: what setup wrote, and replaced, at each
  stopped,    \* enrollment.json
  status, agent,  \* of the sessions
  reopened,   \* history: closed sessions that opened since the last plan
  copies,     \* what is kept in each place under coordinators/
  pinned,     \* the coordinators that a session records
  lost,       \* history: places where people lost or damaged a copy
  lock,       \* the configuration lock
  pc, job     \* the step of each command, and what it holds

vars == <<project, file, receipt, stopped, status, agent, reopened, copies,
          pinned, lost, lock, pc, job>>
sessions == <<status, agent, reopened, pinned>>
installed == <<file, receipt, stopped>>
kept == <<copies, lost>>

Note == [current : Build \cup {None}, previous : Build \cup {None}]
Place == Build \X (Repair \cup {None})
Coordinator == [id : Build, place : Place]
Steps == {"idle", "wait", "plan", "stop", "write", "replace", "verify", "enroll",
          "digest", "look", "copy", "publish", "create", "dead"}
Job == [kind : {"none", "setup", "uninstall", "begin", "resume"}, selected : SUBSET Harness,
        todo : SUBSET Path, at : Path \cup {None}, before : [Path -> Build \cup Custom \cup {None}],
        receipt : [Path -> Note], version : Build \cup {None}, id : Build \cup {None},
        place : Place \cup {None}, temp : Build \cup {None, Damaged}, session : Session \cup {None}]

NoReceipt == [r \in Path |-> [current |-> None, previous |-> None]]
NoJob == [kind |-> "none", selected |-> {}, todo |-> {}, at |-> None,
          before |-> [r \in Path |-> None], receipt |-> NoReceipt, version |-> None, id |-> None,
          place |-> None, temp |-> None, session |-> None]

TypeOK ==
  /\ project \in Build /\ file \in [Path -> Build \cup Custom \cup {None}]
  /\ receipt \in [Path -> Note] /\ stopped \subseteq Harness
  /\ status \in [Session -> {"none", "unfinished", "succeeded", "no_changes", "abandoned"}]
  /\ agent \in [Session -> Harness \cup {None}] /\ reopened \subseteq Session
  /\ copies \in [Place -> Build \cup {None, Damaged}] /\ lost \subseteq Place
  /\ pinned \in [Session -> SUBSET Coordinator]
  /\ lock \in Procs \cup {None} /\ pc \in [Procs -> Steps] /\ job \in [Procs -> Job]

Init ==
  /\ project \in Build /\ file \in [Path -> Custom \cup {None}]
  /\ receipt = NoReceipt /\ stopped = {}
  /\ status = [s \in Session |-> "none"] /\ agent = [s \in Session |-> None]
  /\ reopened = {} /\ pinned = [s \in Session |-> {}]
  /\ copies = [l \in Place |-> None] /\ lost = {} /\ lock = None
  /\ pc = [p \in Procs |-> "idle"]
  /\ job = [p \in Procs |-> NoJob]

Goto(p, from, to) == pc[p] = from /\ pc' = [pc EXCEPT ![p] = to]
Holds(p, j) == job' = [job EXCEPT ![p] = j]
(* The command ends, and with it what it holds.                              *)
Release(p) == lock' = IF lock = p THEN None ELSE lock
Leave(p, from) == Goto(p, from, "idle") /\ Holds(p, NoJob) /\ Release(p)

------------------------------------------------------------------------------
(* setup and uninstall, under the configuration lock                         *)

Start(p) ==
  /\ Goto(p, "idle", "plan") /\ lock = None /\ lock' = p
  /\ \E kind \in {"setup", "uninstall"}, chosen \in SUBSET Harness :
       Holds(p, [job[p] EXCEPT !.kind = kind, !.selected = chosen])
  /\ UNCHANGED <<project, installed, sessions, kept>>

Unfinished(chosen) == {s \in Session : status[s] = "unfinished" /\ agent[s] \in chosen}

(* Sessions of the agents are under way: enrollment stops and the rest waits.*)
Defer(p) ==
  /\ Goto(p, "plan", "digest")
  /\ job[p].kind = "uninstall" /\ Unfinished(job[p].selected) # {}
  /\ stopped' = stopped \cup job[p].selected
  /\ UNCHANGED <<project, file, receipt, sessions, kept, lock, job>>

(* Owned by the tool: missing, or what a receipt or this build has there.    *)
Owned(r) == file[r] \in {None, receipt[r].current, receipt[r].previous, project}

(* The changes: setup throws at a customized file, uninstall leaves it alone.*)
Plan(p) ==
  LET j == job[p]
      owned == {r \in Path : AgentOf[r] \in j.selected /\ Owned(r)}
  IN /\ Goto(p, "plan", IF j.kind = "setup" THEN "digest" ELSE "stop")
     /\ IF j.kind = "setup" THEN \A r \in Path : AgentOf[r] \in j.selected => r \in owned
        ELSE Unfinished(j.selected) = {}
     /\ Holds(p, [j EXCEPT !.todo = owned, !.before = file, !.receipt = receipt, !.version = project])
     /\ reopened' = {}
     /\ UNCHANGED <<project, installed, status, agent, pinned, kept, lock>>

Stop(p) ==
  /\ Goto(p, "stop", "write")
  /\ stopped' = stopped \cup job[p].selected
  /\ UNCHANGED <<project, file, receipt, sessions, kept, lock, job>>

(* The receipt of a change is written before the change; what uninstall      *)
(* removes it strikes out at the end.                                        *)
Noted(j, r) ==
  IF j.kind = "uninstall" THEN j.receipt
  ELSE [j.receipt EXCEPT ![r] = [current |-> j.version,
          previous |-> IF j.before[r] = None THEN @.previous ELSE j.before[r]]]

Check(p) ==
  /\ Goto(p, "write", "replace")
  /\ \E r \in job[p].todo :
       /\ file[r] = job[p].before[r]
       /\ receipt' = IF job[p].kind = "setup" THEN Noted(job[p], r) ELSE receipt
       /\ Holds(p, [job[p] EXCEPT !.at = r, !.receipt = Noted(job[p], r)])
  /\ UNCHANGED <<project, file, stopped, sessions, kept, lock>>

After(j) == IF j.kind = "setup" THEN j.version ELSE None
Replace(p) ==
  /\ Goto(p, "replace", "verify")
  /\ file' = [file EXCEPT ![job[p].at] = After(job[p])]
  /\ UNCHANGED <<project, receipt, stopped, sessions, kept, lock, job>>

Verify(p) ==
  LET j == job[p] IN
  /\ Goto(p, "verify", "write")
  /\ file[j.at] = After(j)
  /\ Holds(p, [j EXCEPT !.todo = @ \ {j.at}, !.receipt[j.at].current = After(j)])
  /\ UNCHANGED <<project, installed, sessions, kept, lock>>

SaveReceipt(p) ==
  /\ Goto(p, "write", "enroll") /\ job[p].todo = {}
  /\ receipt' = job[p].receipt
  /\ UNCHANGED <<project, file, stopped, sessions, kept, lock, job>>

Enroll(p) ==
  /\ Leave(p, "enroll")
  /\ stopped' = IF job[p].kind = "setup" THEN stopped \ job[p].selected ELSE stopped
  /\ UNCHANGED <<project, file, receipt, sessions, kept>>

------------------------------------------------------------------------------
(* begin asks whether enrollment is stopped before it waits for the lock;    *)
(* resume holds the lock of its repository only.                             *)

Ask(p) ==
  /\ Goto(p, "idle", "wait")
  /\ \E h \in Harness \ stopped : Holds(p, [job[p] EXCEPT !.kind = "begin", !.selected = {h}])
  /\ UNCHANGED <<project, installed, sessions, kept, lock>>
TakeLock(p) ==
  /\ Goto(p, "wait", "digest") /\ lock = None /\ lock' = p
  /\ UNCHANGED <<project, installed, sessions, kept, job>>
Create(p) ==
  /\ Leave(p, "create")
  /\ \E s \in Session, h \in job[p].selected :
       /\ status[s] = "none" /\ status' = [status EXCEPT ![s] = "unfinished"]
       /\ agent' = [agent EXCEPT ![s] = h]
       /\ pinned' = [pinned EXCEPT ![s] = {[id |-> job[p].id, place |-> job[p].place]}]
  /\ UNCHANGED <<project, installed, reopened, kept>>
Resume(p) ==
  /\ Goto(p, "idle", "digest")
  /\ \E s \in Session : /\ status[s] = "unfinished"
                        /\ Holds(p, [job[p] EXCEPT !.kind = "resume", !.session = s])
  /\ UNCHANGED <<project, installed, sessions, kept, lock>>

End(s) ==
  /\ status[s] = "unfinished"
  /\ \E end \in {"succeeded", "no_changes", "abandoned"} : status' = [status EXCEPT ![s] = end]
  /\ UNCHANGED <<project, installed, agent, reopened, pinned, kept, lock, pc, job>>
Restore(s) ==
  /\ status[s] = "abandoned" /\ status' = [status EXCEPT ![s] = "unfinished"]
  /\ reopened' = reopened \cup {s}
  /\ UNCHANGED <<project, installed, agent, pinned, kept, lock, pc, job>>

(* A validate or an incident saves the whole record as it was read before    *)
(* the session succeeded; writeSession refuses it for the other two ends.    *)
StaleSave(s) ==
  /\ status[s] = "succeeded" /\ status' = [status EXCEPT ![s] = "unfinished"]
  /\ \E before \in SUBSET pinned[s] : pinned' = [pinned EXCEPT ![s] = before]
  /\ reopened' = reopened \cup {s}
  /\ UNCHANGED <<project, installed, agent, kept, lock, pc, job>>

------------------------------------------------------------------------------
(* retainCoordinator: a copy of the build in a place named for its digest    *)

Digest(p) ==
  /\ Goto(p, "digest", "look")
  /\ Holds(p, [job[p] EXCEPT !.id = project])
  /\ UNCHANGED <<project, installed, sessions, kept, lock>>

(* What the caller does with the copy: begin creates its session, setup      *)
(* installs, resume records it, uninstall names it and ends.                 *)
Retained(p, c) ==
  LET kind == job[p].kind IN
  /\ IF kind \in {"begin", "setup"}
     THEN /\ Holds(p, [job[p] EXCEPT !.place = c.place, !.temp = None])
          /\ Goto(p, pc[p], IF kind = "begin" THEN "create" ELSE "write") /\ UNCHANGED lock
     ELSE Leave(p, pc[p])
  /\ pinned' = IF kind = "resume" THEN [pinned EXCEPT ![job[p].session] = @ \cup {c}] ELSE pinned
  /\ UNCHANGED <<project, installed, status, agent, reopened, lost>>

Look(p) ==
  LET id == job[p].id
      named == <<id, None>>
  IN /\ pc[p] = "look"
     /\ \/ copies[named] = id /\ Retained(p, [id |-> id, place |-> named]) /\ UNCHANGED copies
        \/ /\ copies[named] # id
           /\ \E n \in Repair \cup {None} :
                /\ n = None <=> copies[named] = None
                /\ copies[<<id, n>>] = None
                /\ Holds(p, [job[p] EXCEPT !.place = <<id, n>>])
           /\ pc' = [pc EXCEPT ![p] = "copy"]
           /\ UNCHANGED <<project, installed, sessions, kept, lock>>

(* While it is copied to a temporary directory the build may be replaced.    *)
Copy(p) ==
  /\ Goto(p, "copy", "publish")
  /\ \E what \in {project, Damaged} : Holds(p, [job[p] EXCEPT !.temp = what])
  /\ UNCHANGED <<project, installed, sessions, kept, lock>>

(* The copy has the digest, and is renamed into its place; a copy that is    *)
(* there already must have it too.                                           *)
Publish(p) ==
  LET j == job[p] IN
  /\ pc[p] = "publish" /\ j.temp = j.id
  /\ \/ copies[j.place] = None /\ copies' = [copies EXCEPT ![j.place] = j.temp]
     \/ copies[j.place] = j.id /\ UNCHANGED copies
  /\ Retained(p, [id |-> j.id, place |-> j.place])

------------------------------------------------------------------------------
(* Errors, ends of processes, users                                          *)

Throw(p) ==
  /\ pc[p] \notin {"idle", "dead"} /\ Leave(p, pc[p])
  /\ UNCHANGED <<project, installed, sessions, kept>>
Die(p) ==
  /\ pc[p] # "dead" /\ Goto(p, pc[p], "dead") /\ Holds(p, NoJob)
  /\ UNCHANGED <<project, installed, sessions, kept, lock>>
RemoveLeftover ==
  /\ lock # None /\ pc[lock] = "dead" /\ lock' = None
  /\ UNCHANGED <<project, installed, sessions, kept, pc, job>>

(* Not between the last comparison of a file and its replacement: what is    *)
(* written there and then is lost.                                           *)
UserEdits(r) ==
  /\ \A p \in Procs : pc[p] = "replace" => job[p].at # r
  /\ \E what \in Custom \cup {None} : file' = [file EXCEPT ![r] = what]
  /\ UNCHANGED <<project, receipt, stopped, sessions, kept, lock, pc, job>>
Rebuild ==
  /\ project' \in Build
  /\ UNCHANGED <<installed, sessions, kept, lock, pc, job>>
Lose(l) ==
  /\ copies[l] # None /\ lost' = lost \cup {l}
  /\ \E rest \in {None, Damaged} : copies' = [copies EXCEPT ![l] = rest]
  /\ UNCHANGED <<project, installed, sessions, lock, pc, job>>

Step(p) ==
  \/ Start(p) \/ Defer(p) \/ Plan(p) \/ Stop(p) \/ Check(p) \/ Replace(p) \/ Verify(p)
  \/ SaveReceipt(p) \/ Enroll(p) \/ Ask(p) \/ TakeLock(p) \/ Create(p) \/ Resume(p)
  \/ Digest(p) \/ Look(p) \/ Copy(p) \/ Publish(p) \/ Throw(p) \/ Die(p)
Next ==
  \/ \E p \in Procs : Step(p)
  \/ \E s \in Session : End(s) \/ Restore(s) \/ StaleSave(s)
  \/ \E r \in Path : UserEdits(r)
  \/ RemoveLeftover \/ Rebuild \/ \E l \in Place : Lose(l)
Spec == Init /\ [][Next]_vars

------------------------------------------------------------------------------
(* Properties                                                                *)

(* What a user wrote is neither overwritten by setup nor removed by          *)
(* uninstall, in whatever order upgrades, failures and edits come.           *)
CustomizedKept == [][\A p \in Procs : Replace(p) => file[job[p].at] \notin Custom]_vars

(* What some build installed is in the receipt, also when setup or uninstall *)
(* was interrupted at any step: an upgrade to whatever build can be repeated *)
(* and never takes the tool's own file for a customized one.                 *)
OwnIsOwned ==
  \A r \in Path : file[r] \in Build => file[r] \in {receipt[r].current, receipt[r].previous}

(* Uninstall removes nothing of an agent with unfinished sessions, but those *)
(* that were closed when it looked: a restore, or the save of a copy read    *)
(* before the session succeeded, opens them while it runs.                   *)
RemovalDeferred ==
  [][\A p \in Procs : Replace(p) /\ job[p].kind = "uninstall"
       => Unfinished({AgentOf[job[p].at]}) \subseteq reopened]_vars

(* Where a session's coordinator was kept is the build it recorded: whole,   *)
(* unless people lost it, whoever else keeps, repairs or replaces builds.    *)
PinnedIntact ==
  \A s \in Session : \A c \in pinned[s] : copies[c.place] = c.id \/ c.place \in lost

(* Not true of the code: begin reads enrollment.json before it waits.        *)
EnrollmentStops ==
  [][\A s \in Session : status[s] = "none" /\ status'[s] = "unfinished" => agent'[s] \notin stopped]_vars
==============================================================================
