------------------------------- MODULE FileLock -------------------------------
(***************************************************************************)
(* One lock file of sesh-integrator (file-lock.ts), as the repository      *)
(* lock, the session record locks, the configuration lock and the gates of *)
(* the validation resources use it, with the ownership check the           *)
(* repository lock adds before a release (lock.ts).                        *)
(*                                                                         *)
(* Taking the lock is open(wx) and then a write of the owner's record;     *)
(* giving it back is three reads that compare the file with the handle and *)
(* then an unlink.  A run may stop between any two of these steps.  The    *)
(* code never removes the lock of a dead run: an operator does, by hand,   *)
(* after reading a record whose process is gone.                           *)
(***************************************************************************)
CONSTANTS Runs,      \* one-shot processes contending for the lock
          Tokens,    \* random UUIDs; bounds the acquisitions of a TLC run
          Inodes,    \* inode numbers: the file system may reuse them
          Operators, \* people who remove stale lock files
          Nothing

ASSUME NothingAssumption == Nothing \notin Runs /\ Nothing \notin Tokens

VARIABLES file,      \* the lock file: its creator, or Nothing when it is absent
          handle,    \* the FileLock each run got from tryFileLock
          pc,        \* the step each run is at
          used,      \* tokens drawn so far (a UUID is never drawn twice)
          seen       \* operators who found a dead owner and will remove it

lockVars == <<file, handle, pc, used, seen>>

Absent == [by |-> Nothing, ino |-> Nothing, token |-> Nothing]

(* The control points of a run.  "opened": the file exists without its     *)
(* record.  "held": the protected operation runs.  "refused": the release  *)
(* threw.  "failed": the record could not be written.                      *)
Releasing == {"checked", "identified", "owned"}
LockSteps == {"idle", "opened", "held", "refused", "failed", "crashed"}
           \cup Releasing

LockTypeOK ==
  /\ file \in [by: Runs \cup {Nothing}, ino: Inodes \cup {Nothing},
               token: Tokens \cup {Nothing}]
  /\ handle \in [Runs -> [ino: Inodes \cup {Nothing}, token: Tokens \cup {Nothing}]]
  /\ pc \in [Runs -> LockSteps]
  /\ used \in SUBSET Tokens
  /\ seen \in SUBSET Operators

LockInit ==
  /\ file = Absent
  /\ handle = [r \in Runs |-> [ino |-> Nothing, token |-> Nothing]]
  /\ pc = [r \in Runs |-> "idle"]
  /\ used = {}
  /\ seen = {}

Moves(r, from, to) == pc[r] = from /\ pc' = [pc EXCEPT ![r] = to]

(* Mutant: the file is opened without the exclusive flag.                  *)
OpenTruncates(r) ==
  /\ Moves(r, "idle", "opened")
  /\ \E i \in Inodes, t \in Tokens \ used :
       /\ file' = [by |-> r, ino |-> i, token |-> Nothing]
       /\ handle' = [handle EXCEPT ![r] = [ino |-> i, token |-> t]]
       /\ used' = used \cup {t}
  /\ UNCHANGED seen

(* tryFileLock up to the write: open(wx) fails with EEXIST while the file  *)
(* is there, and the caller polls.                                         *)
Open(r) ==
  /\ Moves(r, "idle", "opened")
  /\ file.by = Nothing
  /\ \E i \in Inodes, t \in Tokens \ used :
       /\ file' = [by |-> r, ino |-> i, token |-> Nothing]
       /\ handle' = [handle EXCEPT ![r] = [ino |-> i, token |-> t]]
       /\ used' = used \cup {t}
  /\ UNCHANGED seen

(* The write goes to the file this run opened, also when its name is gone. *)
WriteOwner(r) ==
  /\ Moves(r, "opened", "held")
  /\ file' = IF file.by = r THEN [file EXCEPT !.token = handle[r].token]
                            ELSE file
  /\ UNCHANGED <<handle, used, seen>>

(* Mutant: a failed initialisation removes the file again.                 *)
WriteFailsCleansUp(r) ==
  /\ Moves(r, "opened", "failed")
  /\ file' = Absent
  /\ UNCHANGED <<handle, used, seen>>

(* A partial record stays locked rather than admitting a second owner.     *)
WriteFails(r) ==
  /\ Moves(r, "opened", "failed")
  /\ UNCHANGED <<file, handle, used, seen>>

(* releaseRepoLock: the record must still name this process.               *)
CheckOwner(r) ==
  /\ pc[r] = "held"
  /\ pc' = [pc EXCEPT ![r] = IF file.by = r /\ file.token # Nothing
                             THEN "checked" ELSE "refused"]
  /\ UNCHANGED <<file, handle, used, seen>>

(* releaseFileLock, step by step: lstat, then the token, then unlink.      *)
CheckIdentity(r) ==
  /\ pc[r] = "checked"
  /\ pc' = [pc EXCEPT ![r] = IF file.by # Nothing /\ file.ino = handle[r].ino
                             THEN "identified" ELSE "refused"]
  /\ UNCHANGED <<file, handle, used, seen>>

CheckToken(r) ==
  /\ pc[r] = "identified"
  /\ pc' = [pc EXCEPT ![r] = IF file.by # Nothing /\ file.token = handle[r].token
                             THEN "owned" ELSE "refused"]
  /\ UNCHANGED <<file, handle, used, seen>>

(* Mutant: an error of the unlink is swallowed.                            *)
UnlinkNothing(r) ==
  /\ Moves(r, "owned", "idle")
  /\ UNCHANGED <<file, handle, used, seen>>

Unlink(r) ==
  /\ pc[r] = "owned"
  /\ pc' = [pc EXCEPT ![r] = IF file.by # Nothing THEN "idle" ELSE "refused"]
  /\ file' = Absent
  /\ UNCHANGED <<handle, used, seen>>

(* The process stops anywhere; the file it created stays behind.           *)
Crash(r) ==
  /\ pc[r] # "crashed"
  /\ pc' = [pc EXCEPT ![r] = "crashed"]
  /\ UNCHANGED <<file, handle, used, seen>>

(* The operator reads a complete record of a process that no longer runs   *)
(* (the message of acquireRepoLock asks for this inspection) ...           *)
Inspect(o) ==
  /\ o \notin seen
  /\ file.by # Nothing
  /\ file.token # Nothing
  /\ pc[file.by] = "crashed"
  /\ seen' = seen \cup {o}
  /\ UNCHANGED <<file, handle, pc, used>>

(* ... and later removes whatever file has the name by then.               *)
RemoveStale(o) ==
  /\ o \in seen
  /\ seen' = seen \ {o}
  /\ file' = Absent
  /\ UNCHANGED <<handle, pc, used>>

RunStep(r) ==
  \/ Open(r) \/ WriteOwner(r) \/ WriteFails(r)
  \/ CheckOwner(r) \/ CheckIdentity(r) \/ CheckToken(r) \/ Unlink(r)
  \/ Crash(r)

OperatorStep(o) == Inspect(o) \/ RemoveStale(o)

LockNext == \/ \E r \in Runs : RunStep(r)
        \/ \E o \in Operators : OperatorStep(o)

LockSpec == LockInit /\ [][LockNext]_lockVars

(* A run that holds the lock goes on to finish or to stop; an operator who *)
(* saw a stale lock removes it.  Nothing makes a run ask for the lock.     *)
LockFairness ==
  /\ \A r \in Runs :
       WF_lockVars(WriteOwner(r) \/ WriteFails(r) \/ CheckOwner(r)
                 \/ CheckIdentity(r) \/ CheckToken(r) \/ Unlink(r))
  /\ \A o \in Operators : WF_lockVars(OperatorStep(o))

FairLockSpec == LockSpec /\ LockFairness

------------------------------------------------------------------------------
(* Two runs never run the operation the lock protects at the same time,    *)
(* whatever crashed before and whatever stale file was removed by hand     *)
(* (tryFileLock, releaseFileLock).                                         *)
MutualExclusion ==
  \A r, q \in Runs : pc[r] = "held" /\ pc[q] = "held" => r = q

(* A live owner can always give its lock back: no check of releaseRepoLock *)
(* or releaseFileLock refuses, because nobody replaced its file.           *)
ReleaseNotRefused == \A r \in Runs : pc[r] # "refused"

(* A file disappears only when the run that created it unlinks it or when  *)
(* that run is dead: between the token check and the unlink nobody else's  *)
(* lock can take the place of the one that was checked.                    *)
NoForeignRemoval ==
  [][file.by # Nothing /\ file'.by = Nothing
       => \/ pc[file.by] = "owned" /\ pc'[file.by] = "idle"
          \/ pc[file.by] = "crashed"]_lockVars

(* A lock is not kept for ever, except by a partial record, which nobody   *)
(* may remove, since it does not say whether its writer still runs.        *)
LockReturns ==
  \A r \in Runs :
    (file.by = r) ~> (file.by # r \/ (pc[r] \in {"failed", "crashed"}
                                        /\ file.token = Nothing))

(* The lock file implements the lock the commands rely on.                 *)
Lock == INSTANCE Mutex
          WITH None <- Nothing,
               owner <- file.by,
               dead <- {r \in Runs : pc[r] \in {"failed", "crashed"}}
ImplementsMutex == Lock!Spec
==============================================================================
