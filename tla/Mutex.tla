-------------------------------- MODULE Mutex --------------------------------
(***************************************************************************)
(* What a lock of sesh-integrator promises to the commands that take it:   *)
(* one owner at a time; only the owner gives the lock back; an owner that  *)
(* dies keeps the lock until somebody reclaims it, and reclaiming never    *)
(* takes a lock from a live owner.                                         *)
(***************************************************************************)
CONSTANTS Runs,      \* the processes that may own the lock
          None       \* no owner

VARIABLES owner,     \* the run that owns the lock, or None
          dead       \* the runs that stopped without giving it back

vars == <<owner, dead>>

TypeOK == /\ owner \in Runs \cup {None}
          /\ dead \in SUBSET Runs

Init == /\ owner = None
        /\ dead = {}

Acquire(r) == /\ owner = None
              /\ r \notin dead
              /\ owner' = r
              /\ UNCHANGED dead

Release(r) == /\ owner = r
              /\ r \notin dead
              /\ owner' = None
              /\ UNCHANGED dead

Die(r) == /\ r \notin dead
          /\ dead' = dead \cup {r}
          /\ UNCHANGED owner

Reclaim == /\ owner \in dead
           /\ owner' = None
           /\ UNCHANGED dead

Next == \/ \E r \in Runs : Acquire(r) \/ Release(r) \/ Die(r)
        \/ Reclaim

Spec == Init /\ [][Next]_vars
==============================================================================
