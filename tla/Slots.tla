-------------------------------- MODULE Slots --------------------------------
(***************************************************************************)
(* What the machine's build queue promises: a command runs only in a slot, *)
(* a slot is given only within the limit of that moment, and a slot is     *)
(* given back only when nothing of its command runs any more.              *)
(***************************************************************************)
EXTENDS Naturals, FiniteSets

CONSTANTS Requests, Limits

VARIABLES taken,   \* the requests that have a slot
          busy,    \* the requests of whose command something runs
          limit    \* the number of slots

vars == <<taken, busy, limit>>

Init == taken = {} /\ busy = {} /\ limit \in Limits

Take(r) == /\ r \notin taken /\ r \notin busy
           /\ Cardinality(taken) < limit
           /\ taken' = taken \cup {r}
           /\ UNCHANGED <<busy, limit>>

Launch(r) == /\ r \in taken /\ r \notin busy
             /\ busy' = busy \cup {r}
             /\ UNCHANGED <<taken, limit>>

Stop(r) == /\ r \in busy
           /\ busy' = busy \ {r}
           /\ UNCHANGED <<taken, limit>>

Free(r) == /\ r \in taken \ busy
           /\ taken' = taken \ {r}
           /\ UNCHANGED <<busy, limit>>

Configure == limit' \in Limits /\ UNCHANGED <<taken, busy>>

Next == \/ \E r \in Requests : Take(r) \/ Launch(r) \/ Stop(r) \/ Free(r)
        \/ Configure

Spec == Init /\ [][Next]_vars
==============================================================================
