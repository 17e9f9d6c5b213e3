---------------------------- MODULE QueueHistory ----------------------------
(***************************************************************************)
(* BuildQueue with the history a waiter does not see: whether a running    *)
(* command finished, and whether an entry with an earlier stamp registered *)
(* or the concurrency was lowered, between two of its polls.               *)
(***************************************************************************)
EXTENDS BuildQueue

VARIABLES finished,   \* the requests since whose last poll a running one ended
          overtaken   \* the requests that lost ground to one, or a slot, since then

historyVars == <<vars, finished, overtaken>>

HistoryInit == Init /\ finished = {} /\ overtaken = {}

Decides(r) == pc[r] = "deciding" /\ pc'[r] # "deciding"

(* A poll's decision starts a new interval; what changes in a step falls   *)
(* into the interval of every other request.                               *)
HistoryNext ==
  /\ Next
  /\ finished' = IF Running \subseteq Running'
                 THEN {r \in finished : ~Decides(r)} ELSE Waiting'
  /\ overtaken' =
       {r \in Waiting' : \/ r \in overtaken /\ ~Decides(r)
                         \/ limit' < limit
                         \/ \E q \in Waiting' \ Waiting : Before(q, r)'}

HistorySpec == HistoryInit /\ [][HistoryNext]_historyVars
FairHistorySpec == HistorySpec /\ Fairness

(* "a running entry finishing or this request moving up restarts the       *)
(* deadline": a poll that leaves the deadline as it is has missed no       *)
(* command that finished, unless a request with an earlier stamp           *)
(* registered or the concurrency was lowered in between.                   *)
FinishIsProgress ==
  [][\A r \in finished \ overtaken :
       Decides(r) => pc'[r] # "stalled"]_historyVars
=============================================================================
