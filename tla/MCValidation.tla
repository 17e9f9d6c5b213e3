---------------------------- MODULE MCValidation ----------------------------
(* Validation for TLC.  p1 and p2 validate one tree with one plan and share *)
(* results, p1 with an unstaged change in its worktree; p2 has a deadline.  *)
(* p3 has another tree and two groups: of "a" and "b", which want the keys  *)
(* 1 and 2 the other way round, and of "c" and "d", which want none.        *)
EXTENDS Validation

MCProcesses == {"p1", "p2", "p3"}
MCCommands == {"a", "b", "c", "d"}
MCShared == [c \in MCCommands |-> CASE c = "a" -> {1} [] c = "b" -> {2} [] OTHER -> {}]
MCExclusive == [c \in MCCommands |-> CASE c = "a" -> {2} [] c = "b" -> {1} [] OTHER -> {}]
MCPlan == [p \in MCProcesses |->
             IF p = "p3" THEN <<{"a", "b"}, {"c", "d"}>> ELSE <<{"b"}>>]
MCTree == [p \in MCProcesses |-> IF p = "p3" THEN "t2" ELSE "t1"]
MCBaseline == [p \in MCProcesses |-> IF p = "p1" THEN "changed" ELSE "clean"]
MCEarlier == [p \in MCProcesses |-> {}]
MCAttempts == [c \in MCCommands |-> IF c = "c" THEN 2 ELSE 1]
==============================================================================
