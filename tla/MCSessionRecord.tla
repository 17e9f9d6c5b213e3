--------------------------- MODULE MCSessionRecord ---------------------------
(* SessionRecord for TLC: the processes are interchangeable.                *)
EXTENDS SessionRecord, TLC

Symmetric == Permutations(Processes)
==============================================================================
