--------------------------- MODULE MCConfiguration ---------------------------
EXTENDS Configuration, TLC
CONSTANTS p, q, s
Alike == Permutations({p, q})
MCIncludes ==
  {[settings |-> [k \in {Wait, Target} |-> IF k = Wait THEN 60 ELSE None], repos |-> {s}],
   [settings |-> [k \in {Wait, Target} |-> IF k = Target THEN "dev" ELSE None], repos |-> {}]}
===============================================================================
