---------------------------- MODULE MCIntegration ----------------------------
(* Integration for TLC: sessions a and b, a user who commits once, and a     *)
(* correction f. A change clashes with those it is in a pair with.           *)
EXTENDS Integration

CONSTANTS a, b, u, f
Everything == {a, b, u}
Alone == {a, u, f}
Nothing == {}   \* in the place of Everything: files are edited only
BothClash == {{a, b}, {a, u}}
AloneClash == {{a, u}}
==============================================================================
