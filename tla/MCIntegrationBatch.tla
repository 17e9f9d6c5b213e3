--------------------------- MODULE MCIntegrationBatch ---------------------------
EXTENDS IntegrationBatch
CONSTANTS a, b, c, d, u
MCOrder == <<a, b, c, d>>
\* d may be stacked on b, or on a and c, which may not merge; one, a pair or two sessions may break.
MCWorlds ==
  {[brings |-> br, clash |-> cl, breaks |-> bk] :
     br \in {[s \in {a, b, c, d} |-> {s}], [s \in {a, b, c, d} |-> IF s = d THEN {b, d} ELSE {s}],
           [s \in {a, b, c, d} |-> IF s = d THEN {a, c, d} ELSE {s}]},
     cl \in {{}, {{a, c}}, {{c, d}, {u, b}}},
     bk \in {{}, {{b}}, {{b, c}}, {{a, d}}, {{a}, {c}}, {{u, d}}}}
=============================================================================
