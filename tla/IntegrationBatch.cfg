SPECIFICATION Spec
CONSTANTS
  a = a
  b = b
  c = c
  d = d
  u = u
  Order <- MCOrder
  Leader = b
  Users = {u}
  Worlds <- MCWorlds
  Checks = TRUE
  MaxFaults = 1
  None = None
INVARIANTS StagedIsOwned InnocentLand
PROPERTIES PromotesValidated BatchEnds
CHECK_DEADLOCK FALSE
