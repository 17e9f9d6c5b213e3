CONSTANTS
  a = a
  b = b
  u = u
  f = f
  Root = Root
  None = None
  Sessions = {a, b}
  Users = {u}
  Fixes = {}
  Clash <- BothClash
  Adding <- Everything
  Direct = {}
  Checks = TRUE
  Nested = TRUE
  Audits = FALSE
  MaxCommits = 2
  MaxCrashes = 0
SPECIFICATION Spec
INVARIANTS StagedIsOwned
PROPERTIES PromotesValidated NothingReverted
CHECK_DEADLOCK FALSE
