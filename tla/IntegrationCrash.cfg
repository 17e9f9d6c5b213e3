CONSTANTS
  a = a
  b = b
  u = u
  f = f
  Root = Root
  None = None
  Sessions = {a}
  Users = {u}
  Fixes = {f}
  Clash <- AloneClash
  Adding <- Alone
  Direct = {a}
  Checks = FALSE
  Nested = FALSE
  Audits = TRUE
  MaxCommits = 2
  MaxCrashes = 1
SPECIFICATION FairSpec
PROPERTIES HistoryKept Settles
CHECK_DEADLOCK FALSE
