CONSTANTS
  p = p
  q = q
  Processes = {p, q}
  MaxSessions = 2
  Main = Main
  None = None
  Managed = {TRUE, FALSE}
  MaxCommands = 3
  MaxCommits = 1
  MaxDeaths = 1
SPECIFICATION Spec
SYMMETRY Symmetric
INVARIANTS EditsKept IndexFollows
PROPERTIES ClosedStaysClosed ClosedWithoutWork
CHECK_DEADLOCK FALSE
