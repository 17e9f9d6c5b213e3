CONSTANTS
  p = p
  q = q
  s = s
  Tools = {p, q}
  Repos = {s}
  Includes <- MCIncludes
  HistoryLimit = 2
  MaxCommands = 3
  MaxEdits = 1
  MaxCrashes = 1
  None = None
SYMMETRY Alike
SPECIFICATION Spec
INVARIANTS AcceptedStays
PROPERTIES QuietWhenDisabled ReplacedIsKept NoSilentReplacement
CHECK_DEADLOCK FALSE
