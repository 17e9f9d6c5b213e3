CONSTANTS
  Processes <- MCProcesses
  Commands <- MCCommands
  Keys = {1, 2}
  Shared <- MCShared
  Exclusive <- MCExclusive
  Plan <- MCPlan
  Tree <- MCTree
  Baseline <- MCBaseline
  Earlier <- MCEarlier
  Attempts <- MCAttempts
  Repository = {"p1", "p2"}
  Bypass = {}
  Impatient = {"p2"}
  Failing = {"b", "c"}
  Leaky = {"c"}
  Stuck = {"a"}
  Mortal = {"p1"}
  Stopped = {"p2"}
  Edited = {"p2"}
  Capacity = 2
  None = None
SPECIFICATION FairSpec
INVARIANTS ResourcesRespected ResultsAreTrue
PROPERTIES RunsOnce ValidationEnds
CHECK_DEADLOCK FALSE
