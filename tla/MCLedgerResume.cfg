SPECIFICATION Spec
CONSTANTS
  Runner = {"first"}
  Key = {"a", "b", "c"}
  Work <- MCWork
  MaxCrashes = 1
  MaxRuns = 2
INVARIANTS
  RerunNotRefused
CHECK_DEADLOCK FALSE
