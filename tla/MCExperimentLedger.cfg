SPECIFICATION Spec
CONSTANTS
  Runner = {"first", "second"}
  Key = {"a", "b", "c"}
  Work <- MCWork
  MaxCrashes = 2
  MaxRuns = 3
INVARIANTS
  IndInv
  RecordedOnce
  OnlyCrashesDamage
  ReturnedAllRecorded
PROPERTIES
  RunsEnd
CHECK_DEADLOCK FALSE
