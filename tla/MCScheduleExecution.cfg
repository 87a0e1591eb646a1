SPECIFICATION Spec
CONSTANTS
  Node = {0, 1, 2, 3}
  Sink = 0
  Period = 2
  Networks <- MCNetworks
  Schedules <- MCSchedules
  Channels = 2
  Models = {"legacy_neighbor", "interference_range"}
  LastSlot = 2
  PerOperator = 2
  Ends = {0, 1, 2, 3, 4}
  Sleepers = {1, 2, 3}
INVARIANTS
  CertifiedDelivers
  MutantsRejected
  OriginalCheckerAgrees
PROPERTIES
  CertifiedIsConvergecast
CHECK_DEADLOCK FALSE
