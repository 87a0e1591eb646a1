SPECIFICATION Spec
CONSTANTS
  N = 6
  T = 1
  Networks <- MCNetworks
  ActiveChoices <- AllSlotSets
  ChannelChoices = {1, 3}
  MinDegree = 4
  MaxColours = 2
  DelayCap = 100000
  Guarded = FALSE
  MaxPeriods = 0
INVARIANTS
  PeriodsBounded
PROPERTIES
  Terminates
CHECK_DEADLOCK FALSE
