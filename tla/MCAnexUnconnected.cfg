SPECIFICATION Spec
CONSTANTS
  N = 3
  T = 2
  Networks <- MCNetworks
  ActiveChoices <- AllSlotSets
  ChannelChoices = {1, 2}
  MinDegree = 1
  MaxColours = 7
  DelayCap = 2
  Guarded = TRUE
  MaxPeriods = 1
INVARIANTS
  TreeRaisesOnUnconnected
CHECK_DEADLOCK FALSE
