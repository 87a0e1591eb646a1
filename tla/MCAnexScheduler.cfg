SPECIFICATION Spec
CONSTANTS
  N = 4
  T = 2
  Networks <- MCNetworks
  ActiveChoices <- AllSlotSets
  ChannelChoices = {1, 2}
  MinDegree = 1
  MaxColours = 7
  DelayCap = 100000
  Guarded = TRUE
  MaxPeriods = 3
INVARIANTS
  IndInv
  ListsMatchParents
  AggregationPrecedence
  CollisionFree
  NeverFails
  CertificateValid
CHECK_DEADLOCK FALSE
PROPERTIES
  CommittedFrozen
  ImplementsConvergecast
  SinkCollectsAll
