SPECIFICATION ESpec
CONSTANTS
  Jobs <- MCJobs
  Topologies = 2
  Settings = {"dense", "sparse"}
  MaxFailures = 2
  MaxFileEdits = 1
  Plan <- MCPlan
  Local = {"gated", "ablated"}
  Items = 10
  FailureCounts = {0, 10}
  CutCounts = {0, 9}
  ProviderFailures = {"PROVIDER_UNAVAILABLE"}
  MaxFaults = 2
  Item <- MCItem
  Selections <- MCSelections
  MaxRetries = 1
  MaxWaits = 1
  MaxInvocations = 3
  MaxInterrupts = 2
  Files = {"script", "source", "table", "legacy"}
  Shipped = {"script", "source", "table"}
  WithPath = {"source", "table"}
  WithByline = {"script", "source"}
  Redactable = {"script", "source", "legacy"}
  BYLINE_SCOPE = {"source"}
  Covers <- MCCovers
  LOCK_CHAIN <- MCChain
  LOCKS = {"v2"}
  NoLock = NoLock
  Versions = {1, 2}
  MaxChanges = 2
INVARIANTS
  CompletedMeansMeasured
CHECK_DEADLOCK FALSE
