SPECIFICATION RSpec
CONSTANTS
  MaxRetries = 2
  Requests <- MCPlainRequest
  Answers <- MCAnswers
  Latencies = {1, 2}
  Targets = {0, 1}
  ScopeModes = {"enforcing"}
  Provider = "openai"
  InvalidValues = {"INVALID_LATENCY_TARGET", "INVALID_CHANNEL_COUNT"}
  Readings <- MCReadings
INVARIANTS
  SuppliedTopologyNotAskedFor
CHECK_DEADLOCK FALSE
