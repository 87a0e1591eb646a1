SPECIFICATION RSpec
CONSTANTS
  MaxRetries = 2
  Requests <- MCRequests
  Answers <- MCAnswers
  Latencies = {1, 2}
  Targets = {0, 1}
  ScopeModes = {"enforcing", "advisory", "off"}
  Provider = "openai"
  InvalidValues = {"INVALID_LATENCY_TARGET", "INVALID_CHANNEL_COUNT"}
  Readings <- MCReadings
INVARIANTS
  GatesComeFirst
  ExecuteIsEarned
  LogsTellTheRetries
  StageNamesWhatDecided
  ScorersAgree
PROPERTIES
  Answered
CHECK_DEADLOCK FALSE
