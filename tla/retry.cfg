\* Durations of eight bits.
SPECIFICATION FairSpec
CONSTANTS
  Width = 8
  Unit = 10
  Seconds <- Advice
  Configs <- Settings
  Defaults <- Usual
  Encodings = {"plain", "packed", "corrupt"}
  NoHeader = NoHeader
INVARIANTS
  OneBodyOpen
  AttemptsAreWhole
  AnswerIsLatest
PROPERTIES
  WaitsAreRight
  RoundTripReturns
CHECK_DEADLOCK FALSE
