\* Two writers, three calls between them; a write does not fit the pipe.
SPECIFICATION InputFairSpec
CONSTANTS
  ControlEvents = {"input", "input_closed"}
  Outcomes = {"ok"}
  NoAnswer = "none"
  Writers = {"v", "w"}
  Size = 2
  Room = 1
  MaxCalls <- Three
  MaxOutputs = 1
INVARIANT InputIsWhole
PROPERTY WritesEnd
CHECK_DEADLOCK FALSE
