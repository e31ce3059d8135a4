\* A group and its calls one after the other, or a process and calls at once.
SPECIFICATION Spec
CONSTANTS
  leader = leader
  child = child
  c1 = c1
  c2 = c2
  Leader = leader
  Members <- Family
  Streams = {"stdout"}
  MaxChunks = 1
  Callers = {c1, c2}
  Requests <- OneOrTwoCallers
SYMMETRY CallersSymmetry
INVARIANTS
  DoneIsSettled
  MonitorJustified
  OutputBeforeExit
  TimeoutReported
  PausedMatchesGroup
PROPERTY ImplementsContract
CHECK_DEADLOCK FALSE
