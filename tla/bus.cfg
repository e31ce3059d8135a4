\* Slow subscribers, channels of two events, two emitters.
SPECIFICATION FairBusSpec
CONSTANTS
  p1 = p1
  p2 = p2
  stdout = stdout
  stderr = stderr
  other = other
  s1 = s1
  s2 = s2
  web = web
  Procs = {p1, p2}
  Groups = {web}
  GroupOf <- Group
  Emitters = {stdout, other}
  ProcOf <- Proc
  Subs = {s1, s2}
  Selectors <- OneOrAll
  Capacity = 2
  MaxEvents = 2
INVARIANTS
  NoSendOnClosed
  StreamsInOrder
  FewEventsAreComplete
PROPERTY CancelCloses
CHECK_DEADLOCK FALSE
