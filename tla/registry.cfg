\* Three processes, two callers with three calls between them.
SPECIFICATION FairSpec
CONSTANTS
  c1 = c1
  c2 = c2
  web = web
  pool = pool
  None = None
  MaxProcs = 3
  Requests <- Pool
  Callers = {c1, c2}
  MaxCalls = 3
  Ops = {"ensure", "kill", "wait", "restart"}
  Endings = {"ok", "error"}
INVARIANTS
  GroupsAgree
  EnsureIsUnique
  RestartNeverDoubles
PROPERTIES
  GroupCallsAreWhole
  RestartComesBack
CHECK_DEADLOCK FALSE
