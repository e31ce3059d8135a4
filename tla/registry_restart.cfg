\* One process at first, no context ends.
SPECIFICATION Spec
CONSTANTS
  c1 = c1
  c2 = c2
  web = web
  pool = pool
  None = None
  MaxProcs = 2
  Requests <- OneLabel
  Callers = {c1}
  MaxCalls = 2
  Ops = {"ensure", "restart"}
  Endings = {"ok"}
INVARIANT RestartRestarts
CHECK_DEADLOCK FALSE
