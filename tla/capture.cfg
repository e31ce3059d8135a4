\* A channel of four events: some runs fit, some do not.
SPECIFICATION FairSpec
CONSTANTS
  proc = proc
  neighbour = neighbour
  stdout = stdout
  stderr = stderr
  noise = noise
  private = private
  shared = shared
  life = life
  runner = runner
  mine = mine
  Procs = {proc, neighbour}
  Groups = {private, shared}
  GroupOf <- SharedGroup
  Emitters = {stdout, life, runner, noise}
  Copiers = {stdout}
  ProcOf <- Proc
  Subs = {mine}
  Selectors <- OfGroup
  Capacity = 4
  MaxEvents = 2
  ChunkSize = 2
  MaxBytes = 2
INVARIANT CaptureIsExact
PROPERTIES
  CaptureReturns
CHECK_DEADLOCK FALSE
