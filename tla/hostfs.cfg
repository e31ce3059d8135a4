\* Two callers with four calls between them over a tree of two levels.
SPECIFICATION Spec
CONSTANTS
  c1 = c1
  c2 = c2
  Paths <- Tree
  TempNames = {"t"}
  Contents <- Blocks
  Callers = {c1, c2}
  Calls <- Made
  MaxCalls = 4
  MaxInodes = 3
SYMMETRY CallersSymmetry
INVARIANTS
  WritesAreWhole
  FailedTempsVanish
PROPERTIES
  FilesStay
CHECK_DEADLOCK FALSE
