\* Three levels; careful callers, who make up to two changes during a walk.
SPECIFICATION ReadSpec
CONSTANTS
  Paths <- Tree
  TempNames <- Twice
  Contents <- Texts
  Modes = {"shared", "private"}
  Default = "shared"
  Ops = {"write", "temp", "mkdir", "remove", "rename"}
  Avoids = {"write_directory", "rename_directory", "mkdir_file", "root", "same_name"}
  Requests <- Asked
  MaxChanges = 2
  Hidden = {".b"}
  Star = "*"
  DoubleStar = "**"
  ReadRequests <- Read
  NewLine = "end"
  MaxInt = 4
VIEW View
INVARIANTS
  ListingAgrees
  WalkIsRight
  GlobIsRight
  ReadIsRight
PROPERTY FilesAreKept
CHECK_DEADLOCK FALSE
