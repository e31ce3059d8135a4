\* Four tables of roots over a base of two levels; callers that keep to files.
SPECIFICATION MountSpec
CONSTANTS
  Paths <- Tree
  TempNames <- Twice
  Contents = {"one"}
  Modes = {"shared", "private"}
  Default = "shared"
  Ops = {"write", "temp", "mkdir", "remove", "rename"}
  Avoids = {"write_directory", "rename_directory", "mkdir_file", "root", "same_name"}
  Specs <- Tables
  Primary = ""
  RootNamed <- At
  Collation <- Order
  Names <- Visible
  Pages = {0, 1, 2, 4}
  MaxInt = 4
VIEW View
INVARIANTS
  VirtualRootAgrees
  PagingIsWhole
PROPERTIES
  OutsideIsKept
  TempNamesResolve
