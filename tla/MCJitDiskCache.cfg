CONSTANTS
  Keys = {t1, t2}
  Files = {}
  RenameErrors = {}
  Clients = {c1, c2}
  Budget = 3
  MaxSize = 2
  MaxClock = 5
  None = None
SYMMETRY LanesAndTrees
SPECIFICATION Spec
INVARIANTS TypeOK AccurateWhenQuiet
PROPERTIES PinnedFilesStay
CHECK_DEADLOCK FALSE
