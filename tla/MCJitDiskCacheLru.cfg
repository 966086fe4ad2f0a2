CONSTANTS
  Keys = {t1, f1, f2}
  Files = {f1, f2}
  RenameErrors = {f1, f2}
  Clients = {c1, c2}
  Budget = 3
  MaxSize = 2
  MaxClock = 5
  None = None
SYMMETRY LanesAndFiles
SPECIFICATION Spec
INVARIANTS TotalIsSum OrderMirrorsEntries RefsAreGuards
PROPERTIES ImplementsLru
CHECK_DEADLOCK FALSE
