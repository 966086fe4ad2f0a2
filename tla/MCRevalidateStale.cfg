CONSTANTS
  Glbs = {g}
  Deps = {d}
  Builders = {b1}
  None = None
  MaxChanges = 1
  MaxFaults = 0
SPECIFICATION Spec
INVARIANT StaleIsPruned
CHECK_DEADLOCK FALSE
