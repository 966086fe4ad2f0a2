CONSTANTS
  Glbs = {g}
  Deps = {d}
  Builders = {b1}
  None = None
  MaxChanges = 1
  MaxFaults = 1
SPECIFICATION FairSpec
INVARIANTS TypeOK StaleIsRemembered SourcesNotBehind
PROPERTIES RevalidationHeals
CHECK_DEADLOCK FALSE
