CONSTANTS
  Requests = {r1, r2}
  Paths = {bundle, absent}
  Makes = {bundle}
  InSpace = {bundle}
  None = None
  MaxFaults = 1
SPECIFICATION FairSpec
INVARIANTS TypeOK MissesHaveACause
PROPERTIES RefusalsEnd
