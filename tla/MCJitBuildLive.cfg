CONSTANTS
  Requests = {r1, r2}
  Keys = {k1}
  Entities = {e1}
  KeyOf <- MCKeyOf
  EntityOf <- MCEntityOf
  Permits = 1
  None = None
SPECIFICATION FairSpec
PROPERTIES EveryCallAnswered DetachedBuildEnds
CHECK_DEADLOCK FALSE
