CONSTANTS
  Requests = {r1, r2, r3}
  Keys = {k1}
  Entities = {e1}
  KeyOf <- MCKeyOf
  EntityOf <- MCEntityOf
  Permits = 1
  None = None
SPECIFICATION Spec
SYMMETRY Callers
INVARIANTS TypeOK MutualExclusion SharedLock NoWastedBuild
PROPERTIES BuildsAreKeyed
CHECK_DEADLOCK FALSE
