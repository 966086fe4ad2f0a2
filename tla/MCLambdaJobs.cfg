CONSTANTS
  Messages = {m1, m2}
  Forced = {m2}
  Platforms = {1, 2}
  MaxReceive = 2
  None = None
SPECIFICATION Spec
INVARIANTS TypeOK RegistryAgrees MarkersVouch
CHECK_DEADLOCK FALSE
