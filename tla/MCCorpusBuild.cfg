CONSTANTS
  i1 = i1
  i2 = i2
  i3 = i3
  x = x
  y = y
  Items <- MCItems
  Bundles <- MCBundles
  Bundle <- MCBundle
  Converters = {c1, c2}
  Uploaders = {u1}
  QueueCap = 1
  UPLOAD_RETRIES = 2
  MaxAttempts = 2
  None = None
SPECIFICATION FairSpec
INVARIANTS TypeOK ManifestHonest EveryItemAccounted
PROPERTIES AttemptEnds
CHECK_DEADLOCK FALSE
