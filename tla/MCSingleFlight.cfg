CONSTANTS
  Threads = {t1, t2, t3}
  Keys = {k1, k2}
  Values = {v1}
  Default = Default
  None = None
SPECIFICATION FairSpec
INVARIANTS TypeOK OneLeaderPerKey SleepersHaveLeaders
PROPERTIES EveryRunReturns
