CONSTANTS
  Threads = {t1, t2, t3}
  Keys = {k1, k2}
  Weight <- MCWeight
  Budget = 3
  Nothing = Nothing
  None = None
  MaxAsks = 1
SPECIFICATION FairSpec
INVARIANTS TypeOK BytesAccounted NothingEncodedTwice LeaderOwnsClosure
PROPERTIES NoBorrowedFailure EveryCallerAnswered
CHECK_DEADLOCK FALSE
