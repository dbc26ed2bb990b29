SPECIFICATION FairSpec
CONSTANTS
  c1 = c1
  c2 = c2
  c3 = c3
  Calls <- MCCalls
  Mixes <- MCMixes
  PoolSize = 2
  MaxAttempts = 2
  MaxCrashes = 1
CHECK_DEADLOCK FALSE
INVARIANTS
  RevokedForGood
  AnswersStand
PROPERTIES
  CallsEnd
