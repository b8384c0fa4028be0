SPECIFICATION FairSpec
CONSTANTS
  t1 = t1
  t2 = t2
  k1 = k1
  k2 = k2
  Threads <- MCThreads
  Keys <- MCKeys
  MaxConcurrent = 1
  Budget = 2
  Window = 2
  PositiveTtl = 2
  NegativeTtl = 1
  BreakerThreshold = 2
  BreakerCooldown = 2
  MaxCache = 1
  EvictCount = 1
  LiveEnabled = TRUE
  MaxTime = 2
INVARIANTS TypeOK LimitsHold
PROPERTIES BreakerNeverShortened CheckReturns
