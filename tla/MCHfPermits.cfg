SPECIFICATION Spec
CONSTANTS
  t1 = t1
  t2 = t2
  k1 = k1
  k2 = k2
  Threads <- MCThreads
  Keys <- MCKeys
  MaxConcurrent = 2
  Budget = 1
  Window = 2
  PositiveTtl = 1
  NegativeTtl = 0
  BreakerThreshold = 2
  BreakerCooldown = 2
  MaxCache = 1
  EvictCount = 1
  LiveEnabled = TRUE
  MaxTime = 4
INVARIANTS SingleFlight BudgetOvershootBounded
PROPERTIES CacheNeverRegresses
SYMMETRY MCSymmetry
