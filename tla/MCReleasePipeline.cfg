SPECIFICATION FairSpec
CONSTANTS
  Workflows <- MCWorkflows
  Watermarked <- MCWatermarked
  models = models
  hubStats = hubStats
  People = people
  Contents = {x, y}
  Initial = x
  MaxCommits = 3
  MaxQueue = 1
  MaxFailures = 1
INVARIANTS TypeOK DatasetIsReleased StallIsFlagged
PROPERTIES NeverRollsBack ClearedMeansReleased RefreshReleased
