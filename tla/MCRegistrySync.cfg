SPECIFICATION Spec
CONSTANTS
  lower = lower
  cased = cased
  bench = bench
  widget = widget
  Widget = Widget
  math = math
  c1 = c1
  c2 = c2
  Raws <- MCRaws
  Configs <- MCConfigs
  Global = global
  Bases <- MCBases
  Slug <- MCSlug
  HfName <- MCHfName
  HitKind <- MCHitKind
  Norm <- MCNorm
  Rewrites <- MCRewrites
  Agrees = {}
  Fold <- MCFold
  MaxMint = 1
  Records <- MCRecords
  Reruns = {TRUE, FALSE}
  SeedIds <- MCSeedIds
  SeedAliases <- MCSeedAliases
  HubStats = TRUE
  MaxRuns = 2
  MaxRecords = 2
INVARIANTS TypeOK RegistryWhole CachesAgree
PROPERTIES NeverSilentlyRepointed
SYMMETRY MCSymmetry
CHECK_DEADLOCK FALSE
