SPECIFICATION Spec
CONSTANTS
  t1 = t1
  t2 = t2
  dash = dash
  dot = dot
  dated = dated
  base = base
  Base = Base
  other = other
  hub = hub
  fresh = fresh
  Threads <- MCThreads
  Raws <- MCRaws
  Configs = {}
  Global = global
  Bases <- MCBases
  Slug <- MCSlug
  HfName <- MCHfName
  HitKind <- MCHitKind
  Norm <- MCNorm
  Rewrites <- MCRewrites
  Agrees <- MCAgrees
  Fold <- MCFold
  HubStats = FALSE
  MaxMint = 1
  SeedIds <- MCSeedIds
  SeedAliases <- MCSeedAliases
  PatchRows <- MCPatchRows
  PostIds <- MCPostIds
  MaxBuilds = 2
  MaxRequests = 2
  MaxPatches = 1
  MaxPosts = 1
INVARIANTS TypeOK AliasesAnswer
PROPERTIES ReadersNeverWrite
SYMMETRY MCSymmetry
CHECK_DEADLOCK FALSE
