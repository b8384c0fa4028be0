SPECIFICATION Spec
CONSTANTS
  Models = {1, 2, 3}
  Orgs = {"lab", "forks"}
  NoOrg = "none"
  PrefixOrg <- MCPrefixOrg
  Names = {leaf}
  NoName = NoName
  leaf = leaf
  Leaf <- MCLeaf
  Labs = {"lab"}
  Snapshots <- MCSnapshots
  Drafts = {3}
  DraftEdges <- MCDraftEdges
  MaxEdits = 1
  MaxSyncs = 1
  MaxEdges = 2
INVARIANTS TypeOK HierarchySound NamesFollowCuration
PROPERTIES ReseedChangesNothing
CHECK_DEADLOCK FALSE
