SPECIFICATION Spec
CONSTANTS
  None = "none"
  Forms <- MCForms
  Orgs <- MCOrgs
  Relations = {"variant"}
  Before <- MCBefore
  Norm <- MCNorm
  Names <- MCNames
  Sig <- MCSig
  Sigs <- MCSigs
  Developer <- MCDeveloper
  NameOrg <- MCNameOrg
  Slashed <- MCSlashed
  Cased <- MCCased
  LastPart <- MCLastPart
  Title <- MCTitle
  Spelled <- MCSpelled
  Slug <- MCSlug
  Minted <- MCMinted
  Qualified <- MCMinted
  LeafForms <- MCLeafForms
  Lineage <- MCLineage
  OrKey <- MCOrKey
  AuthorOf <- MCAuthorOf
  FamilyOrg <- MCFamilyOrg
  Unmapped = {}
  KnownOrgs = {"acme", "gamma"}
  KeepsName <- MCKeepsName
  Junk = {}
  OracleIds = {"Gamma/WX", "Gamma/VX"}
  NonLineage = {}
  Days <- MCDays
  Heads <- MCHeads
  Families = {"acme/x"}
  Oracle <- MCOracle
  HubStats <- MCHubStats
  Tier3 <- MCTier3
  Enrichments <- MCEnrichments
  Twin <- MCTwin
  TwinExt <- MCTwinExt
  Glued <- MCGlued
  Unbranded <- MCUnbranded
  Size <- MCSize
  Lower <- MCLower
  Hosts = {"hostx/y2"}
  CanonOrg <- MCCanonOrg
  MaxDays = 2
  MaxTurns = 1
CHECK_DEADLOCK FALSE
INVARIANTS TypeOK Settles OneOwner EdgesLand
PROPERTIES FormsKept StableIds
