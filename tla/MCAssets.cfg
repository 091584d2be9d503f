SPECIFICATION Spec
CONSTANTS
  claim1 = claim1
  u = u
  v = v
  basic = basic
  rules = rules
  code = code
  Claims <- MCClaims
  Others = "other"
  MaxRevision = 1
  Requests = {1, 2}
  Assets = {basic, rules, code}
  Depends <- MCDepends
  Grants <- MCGrants
  AssetLimit = 3
  RequestsPerMinute = 1
  Concurrency = 1
  Blocks <- MCBlocks
  MaxBlocks = 4
  Below <- MCBelow
  Unnamed = ""
  Rows <- MCRows
  RowVerdicts = {"PASS"}
  Weight <- MCWeight
  PageWeight = 2
  PackageNames = {"a", "b"}
  LockPlaces <- MCPlaces
  Products <- MCProducts
  Locked = {"harness"}
  MaxVersion = 1
  Sources = {1, 2, 3, 4}
  Compiled <- MCCompiled
  Children <- MCProducts
  Turns <- MCTurns
  TokenLimit = 1
  MaxTokens = 2
  MaxEvents = 5
  Unset = Unset
  Collections = {early, late}
  RunReports <- MCRunReports
  MaxReceipts = 2
  Paths = {"p", "q"}
  Digests = {0, 1}
  Criteria = {"c"}
  Afterwards = {"d"}
  Host = {"c"}
  AcceptanceReports <- MCAcceptanceReports
  Oracles <- MCOracles
  MaxDepth = 2
  Definitions <- MCDefinitions
  Specifications <- MCSpecifications
  Inventories <- MCInventories
  Revisions = {1}
  Trees = {1, 2}
  Files = {"intent", "review"}
  Said = "said"
  Notes <- MCNotes
  NoIntent = NoIntent
  MaxEdits = 2
CHECK_DEADLOCK FALSE
INVARIANTS
  AnsweredAsRetained
  WholeIsOneSnapshot
  ReplayAgrees
  VerdictsStand
  ArchivesAsWritten
  BuiltAsRun
PROPERTIES
  Delivered
