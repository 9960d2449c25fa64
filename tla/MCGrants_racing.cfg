\* Two callers race over one workspace and may die between any two steps.
CONSTANTS
  Name <- MCName
  Lower <- MCLower
  WILDCARD_SEGMENT = "*"
  LiteralSegment <- MCLiteral
  EnginePrivate = {"$p"}
  RESERVED_WORKSPACES = {"public"}
  INFORMATION_SCHEMA_COLLECTION = "information_schema"
  NotOneIndividual = {"a*", "*"}
  Caller = {c1, c2}
  Requests <- RacingRequests
  MaxCalls = 4
  MayAbort = TRUE
  Genesis <- SharedGenesis
  FirstId = 6
  LowerRole <- MCLowerRole
  NoCall = NoCall
  NoPolicy = NoPolicy
  NoRole = NoRole
SPECIFICATION Spec
SYMMETRY CallerSymmetry
INVARIANTS TypeOK FiledWhereFound AuthorityIsRooted NobodyServesThemselves RevokedStaysRevoked RecordsAreTruthful RecordsInv
