\* Two grants to one principal at once.
CONSTANTS
  Name <- MCName
  Lower <- MCLower
  WILDCARD_SEGMENT = "*"
  LiteralSegment <- MCLiteral
  EnginePrivate = {"$p"}
  RESERVED_WORKSPACES = {"public"}
  INFORMATION_SCHEMA_COLLECTION = "information_schema"
  NotOneIndividual = {"a*", "*"}
  Caller = {c1, c2}
  Requests <- ClashingRequests
  MaxCalls = 2
  MayAbort = FALSE
  Genesis <- SharedGenesis
  FirstId = 6
  LowerRole <- MCLowerRole
  NoCall = NoCall
  NoPolicy = NoPolicy
  NoRole = NoRole
SPECIFICATION Spec
INVARIANT NoDuplicatePolicy
