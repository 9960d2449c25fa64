\* One caller at a time, no failures: the operations as they are documented.
CONSTANTS
  Name <- MCName
  Lower <- MCLower
  WILDCARD_SEGMENT = "*"
  LiteralSegment <- MCLiteral
  EnginePrivate = {"$p"}
  RESERVED_WORKSPACES = {"public"}
  INFORMATION_SCHEMA_COLLECTION = "information_schema"
  NotOneIndividual = {"a*", "*"}
  Caller = {c1}
  Requests <- SerialRequests
  MaxCalls = 6
  MayAbort = FALSE
  Genesis <- SerialGenesis
  FirstId = 3
  LowerRole <- MCLowerRole
  NoCall = NoCall
  NoPolicy = NoPolicy
  NoRole = NoRole
SPECIFICATION Spec
INVARIANTS NoDuplicatePolicy TrailIsExact FoundedOnce EditsAreGoverned
PROPERTIES OwnerRemains RevokeIsExact ImplementsAccessList
