\* Two callers found workspaces and use them; no call dies.
CONSTANTS
  Name <- MCName
  Lower <- MCLower
  WILDCARD_SEGMENT = "*"
  LiteralSegment <- MCLiteral
  EnginePrivate = {"$p"}
  RESERVED_WORKSPACES = {"public"}
  INFORMATION_SCHEMA_COLLECTION = "information_schema"
  NotOneIndividual = {"a*", "*"}
  Caller = {c1, c2}
  Requests <- FoundingRequests
  MaxCalls = 3
  MayAbort = FALSE
  Genesis = {}
  FirstId = 1
  LowerRole <- MCLowerRole
  NoCall = NoCall
  NoPolicy = NoPolicy
  NoRole = NoRole
SPECIFICATION FairSpec
INVARIANTS BornOwned
PROPERTIES EveryChangeIsRecorded
