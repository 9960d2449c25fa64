\* Two threads of a process whose configuration names another database, and back.
CONSTANTS
  Name <- DatabaseNames
  Lower <- DatabaseLower
  WILDCARD_SEGMENT = "*"
  LiteralSegment = {"w", "v", "c", "public", "personal", "samples", "information_schema"}
  EnginePrivate = {"$p"}
  RESERVED_WORKSPACES = {"public", "personal", "samples"}
  INFORMATION_SCHEMA_COLLECTION = "information_schema"
  NotOneIndividual = {"a*", "*"}
  Caller = {c1, c2}
  Requests <- SwitchingRequests
  MaxCalls = 3
  MayAbort = FALSE
  Genesis <- FirstDatabase
  FirstId = 6
  LowerRole <- MCLowerRole
  NoCall = NoCall
  NoPolicy = NoPolicy
  NoRole = NoRole
  Anonymous = ""
  SegmentsOf <- MCSegmentsOf
  PLATFORM_IDENTITIES = {}
  ENTITLEMENT_KINDS <- NoKinds
  OtherGenesis <- SecondDatabase
  MaxSwitches = 2
  Users <- MCUsers
  Objects <- MCObjects
  Asked = {"WRITE", "DROP"}
SPECIFICATION DatabasesSpec
SYMMETRY CallerSymmetry
INVARIANTS FiledInBoth NothingCrosses RootedSomewhere DatabasesInv FetchPathsAgree
