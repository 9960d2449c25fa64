\* One session at a time; a statement may die between any two steps,
\* and the compactor may move in the middle of one.
CONSTANTS
  Name <- MCName
  Lower <- MCLower
  WILDCARD_SEGMENT = "*"
  LiteralSegment = {"w", "c", "d", "public", "personal", "samples", "information_schema"}
  EnginePrivate = {"$p"}
  RESERVED_WORKSPACES = {"public", "personal", "samples"}
  INFORMATION_SCHEMA_COLLECTION = "information_schema"
  NotOneIndividual = {"", "*"}
  Caller = {c1}
  Requests = {}
  MaxCalls = 4
  MayAbort = TRUE
  Genesis <- MCGenesis
  FirstId = 4
  LowerRole <- MCLowerRole
  NoCall = NoCall
  NoPolicy = NoPolicy
  NoRole = NoRole
  Statements <- MCStatements
  Settings <- MCSettings
  Anonymous = ""
  SegmentsOf <- MCSegmentsOf
  PLATFORM_IDENTITIES = {"federator", "xb500"}
  ENTITLEMENT_KINDS <- NoKinds
  COMPACTION_IDENTITY <- MCCompaction
  Users <- MCUsers
  Objects <- MCObjects
  Asked = {"READ", "WRITE", "DROP"}
  NoSetting = NoSetting
SPECIFICATION CapabilitySpec
INVARIANTS SettingsInv PlatformAccessIsTheSetting SettingTakesEffect MaintenanceIsIdempotent ReportedMaintenanceIsAccess EffectiveIsTheTruth ListingsAgree OffboardingIsWarned
