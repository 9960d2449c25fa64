\* A token with a single part: an entitlement name may come without a list around it.
CONSTANTS
  Name <- MCName
  Lower <- MCLower
  WILDCARD_SEGMENT = "*"
  LiteralSegment <- MCLiteral
  EnginePrivate = {"$p"}
  RESERVED_WORKSPACES = {"public", "personal", "samples"}
  INFORMATION_SCHEMA_COLLECTION = "information_schema"
  NotOneIndividual = {"", "*"}
  Anonymous = ""
  SegmentsOf <- MCSegmentsOf
  PLATFORM_IDENTITIES = {"xb500"}
  ENTITLEMENT_KINDS <- MCKinds
  Identities = {"ALICE", "alice.c", "*", "XB500", ""}
  Claims <- MCClaims
  Issued <- MCIssued
  MaxParts = 1
  Resources <- MCResources
  Workspaces = {"w", "public", "$p"}
  Asked = {"READ", "WRITE", "DROP", "AUTOMATE", "GRANT"}
SPECIFICATION Spec
INVARIANT ListingReportsAll
