\* Every name of up to four segments against every other.
CONSTANTS
  Name <- MCName
  Lower <- MCLower
  WILDCARD_SEGMENT = "*"
  LiteralSegment = {"w", "wc", "information_schema", "public"}
  EnginePrivate = {"$p"}
  RESERVED_WORKSPACES = {"public"}
  INFORMATION_SCHEMA_COLLECTION = "information_schema"
  NotOneIndividual = {"*"}
  Segments = {"W", "wc", "*"}
  Alphabet = {"w", "c", "*", "."}
  Characters <- MCCharacters
  MaxLength = 4
  MaxOuterLength = 2
SPECIFICATION Spec
INVARIANTS MatchIsFnmatch CoverageIsTransitive WholeWorkspaceIsTop LevelIsTheObjectSpoken
