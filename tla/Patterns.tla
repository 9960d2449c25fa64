----------------------------- MODULE Patterns -----------------------------
(***************************************************************************)
(* Resource patterns (patterns.py): what one may look like and what it     *)
(* covers.  A dotted name is the sequence of its segments.  A segment, an  *)
(* identity and a workspace are all Names *as spelt*: the same name in two *)
(* casings is two Names with one Lower.  Blanks around a written name are  *)
(* one more spelling of it; glob classes, which no usable name contains,   *)
(* are left out.                                                           *)
(***************************************************************************)
EXTENDS Naturals, Sequences

CONSTANTS
  Name,                         \* every spelling of every segment and identity
  Lower,                        \* str.strip().lower() on a Name
  WILDCARD_SEGMENT,             \* "*"
  LiteralSegment,               \* Names the literal-segment regexp accepts
  EnginePrivate,                \* Names that start with "$"
  RESERVED_WORKSPACES,          \* public, personal, samples
  INFORMATION_SCHEMA_COLLECTION,
  NotOneIndividual              \* empty, or holding a glob character

ASSUME NamesAssumption ==
  /\ Lower \in [Name -> Name]
  /\ \A n \in Name : Lower[Lower[n]] = Lower[n]
  /\ WILDCARD_SEGMENT \in Name /\ Lower[WILDCARD_SEGMENT] = WILDCARD_SEGMENT
  /\ LiteralSegment \subseteq Name \ {WILDCARD_SEGMENT}
  /\ \A n \in LiteralSegment : Lower[n] = n
  /\ EnginePrivate \subseteq Name \ LiteralSegment
  /\ \A n \in Name : n \in EnginePrivate <=> Lower[n] \in EnginePrivate
  /\ WILDCARD_SEGMENT \notin EnginePrivate
  /\ RESERVED_WORKSPACES \subseteq LiteralSegment
  /\ INFORMATION_SCHEMA_COLLECTION \in LiteralSegment

Path == Seq(Name)   \* a dotted name; <<>> stands for the empty string

\* normalize, on a dotted name; on a single Name it is Lower itself.
normalize(path) == [i \in 1..Len(path) |-> Lower[path[i]]]

\* Slip: `*` stands for one segment.
AlignsOneForOne(start, resource, pattern) ==
  /\ Len(resource) = Len(pattern)
  /\ \A i \in 1..Len(pattern) : start[i] = i /\ pattern[i] \in {WILDCARD_SEGMENT, resource[i]}

\* Slip: a `*` in the resource matches too.
AlignsEitherWay(start, resource, pattern) ==
  LET Next(i) == IF i = Len(pattern) THEN Len(resource) + 1 ELSE start[i + 1]
  IN  /\ start[1] = 1
      /\ \A i, j \in 1..Len(pattern) : i < j => start[i] < start[j]
      /\ \A i \in 1..Len(pattern) :
           pattern[i] # WILDCARD_SEGMENT =>
             resource[start[i]] \in {pattern[i], WILDCARD_SEGMENT} /\ Next(i) = start[i] + 1

\* Slip: what follows the last literal segment is ignored.
AlignsPrefix(start, resource, pattern) ==
  /\ \A i \in 1..Len(pattern) :
       /\ start[i] = i
       /\ pattern[i] \in {WILDCARD_SEGMENT, resource[i]}

(***************************************************************************)
(* fnmatch of dotted names.  Every `*` in a usable pattern is a whole      *)
(* segment, so it stands for one or more whole segments and crosses dots;  *)
(* start[i] is where segment i of the pattern begins in the resource.      *)
(***************************************************************************)
Aligns(start, resource, pattern) ==
  LET Next(i) == IF i = Len(pattern) THEN Len(resource) + 1 ELSE start[i + 1]
  IN  /\ start[1] = 1
      /\ \A i, j \in 1..Len(pattern) : i < j => start[i] < start[j]
      /\ \A i \in 1..Len(pattern) :
           pattern[i] # WILDCARD_SEGMENT =>
             resource[start[i]] = pattern[i] /\ Next(i) = start[i] + 1

Covers(pattern, resource) ==
  /\ pattern # <<>>
  /\ \E start \in [1..Len(pattern) -> 1..Len(resource)] :
       Aligns(start, resource, pattern)

\* Both sides are normalised before they are compared.
resource_matches(resource, pattern) == Covers(normalize(pattern), normalize(resource))

\* A `$` in any position keeps a name out of reach of every grant.
is_engine_private(path) == \E i \in 1..Len(path) : Lower[path[i]] \in EnginePrivate

\* validate_principal and the pattern validators, on normalised values: TRUE
\* where the code returns, FALSE where it raises InvalidPatternError.
IsPrincipal(identity) == identity \notin NotOneIndividual

IsPatternShape(path) ==
  /\ path # <<>>
  /\ ~is_engine_private(path)
  /\ \A i \in 1..Len(path) : path[i] \in LiteralSegment \union {WILDCARD_SEGMENT}
  /\ path[1] # WILDCARD_SEGMENT
  /\ Len(path) > 1 => path[2] # INFORMATION_SCHEMA_COLLECTION

IsPattern(path) == IsPatternShape(path) /\ path[1] \notin RESERVED_WORKSPACES

is_literal_segment(segment) == segment # WILDCARD_SEGMENT

\* Slip: only the last segment is looked at.
LevelByLength(path) ==
  LET p == normalize(path) IN
  CASE Len(p) = 1                                   -> "workspace"
    [] Len(p) = 2 /\ ~is_literal_segment(p[2])      -> "workspace"
    [] Len(p) = 2 /\ is_literal_segment(p[2])       -> "collection"
    [] Len(p) >= 3 /\ ~is_literal_segment(p[Len(p)]) -> "collection"
    [] OTHER                                        -> "dataset"

\* The object level a pattern addresses, as the SQL surface speaks of it (of a
\* pattern that validated, so no segment of it is empty).
pattern_level(path) ==
  LET p == normalize(path) IN
  CASE ~is_literal_segment(p[1])                              -> "none"
    [] Len(p) = 1                                             -> "workspace"
    [] Len(p) = 2 /\ ~is_literal_segment(p[2])                -> "workspace"
    [] Len(p) = 2 /\ is_literal_segment(p[2])                 -> "collection"
    [] Len(p) = 3 /\ is_literal_segment(p[2])
                  /\ ~is_literal_segment(p[3])                -> "collection"
    [] Len(p) = 3 /\ is_literal_segment(p[2])
                  /\ is_literal_segment(p[3])                 -> "dataset"
    [] OTHER                                                  -> "none"

\* The pattern a whole workspace is granted at.
WholeWorkspace(workspace) == <<workspace, WILDCARD_SEGMENT>>
===========================================================================
