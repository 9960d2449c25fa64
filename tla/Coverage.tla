------------------------------ MODULE Coverage ------------------------------
(***************************************************************************)
(* Every three dotted names, each built up a segment at a time: the        *)
(* matcher of Patterns against fnmatch itself, character by character, and *)
(* what the grant rules rest on.                                           *)
(***************************************************************************)
EXTENDS Patterns

CONSTANTS Segments,        \* the segments names are built from
          Alphabet,        \* the characters names are written in
          Characters,      \* what a segment in lower case is written with
          MaxLength,       \* bound: segments of r and p
          MaxOuterLength   \* bound: segments of q

Spelt == {Lower[n] : n \in Segments}

\* No segment is empty or holds a dot, every `*` is a segment of its own, and
\* nothing is written with the other characters fnmatch gives a meaning to.
ASSUME CoverageAssumption ==
  /\ Segments \subseteq Name
  /\ MaxLength \in Nat /\ MaxOuterLength \in Nat
  /\ {".", WILDCARD_SEGMENT} \subseteq Alphabet /\ Alphabet \cap {"?", "["} = {}
  /\ Characters \in [Spelt -> Seq(Alphabet) \ {<<>>}]
  /\ \A m, n \in Spelt : Characters[m] = Characters[n] => m = n
  /\ WILDCARD_SEGMENT # "."
  /\ \A n \in Spelt : \A i \in 1..Len(Characters[n]) : Characters[n][i] # "."
  /\ \A n \in Spelt \ {WILDCARD_SEGMENT} : \A i \in 1..Len(Characters[n]) :
       Characters[n][i] # WILDCARD_SEGMENT
  /\ WILDCARD_SEGMENT \in Spelt => Characters[WILDCARD_SEGMENT] = <<WILDCARD_SEGMENT>>

(***************************************************************************)
(* The strings the code works on.                                          *)
(***************************************************************************)
Dotted(path) ==
  LET upto[n \in 1..Len(path)] ==
        IF n = 1 THEN Characters[path[1]]
                 ELSE upto[n - 1] \o <<".">> \o Characters[path[n]]
  IN  upto[Len(path)]

\* fnmatch.fnmatchcase: read[j] is how much of the text the first j characters of
\* the glob may stand for.
fnmatchcase(text, glob) ==
  LET read[j \in 0..Len(glob)] ==
        IF j = 0 THEN {0}
        ELSE LET before == read[j - 1] IN
             {k \in 0..Len(text) :
                IF glob[j] = WILDCARD_SEGMENT
                THEN \E i \in before : i <= k
                ELSE k - 1 \in before /\ text[k] = glob[j]}
  IN  Len(text) \in read[Len(glob)]

(***************************************************************************)
(* Names of every shape.                                                   *)
(***************************************************************************)
VARIABLES r, p, q

CoverageTypeOK == r \in Seq(Segments) /\ p \in Seq(Segments) /\ q \in Seq(Segments)

Init == r = <<>> /\ p = <<>> /\ q = <<>>

LengthenR == \E n \in Segments : Len(r) < MaxLength /\ r' = Append(r, n) /\ UNCHANGED <<p, q>>
LengthenP == \E n \in Segments : Len(p) < MaxLength /\ p' = Append(p, n) /\ UNCHANGED <<r, q>>
LengthenQ == \E n \in Segments : Len(q) < MaxOuterLength /\ q' = Append(q, n) /\ UNCHANGED <<r, p>>
Complete == Len(r) = MaxLength /\ Len(p) = MaxLength /\ Len(q) = MaxOuterLength
            /\ UNCHANGED <<r, p, q>>

Next == LengthenR \/ LengthenP \/ LengthenQ \/ Complete
Spec == Init /\ [][Next]_<<r, p, q>>

\* The alignment of segments decides what fnmatch decides on the strings
\* (patterns.py, resource_matches).
MatchIsFnmatch ==
  r # <<>> /\ p # <<>> =>
    (resource_matches(r, p) <=> fnmatchcase(Dotted(normalize(r)), Dotted(normalize(p))))

\* A pattern covers whatever a pattern it covers covers: authority over a pattern
\* is authority over all that a grant on it can reach (can_administer_pattern).
CoverageIsTransitive ==
  resource_matches(r, p) /\ resource_matches(p, q) => resource_matches(r, q)

\* `w.*` covers every pattern inside w, and no other pattern covers `w.*`: the
\* last owner of a workspace can be revoked by nobody (grants.py, checks.py).
WholeWorkspaceIsTop ==
  /\ IsPattern(normalize(r)) /\ Len(r) > 1 =>
       resource_matches(r, WholeWorkspace(normalize(r)[1]))
  /\ \A w \in Spelt :
       IsPattern(normalize(p)) /\ resource_matches(WholeWorkspace(w), p) =>
         normalize(p) = WholeWorkspace(w)

\* The level of a pattern is the level of the one object it is spoken of as: its
\* literal segments, at most a dataset's, with at most the object's own `.*`.
LevelIsTheObjectSpoken ==
  IsPattern(normalize(p)) =>
    LET literals == {i \in 1..Len(p) : is_literal_segment(normalize(p)[i])}
        depth    == CHOOSE i \in literals : \A j \in literals : j <= i
        starred  == Len(p) = depth + 1
    IN  pattern_level(p) =
          IF literals # 1..depth \/ Len(p) > depth + 1 THEN "none"
          ELSE CASE depth = 1 -> "workspace"
                 [] depth = 2 -> "collection"
                 [] depth = 3 /\ ~starred -> "dataset"
                 [] OTHER -> "none"
=============================================================================
