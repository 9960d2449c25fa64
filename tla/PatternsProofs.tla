-------------------------- MODULE PatternsProofs --------------------------
(***************************************************************************)
(* What matching guarantees for names and patterns of every length.        *)
(***************************************************************************)
EXTENDS Checks, SequenceTheorems, FiniteSetTheorems, WellFoundedInduction, TLAPS

\* Normalising keeps a path a path, segment by segment.
LEMMA NormalizeSegments ==
  ASSUME NEW path \in Path
  PROVE  /\ normalize(path) \in Path
         /\ Len(normalize(path)) = Len(path)
         /\ \A i \in 1..Len(path) : normalize(path)[i] = Lower[path[i]]
<1>1. \A i \in 1..Len(path) : Lower[path[i]] \in Name
  BY NamesAssumption DEF Path
<1>2. Len(path) \in Nat
  BY DEF Path
<1>3. normalize(path) \in Path
  BY <1>1, <1>2 DEF normalize, Path
<1>4. Len(normalize(path)) = Len(path)
  BY <1>2 DEF normalize
<1> QED
  BY <1>3, <1>4 DEF normalize

\* What a valid pattern is made of is already normalised at its head.
LEMMA PatternHead ==
  ASSUME NEW path \in Path, IsPattern(path)
  PROVE  /\ Len(path) >= 1
         /\ path[1] \in Name
         /\ path[1] # WILDCARD_SEGMENT
         /\ Lower[path[1]] = path[1]
<1>1. Len(path) >= 1
  BY DEF IsPattern, IsPatternShape, Path
<1>2. path[1] \in LiteralSegment
  BY <1>1 DEF IsPattern, IsPatternShape, Path
<1> QED
  BY <1>1, <1>2, NamesAssumption DEF IsPattern, IsPatternShape, Path

\* A pattern that opens with a literal covers only names that open with it.
LEMMA CoversHead ==
  ASSUME NEW pattern \in Path, NEW resource \in Path,
         Covers(pattern, resource), pattern[1] # WILDCARD_SEGMENT
  PROVE  resource # <<>> /\ resource[1] = pattern[1]
<1>1. PICK start \in [1..Len(pattern) -> 1..Len(resource)] : Aligns(start, resource, pattern)
  BY DEF Covers
<1>2. 1 \in 1..Len(pattern)
  BY DEF Covers, Path
<1>3. start[1] = 1 /\ resource[start[1]] = pattern[1]
  BY <1>1, <1>2 DEF Aligns
<1>4. 1 \in 1..Len(resource)
  BY <1>1, <1>2, <1>3
<1> QED
  BY <1>3, <1>4 DEF Path

\* The matcher of the code, which normalises both sides first: a workspace is
\* never reached from another one's pattern.
THEOREM MatchKeepsWorkspace ==
  ASSUME NEW pattern \in Path, NEW resource \in Path,
         resource_matches(resource, pattern), Lower[pattern[1]] # WILDCARD_SEGMENT
  PROVE  resource # <<>> /\ Lower[resource[1]] = Lower[pattern[1]]
<1> DEFINE p == normalize(pattern)
           r == normalize(resource)
<1>1. p \in Path /\ Len(p) = Len(pattern) /\ r \in Path /\ Len(r) = Len(resource)
  BY NormalizeSegments
<1>2. Covers(p, r)
  BY DEF resource_matches
<1>3. Len(pattern) >= 1
  BY <1>1, <1>2 DEF Covers, Path
<1>4. p[1] = Lower[pattern[1]]
  BY <1>3, NormalizeSegments
<1>5. r # <<>> /\ r[1] = p[1]
  BY <1>1, <1>2, <1>4, CoversHead
<1>6. Len(resource) >= 1
  BY <1>1, <1>5 DEF Path
<1>7. r[1] = Lower[resource[1]]
  BY <1>6, NormalizeSegments
<1> QED
  BY <1>4, <1>5, <1>6, <1>7

\* Every name is covered by the pattern spelt like it.
THEOREM CoversReflexive ==
  ASSUME NEW path \in Path, path # <<>>
  PROVE  Covers(path, path)
<1> DEFINE start == [i \in 1..Len(path) |-> i]
<1>1. Len(path) \in Nat /\ Len(path) >= 1
  BY DEF Path
<1>2. start \in [1..Len(path) -> 1..Len(path)]
  OBVIOUS
<1>3. Aligns(start, path, path)
  BY <1>1 DEF Aligns
<1> QED
  BY <1>2, <1>3 DEF Covers

\* What a pattern covers through another pattern it covers itself: alignments
\* compose.
THEOREM CoversTransitive ==
  ASSUME NEW outer \in Path, NEW inner \in Path, NEW resource \in Path,
         Covers(outer, inner), Covers(inner, resource)
  PROVE  Covers(outer, resource)
<1>1. PICK s \in [1..Len(outer) -> 1..Len(inner)] : Aligns(s, inner, outer)
  BY DEF Covers
<1>2. PICK t \in [1..Len(inner) -> 1..Len(resource)] : Aligns(t, resource, inner)
  BY DEF Covers
<1> DEFINE u == [i \in 1..Len(outer) |-> t[s[i]]]
<1>3. /\ Len(outer) \in Nat /\ Len(inner) \in Nat /\ Len(resource) \in Nat
      /\ Len(outer) >= 1 /\ Len(inner) >= 1
  BY DEF Covers, Path
<1>4. u \in [1..Len(outer) -> 1..Len(resource)]
  OBVIOUS
<1>5. u[1] = 1
  BY <1>1, <1>2, <1>3 DEF Aligns
<1>6. \A i, j \in 1..Len(outer) : i < j => u[i] < u[j]
  <2> SUFFICES ASSUME NEW i \in 1..Len(outer), NEW j \in 1..Len(outer), i < j
               PROVE  u[i] < u[j]
    OBVIOUS
  <2>1. s[i] < s[j] /\ s[i] \in 1..Len(inner) /\ s[j] \in 1..Len(inner)
    BY <1>1 DEF Aligns
  <2> QED
    BY <1>2, <2>1 DEF Aligns
<1>7. ASSUME NEW i \in 1..Len(outer), outer[i] # WILDCARD_SEGMENT
      PROVE  /\ resource[u[i]] = outer[i]
             /\ (IF i = Len(outer) THEN Len(resource) + 1 ELSE u[i + 1]) = u[i] + 1
  <2> DEFINE m == s[i]
  <2>1. m \in 1..Len(inner) /\ inner[m] = outer[i]
    BY <1>1, <1>7 DEF Aligns
  <2>2. (IF i = Len(outer) THEN Len(inner) + 1 ELSE s[i + 1]) = m + 1
    BY <1>1, <1>7 DEF Aligns
  <2>3. /\ resource[t[m]] = outer[i]
        /\ (IF m = Len(inner) THEN Len(resource) + 1 ELSE t[m + 1]) = t[m] + 1
    BY <1>2, <1>7, <2>1 DEF Aligns
  <2>4. CASE i = Len(outer)
    BY <1>3, <2>1, <2>2, <2>3, <2>4
  <2>5. CASE i # Len(outer)
    <3>1. i + 1 \in 1..Len(outer)
      BY <1>3, <2>5
    <3>2. s[i + 1] = m + 1
      BY <2>2, <2>5
    <3>3. s[i + 1] \in 1..Len(inner)
      BY <3>1
    <3>4. m # Len(inner)
      BY <1>3, <2>1, <3>2, <3>3
    <3>5. u[i + 1] = t[m + 1]
      BY <3>1, <3>2
    <3> QED
      BY <2>3, <2>5, <3>4, <3>5
  <2> QED
    BY <2>4, <2>5
<1>8. Aligns(u, resource, outer)
  BY <1>5, <1>6, <1>7 DEF Aligns
<1> QED
  BY <1>4, <1>8 DEF Covers

\* A pattern that covers a name of one segment is that segment, or the lone `*`.
LEMMA CoversOneSegment ==
  ASSUME NEW p \in Path, NEW q \in Path, Len(q) = 1, Covers(p, q)
  PROVE  Len(p) = 1 /\ p[1] \in {WILDCARD_SEGMENT, q[1]}
<1>1. PICK start \in [1..Len(p) -> 1..Len(q)] : Aligns(start, q, p)
  BY DEF Covers
<1>2. Len(p) \in Nat /\ Len(p) >= 1
  BY DEF Covers, Path
<1>3. \A i \in 1..Len(p) : start[i] = 1
  BY <1>1
<1>4. Len(p) = 1
  <2> SUFFICES ASSUME Len(p) # 1 PROVE FALSE
    OBVIOUS
  <2>1. \A k \in Nat : k >= 1 /\ k # 1 => 1 \in 1..k /\ 2 \in 1..k
    OBVIOUS
  <2>2. 1 \in 1..Len(p) /\ 2 \in 1..Len(p)
    BY <1>2, <2>1
  <2>3. start[1] < start[2]
    BY <1>1, <2>2 DEF Aligns
  <2> QED
    BY <1>3, <2>2, <2>3
<1>5. p[1] # WILDCARD_SEGMENT => q[1] = p[1]
  BY <1>1, <1>2, <1>3 DEF Aligns
<1> QED
  BY <1>4, <1>5

\* What is covered by a workspace's first segment, or by `*`, and then by `*`.
LEMMA CoversWholeWorkspace ==
  ASSUME NEW p \in Path, NEW q \in Path, Len(q) > 1, p[1] \in {WILDCARD_SEGMENT, q[1]},
         (Len(p) = 1 /\ p[1] = WILDCARD_SEGMENT) \/ (Len(p) = 2 /\ p[2] = WILDCARD_SEGMENT)
  PROVE  Covers(p, q)
<1>1. Len(p) \in {1, 2} /\ Len(q) \in Nat /\ p # <<>>
  BY DEF Path
<1> DEFINE start == [i \in 1..Len(p) |-> i]
<1>2. start \in [1..Len(p) -> 1..Len(q)]
  <2>1. \A k \in Nat, l \in {1, 2} : k > 1 => \A i \in 1..l : i \in 1..k
    OBVIOUS
  <2>2. \A i \in 1..Len(p) : i \in 1..Len(q)
    BY <1>1, <2>1, Zenon
  <2> QED
    BY <2>2
<1>3. Aligns(start, q, p)
  BY <1>1 DEF Aligns
<1> QED
  BY <1>1, <1>2, <1>3 DEF Covers

\* Any index that goes wrong comes after a first one.
LEMMA SmallestIndex ==
  ASSUME NEW n \in Nat, NEW S \in SUBSET (1..n), S # {}
  PROVE  \E i \in S : \A j \in S : i <= j
<1> DEFINE R == StrictSubsetOrdering(1..n)
           T == {1..i : i \in S}
<1>1. IsWellFoundedOn(R, FiniteSubsetsOf(1..n))
  BY FS_StrictSubsetOrderingWellFounded
<1>2. \A i \in S : 1..i \in SUBSET (1..n) /\ IsFiniteSet(1..i)
  BY FS_Interval
<1>3. T \subseteq FiniteSubsetsOf(1..n) /\ T # {}
  BY <1>2 DEF FiniteSubsetsOf
<1> HIDE DEF R, T
<1>4. PICK x \in T : \A y \in T : <<y, x>> \notin R
  BY <1>1, <1>3, WFMin
<1>5. PICK i \in S : x = 1..i
  BY <1>4 DEF T
<1>6. ASSUME NEW j \in S, j < i PROVE FALSE
  <2>1. 1..j \in SUBSET (1..n) /\ 1..i \in SUBSET (1..n)
    BY <1>2
  <2>2. 1..j \subseteq 1..i /\ i \in 1..i /\ i \notin 1..j
    BY <1>6
  <2>3. 1..j # 1..i
    BY <2>2
  <2>4. <<1..j, 1..i>> \in R
    BY <2>1, <2>2, <2>3 DEF R, StrictSubsetOrdering
  <2> QED
    BY <1>4, <1>5, <2>4, 1..j \in T DEF T
<1> QED
  BY <1>6

\* A scope, all literal, and then `*`: what is strictly beneath the scope, segment
\* by segment.
LEMMA CoversBeneath ==
  ASSUME NEW s \in Path, s # <<>>, NEW r \in Path,
         \A i \in 1..Len(s) : s[i] # WILDCARD_SEGMENT
  PROVE  Covers(Append(s, WILDCARD_SEGMENT), r) <=>
           Len(r) > Len(s) /\ \A i \in 1..Len(s) : r[i] = s[i]
<1> DEFINE n == Len(s)
           p == Append(s, WILDCARD_SEGMENT)
<1>1. n \in Nat /\ n >= 1 /\ Len(r) \in Nat
  BY DEF Path
<1>2. /\ Len(p) = n + 1 /\ p # <<>> /\ p[n + 1] = WILDCARD_SEGMENT
      /\ \A i \in 1..n : p[i] = s[i]
  BY <1>1, NamesAssumption DEF Path
<1> HIDE DEF n, p
<1>3. ASSUME Covers(p, r)
      PROVE  Len(r) > n /\ \A i \in 1..n : r[i] = s[i]
  <2>1. PICK start \in [1..n + 1 -> 1..Len(r)] : Aligns(start, r, p)
    BY <1>2, <1>3 DEF Covers
  <2>2. start[1] = 1
    BY <2>1 DEF Aligns
  <2>3. \A i \in 1..n : r[start[i]] = s[i] /\ start[i + 1] = start[i] + 1
    <3> SUFFICES ASSUME NEW i \in 1..n PROVE r[start[i]] = s[i] /\ start[i + 1] = start[i] + 1
      OBVIOUS
    <3>1. i \in 1..n + 1 /\ i # n + 1
      BY <1>1
    <3>2. p[i] = s[i] /\ p[i] # WILDCARD_SEGMENT
      BY <1>2 DEF n
    <3> QED
      BY <1>2, <2>1, <3>1, <3>2 DEF Aligns
  <2>4. \A i \in 1..n + 1 : start[i] = i
    <3> DEFINE bad == {i \in 1..n + 1 : start[i] # i}
    <3> SUFFICES ASSUME bad # {} PROVE FALSE
      OBVIOUS
    <3>1. n + 1 \in Nat /\ bad \in SUBSET (1..n + 1)
      BY <1>1
    <3>2. PICK i \in bad : \A j \in bad : i <= j
      BY <3>1, SmallestIndex
    <3>3. i \in 1..n + 1 /\ i # 1 /\ start[i] # i
      BY <2>2
    <3>4. i - 1 \in 1..n /\ i - 1 \in 1..n + 1 /\ (i - 1) + 1 = i /\ ~(i <= i - 1)
      BY <1>1, <3>3
    <3>5. start[i - 1] = i - 1
      BY <3>2, <3>4
    <3>6. start[(i - 1) + 1] = start[i - 1] + 1
      BY <2>3, <3>4
    <3> QED
      BY <3>3, <3>4, <3>5, <3>6
  <2>5. n + 1 \in 1..n + 1 /\ start[n + 1] \in 1..Len(r)
    BY <1>1
  <2>6. Len(r) > n
    BY <1>1, <2>4, <2>5
  <2>7. \A i \in 1..n : i \in 1..n + 1
    BY <1>1
  <2> QED
    BY <2>3, <2>4, <2>6, <2>7
<1>4. ASSUME Len(r) > n, \A i \in 1..n : r[i] = s[i]
      PROVE  Covers(p, r)
  <2> DEFINE start == [i \in 1..n + 1 |-> i]
  <2>1. start \in [1..Len(p) -> 1..Len(r)]
    BY <1>1, <1>2, <1>4
  <2>2. start[1] = 1 /\ \A i, j \in 1..n + 1 : i < j => start[i] < start[j]
    BY <1>1
  <2>3. ASSUME NEW i \in 1..n + 1, p[i] # WILDCARD_SEGMENT
        PROVE  /\ r[start[i]] = p[i]
               /\ (IF i = n + 1 THEN Len(r) + 1 ELSE start[i + 1]) = start[i] + 1
    <3>1. i # n + 1 /\ i \in 1..n /\ i + 1 \in 1..n + 1
      BY <1>1, <1>2, <2>3
    <3> QED
      BY <1>2, <1>4, <3>1
  <2> HIDE DEF start
  <2>4. Aligns(start, r, p)
    BY <1>2, <2>2, <2>3 DEF Aligns
  <2> QED
    BY <1>2, <2>1, <2>4 DEF Covers
<1> QED
  BY <1>3, <1>4 DEF n, p

\* Normalising twice is normalising once.
LEMMA NormalizeTwice ==
  ASSUME NEW path \in Path
  PROVE  normalize(normalize(path)) = normalize(path)
<1> DEFINE p == normalize(path)
<1>1. p \in Path /\ Len(p) = Len(path) /\ Len(path) \in Nat
      /\ \A i \in 1..Len(path) : p[i] = Lower[path[i]] /\ path[i] \in Name
  BY NormalizeSegments DEF Path
<1>2. normalize(p) \in Path /\ Len(normalize(p)) = Len(p)
      /\ \A i \in 1..Len(p) : normalize(p)[i] = Lower[p[i]]
  BY <1>1, NormalizeSegments
<1>3. \A i \in 1..Len(path) : normalize(p)[i] = p[i]
  BY <1>1, <1>2, NamesAssumption
<1>4. normalize(p) \in Seq(Name) /\ p \in Seq(Name)
  BY <1>1, <1>2 DEF Path
<1> HIDE DEF p
<1>5. normalize(p) = p
  BY <1>1, <1>2, <1>3, <1>4, SeqEqual
<1> QED
  BY <1>5 DEF p

LEMMA NormalizeWhole ==
  ASSUME NEW w \in Name
  PROVE  /\ WholeWorkspace(w) \in Path /\ Len(WholeWorkspace(w)) = 2
         /\ WholeWorkspace(w)[1] = w /\ WholeWorkspace(w)[2] = WILDCARD_SEGMENT
         /\ normalize(WholeWorkspace(w)) = WholeWorkspace(Lower[w])
<1> DEFINE p == WholeWorkspace(w)
<1>1. p \in Path /\ Len(p) = 2 /\ p[1] = w /\ p[2] = WILDCARD_SEGMENT
  BY NamesAssumption DEF WholeWorkspace, Path
<1> HIDE DEF p
<1>2. /\ normalize(p) \in Path /\ Len(normalize(p)) = 2
      /\ normalize(p)[1] = Lower[w] /\ normalize(p)[2] = WILDCARD_SEGMENT
  BY <1>1, NormalizeSegments, NamesAssumption
<1>3. normalize(p) = WholeWorkspace(Lower[w])
  BY <1>2 DEF WholeWorkspace, Path
<1> QED
  BY <1>1, <1>3 DEF p

\* The code normalises a name wherever one comes in, and it makes no difference to
\* what matches it, or to whether it is the engine's own.
LEMMA MatchNormalized ==
  ASSUME NEW path \in Path
  PROVE  /\ \A pattern : resource_matches(normalize(path), pattern)
                           <=> resource_matches(path, pattern)
         /\ is_engine_private(normalize(path)) <=> is_engine_private(path)
<1>1. \A pattern : resource_matches(normalize(path), pattern)
                     <=> resource_matches(path, pattern)
  BY NormalizeTwice DEF resource_matches
<1>2. Len(normalize(path)) = Len(path) /\ \A i \in 1..Len(path) :
        Lower[normalize(path)[i]] = Lower[path[i]]
  BY NormalizeSegments, NamesAssumption DEF Path
<1> QED
  BY <1>1, <1>2 DEF is_engine_private

\* Only the whole-workspace pattern covers the whole workspace: to administer it
\* one must hold exactly it.
LEMMA OnlyWholeCoversWhole ==
  ASSUME NEW workspace \in Name, NEW pattern \in Path, IsPattern(pattern),
         pattern[1] = workspace, resource_matches(WholeWorkspace(workspace), pattern)
  PROVE  pattern = WholeWorkspace(workspace)
<1> DEFINE whole == WholeWorkspace(workspace)
           p == normalize(pattern)
           w == normalize(whole)
<1>1. whole \in Path /\ Len(whole) = 2 /\ whole[2] = WILDCARD_SEGMENT
  BY NamesAssumption DEF WholeWorkspace, Path
<1>2. w \in Path /\ Len(w) = 2 /\ w[2] = WILDCARD_SEGMENT
  BY <1>1, NormalizeSegments, NamesAssumption
<1>3. p \in Path /\ Len(p) = Len(pattern) /\ \A i \in 1..Len(pattern) : p[i] = Lower[pattern[i]]
  BY NormalizeSegments
<1>4. \A i \in 1..Len(pattern) : p[i] = pattern[i]
  BY <1>3, NamesAssumption DEF IsPattern, IsPatternShape
<1>5. PICK start \in [1..Len(p) -> 1..Len(w)] : Aligns(start, w, p)
  BY DEF resource_matches, Covers
<1> HIDE DEF p, w
<1>6. Len(p) \in Nat /\ Len(p) >= 1 /\ p[1] # WILDCARD_SEGMENT
  BY <1>3, <1>4, PatternHead DEF Path
<1>7. Len(p) # 1
  <2> SUFFICES ASSUME Len(p) = 1 PROVE FALSE
    OBVIOUS
  <2>1. start[1] = 1 /\ Len(w) + 1 = start[1] + 1
    BY <1>5, <1>6 DEF Aligns
  <2> QED
    BY <1>2, <2>1
<1>8. ~(Len(p) >= 3)
  <2> SUFFICES ASSUME Len(p) >= 3 PROVE FALSE
    OBVIOUS
  <2>1. 1 \in 1..Len(p) /\ 2 \in 1..Len(p) /\ 3 \in 1..Len(p)
    BY <1>6
  <2>2. start[1] < start[2] /\ start[2] < start[3]
    BY <1>5, <2>1 DEF Aligns
  <2>3. \A i \in 1..Len(p) : start[i] \in 1..2
    BY <1>2, <1>5
  <2> QED
    BY <2>1, <2>2, <2>3
<1>9. Len(p) = 2
  <2>1. \A n \in Nat : n >= 1 /\ n # 1 /\ ~(n >= 3) => n = 2
    OBVIOUS
  <2> QED
    BY <1>6, <1>7, <1>8, <2>1
<1>10. p[2] = WILDCARD_SEGMENT
  <2> SUFFICES ASSUME p[2] # WILDCARD_SEGMENT PROVE FALSE
    OBVIOUS
  <2>1. 2 \in 1..Len(p)
    BY <1>9
  <2>2. start[1] = 1 /\ start[1] < start[2] /\ start[2] \in 1..2
    <3>1. 1 \in 1..Len(p)
      BY <1>9
    <3> QED
      BY <1>2, <1>5, <2>1, <3>1 DEF Aligns
  <2>3. start[2] = 2
    BY <2>2
  <2>4. w[start[2]] = p[2]
    BY <1>5, <2>1 DEF Aligns
  <2> QED
    BY <1>2, <2>3, <2>4
<1>11. Len(pattern) = 2 /\ pattern[2] = WILDCARD_SEGMENT
  BY <1>3, <1>4, <1>9, <1>10
<1> QED
  BY <1>11 DEF WholeWorkspace, Path

\* Authority reaches down: whoever may administer a pattern may administer
\* every pattern it covers (bar the engine's own names), so a delegated grant
\* never ends up outside what its giver could have granted directly.
THEOREM AuthorityReachesDown ==
  ASSUME NEW held, \A p \in held : p.pattern \in Path,
         NEW identity, NEW outer \in Path, NEW inner \in Path,
         can_administer_pattern(held, identity, outer),
         resource_matches(inner, outer), inner # <<>>, ~is_engine_private(inner)
  PROVE  can_administer_pattern(held, identity, inner)
<1>1. PICK p \in held : /\ Lower[p.principal] = Lower[identity]
                        /\ action_allowed_for_role(p.role, "GRANT")
                        /\ resource_matches(outer, p.pattern)
  BY DEF can_administer_pattern
<1>2. /\ normalize(p.pattern) \in Path
      /\ normalize(outer) \in Path
      /\ normalize(inner) \in Path
  BY <1>1, NormalizeSegments
<1>3. resource_matches(inner, p.pattern)
  BY <1>1, <1>2, CoversTransitive DEF resource_matches
<1> QED
  BY <1>1, <1>3 DEF can_administer_pattern
===========================================================================
