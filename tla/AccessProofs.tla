--------------------------- MODULE AccessProofs ---------------------------
(***************************************************************************)
(* The decisions of Access, for every session and resource: which of the   *)
(* grants everybody holds match what, and the reasons there may be for a   *)
(* decision.                                                               *)
(***************************************************************************)
EXTENDS Access, PatternsProofs

(***************************************************************************)
(* The grants everybody holds, one by one.                                 *)
(***************************************************************************)
Owns(u)     == IF u = Anonymous THEN 0 ELSE 2
Platform(u) == IF Lower[u] \in PLATFORM_IDENTITIES THEN 2 ELSE 0

LEMMA ImplicitGrantsListed ==
  ASSUME NEW u
  PROVE  LET g == implicit_grants(u)
             n == Owns(u)
             m == Owns(u) + Platform(u)
         IN  /\ Len(g) = m + 2
             /\ n = 2 => /\ g[1] = Implicit("owner", PersonalNamespace(u), FALSE)
                         /\ g[2] = Implicit("owner", PersonalNamespace(u), TRUE)
             /\ m = n + 2 => /\ g[n + 1] = Implicit("writer", <<"public">>, TRUE)
                             /\ g[n + 2] = Implicit("writer", <<"samples">>, TRUE)
             /\ g[m + 1] = Implicit("reader", <<"public">>, TRUE)
             /\ g[m + 2] = Implicit("reader", <<"samples">>, TRUE)
<1> DEFINE a == PersonalGrants(u)
           b == IF Lower[u] \in PLATFORM_IDENTITIES THEN SharedGrants("writer") ELSE <<>>
           c == SharedGrants("reader")
<1>1. implicit_grants(u) = a \o b \o c
  BY DEF implicit_grants
<1> DEFINE po == Implicit("owner", PersonalNamespace(u), FALSE)
           pb == Implicit("owner", PersonalNamespace(u), TRUE)
           wp == Implicit("writer", <<"public">>, TRUE)
           ws == Implicit("writer", <<"samples">>, TRUE)
           rp == Implicit("reader", <<"public">>, TRUE)
           rs == Implicit("reader", <<"samples">>, TRUE)
           S == {po, pb, wp, ws, rp, rs}
<1>2. (a = <<>> /\ Owns(u) = 0) \/ (a = <<po, pb>> /\ Owns(u) = 2)
  BY DEF PersonalGrants, Owns
<1>3. (b = <<>> /\ Platform(u) = 0) \/ (b = <<wp, ws>> /\ Platform(u) = 2)
  BY DEF SharedGrants, Platform
<1>4. c = <<rp, rs>>
  BY DEF SharedGrants
<1> HIDE DEF a, b, c, po, pb, wp, ws, rp, rs, S
<1> USE DEF S
<1>5. /\ a \in Seq(S) /\ Len(a) = Owns(u)
      /\ Owns(u) = 2 => a[1] = po /\ a[2] = pb
  <2>1. CASE a = <<>> /\ Owns(u) = 0
    BY <2>1
  <2>2. CASE a = <<po, pb>> /\ Owns(u) = 2
    BY <2>2
  <2> QED
    BY <1>2, <2>1, <2>2
<1>6. /\ b \in Seq(S) /\ Len(b) = Platform(u)
      /\ Platform(u) = 2 => b[1] = wp /\ b[2] = ws
  <2>1. CASE b = <<>> /\ Platform(u) = 0
    BY <2>1
  <2>2. CASE b = <<wp, ws>> /\ Platform(u) = 2
    BY <2>2
  <2> QED
    BY <1>3, <2>1, <2>2
<1>7. c \in Seq(S) /\ Len(c) = 2 /\ c[1] = rp /\ c[2] = rs
  BY <1>4
<1>8. Owns(u) \in {0, 2} /\ Platform(u) \in {0, 2}
  BY <1>2, <1>3
<1> HIDE DEF S
<1> DEFINE ab == a \o b
           g == ab \o c
<1>9. /\ ab \in Seq(S) /\ Len(ab) = Len(a) + Len(b)
      /\ \A i \in 1..Len(a) + Len(b) :
           ab[i] = IF i <= Len(a) THEN a[i] ELSE b[i - Len(a)]
  <2>1. a \in Seq(S) /\ b \in Seq(S)
    BY <1>5, <1>6
  <2> QED
    BY <2>1, ConcatProperties, Zenon
<1> HIDE DEF ab
<1>10. /\ Len(g) = Len(ab) + Len(c)
       /\ \A i \in 1..Len(ab) + Len(c) :
            g[i] = IF i <= Len(ab) THEN ab[i] ELSE c[i - Len(ab)]
  <2>1. ab \in Seq(S) /\ c \in Seq(S)
    BY <1>7, <1>9
  <2> QED
    BY <2>1, ConcatProperties, Zenon
<1>11. g = implicit_grants(u)
  BY <1>1 DEF ab
<1> HIDE DEF g
<1> DEFINE n == Owns(u)
           m == Owns(u) + Platform(u)
<1>12. /\ Len(ab) = m /\ m \in {0, 2, 4} /\ n \in {0, 2} /\ m - n \in {0, 2}
       /\ n = 2 => ab[1] = po /\ ab[2] = pb
       /\ m = n + 2 => ab[n + 1] = wp /\ ab[n + 2] = ws
  BY <1>5, <1>6, <1>8, <1>9
<1>13. /\ Len(g) = m + 2
       /\ \A i \in 1..m : g[i] = ab[i]
       /\ g[m + 1] = rp /\ g[m + 2] = rs
  BY <1>7, <1>10, <1>12
<1>14. /\ n = 2 => g[1] = po /\ g[2] = pb
       /\ m = n + 2 => g[n + 1] = wp /\ g[n + 2] = ws
  BY <1>12, <1>13
<1> QED
  BY <1>11, <1>13, <1>14 DEF po, pb, wp, ws, rp, rs

\* What is in public or samples is told by the first segment.
LEMMA FirstSegment ==
  ASSUME NEW S, NEW p \in Seq(S), Len(p) >= 1, NEW x
  PROVE  SubSeq(p, 1, 1) = <<x>> <=> p[1] = x
<1> DEFINE s == SubSeq(p, 1, 1)
<1>1. s \in Seq(S) /\ Len(s) = 1 /\ s[1] = p[1]
  BY SubSeqProperties
<1> HIDE DEF s
<1>2. s = <<x>> <=> p[1] = x
  BY <1>1
<1> QED
  BY <1>2 DEF s

\* Somebody's own name: personal.<identity>, or anything in it.
Opens(r, path) == Len(r) >= Len(path) /\ SubSeq(normalize(r), 1, Len(path)) = path

InOwnNamespace(u, r) == u # Anonymous /\ Opens(r, PersonalNamespace(u))

LEMMA MatchesPersonal ==
  ASSUME NEW r \in Path, NEW role, NEW path, NEW beneath \in BOOLEAN
  PROVE  matches_implicit(r, Implicit(role, path, beneath)) <=>
           Opens(r, path) /\ (beneath <=> Len(r) > Len(path))
<1> DEFINE g == Implicit(role, path, beneath)
<1>1. Len(normalize(r)) = Len(r)
  BY NormalizeSegments
<1>2. g.pattern = path /\ g.beneath = beneath
  BY DEF Implicit
<1> HIDE DEF g
<1>3. matches_implicit(r, g) <=> Opens(r, path) /\ (beneath <=> Len(r) > Len(path))
  BY <1>1, <1>2 DEF matches_implicit, Opens
<1> QED
  BY <1>3 DEF g

LEMMA MatchesShared ==
  ASSUME NEW r \in Path, Len(r) > 1, NEW role, NEW workspace
  PROVE  matches_implicit(r, Implicit(role, <<workspace>>, TRUE)) <=>
           normalize(r)[1] = workspace
<1> DEFINE p == normalize(r)
           g == Implicit(role, <<workspace>>, TRUE)
<1>1. p \in Path /\ Len(p) = Len(r) /\ Len(r) \in Nat
  BY NormalizeSegments DEF Path
<1>2. g.pattern = <<workspace>> /\ g.beneath = TRUE
  BY DEF Implicit
<1>3. Len(<<workspace>>) = 1
  OBVIOUS
<1> HIDE DEF p, g
<1>4. SubSeq(p, 1, 1) = <<workspace>> <=> p[1] = workspace
  BY <1>1, FirstSegment DEF Path
<1>5. matches_implicit(r, g) <=>
        /\ Len(p) >= 1 /\ SubSeq(p, 1, 1) = <<workspace>> /\ Len(p) > 1
  BY <1>2, <1>3 DEF matches_implicit, p
<1>6. matches_implicit(r, g) <=> p[1] = workspace
  BY <1>1, <1>4, <1>5
<1> QED
  BY <1>6, Zenon DEF p, g

\* One's own namespace is in personal, whatever the identity.
LEMMA OwnIsPersonal ==
  ASSUME NEW u \in Name, NEW r \in Path, InOwnNamespace(u, r)
  PROVE  normalize(r)[1] = "personal"
<1> DEFINE own == PersonalNamespace(u)
           q   == normalize(r)
           segments == SegmentsOf[Lower[u]]
<1>1. Lower[u] \in Name /\ segments \in Path /\ "personal" \in Name
  <2>1. Lower[u] \in Name
    BY NamesAssumption
  <2>2. "personal" \in RESERVED_WORKSPACES
    BY AccessAssumption
  <2> QED
    BY <2>1, <2>2, AccessAssumption, NamesAssumption
<1>2. own \in Seq(Name) /\ Len(own) >= 1 /\ own[1] = "personal"
  <2> HIDE DEF segments
  <2>1. <<"personal">> \o segments \in Seq(Name)
        /\ Len(<<"personal">> \o segments) >= 1 /\ (<<"personal">> \o segments)[1] = "personal"
    BY <1>1 DEF Path
  <2> QED
    BY <2>1 DEF PersonalNamespace, segments
<1>3. q \in Seq(Name) /\ Len(q) = Len(r) /\ Len(r) \in Nat
  BY NormalizeSegments DEF Path
<1>4. Len(own) <= Len(r) /\ SubSeq(q, 1, Len(own)) = own
  BY DEF InOwnNamespace, Opens
<1> HIDE DEF own, q
<1>5. 1 \in 1..Len(own) /\ 1 \in 1..Len(q) + 1 /\ Len(own) \in 0..Len(q)
  BY <1>2, <1>3, <1>4
<1>6. SubSeq(q, 1, Len(own))[1] = q[1]
  BY <1>3, <1>5, SubSeqProperties
<1> QED
  BY <1>2, <1>4, <1>6 DEF q

\* Which implicit grant matches what, by its place in the list.
Placed(u, r, i, n, m) ==
  LET g     == implicit_grants(u)[i]
      match == matches_implicit(r, g)
  IN  \/ /\ n = 2 /\ i = 1 /\ g.role = "owner"
         /\ match <=> InOwnNamespace(u, r) /\ ~(Len(r) > Len(PersonalNamespace(u)))
      \/ /\ n = 2 /\ i = 2 /\ g.role = "owner"
         /\ match <=> InOwnNamespace(u, r) /\ Len(r) > Len(PersonalNamespace(u))
      \/ /\ m = n + 2 /\ i = n + 1 /\ g.role = "writer"
         /\ match <=> normalize(r)[1] = "public"
      \/ /\ m = n + 2 /\ i = n + 2 /\ g.role = "writer"
         /\ match <=> normalize(r)[1] = "samples"
      \/ /\ i = m + 1 /\ g.role = "reader"
         /\ match <=> normalize(r)[1] = "public"
      \/ /\ i = m + 2 /\ g.role = "reader"
         /\ match <=> normalize(r)[1] = "samples"

LEMMA ImplicitMatches ==
  ASSUME NEW u, NEW r \in Path, Len(r) > 1, NEW i \in 1..Len(implicit_grants(u))
  PROVE  Placed(u, r, i, Owns(u), Owns(u) + Platform(u))
<1> DEFINE g == implicit_grants(u)[i]
           n == Owns(u)
           m == Owns(u) + Platform(u)
<1>1. /\ n \in {0, 2} /\ m \in {0, 2, 4} /\ m - n \in {0, 2} /\ i \in 1..(m + 2)
      /\ n = 2 => u # Anonymous
  <2>1. Owns(u) \in {0, 2} /\ (Owns(u) = 2 => u # Anonymous)
    BY DEF Owns
  <2>2. Platform(u) \in {0, 2}
    BY DEF Platform
  <2>3. Len(implicit_grants(u)) = m + 2
    BY ImplicitGrantsListed
  <2> QED
    BY <2>1, <2>2, <2>3
<1> DEFINE match == matches_implicit(r, g)
           own == PersonalNamespace(u)
<1>4. ASSUME n = 2, i = 1
      PROVE  g.role = "owner" /\ (match <=> InOwnNamespace(u, r) /\ ~(Len(r) > Len(own)))
  <2>1. g = Implicit("owner", own, FALSE)
    BY <1>4, ImplicitGrantsListed
  <2>2. matches_implicit(r, Implicit("owner", own, FALSE)) <=>
          Opens(r, own) /\ (FALSE <=> Len(r) > Len(own))
    BY MatchesPersonal, Zenon
  <2>3. match <=> Opens(r, own) /\ (FALSE <=> Len(r) > Len(own))
    BY <2>1, <2>2, Zenon
  <2>4. g.role = "owner"
    BY <2>1 DEF Implicit
  <2> QED
    BY <1>1, <1>4, <2>3, <2>4, Zenon DEF InOwnNamespace
<1>5. ASSUME n = 2, i = 2
      PROVE  g.role = "owner" /\ (match <=> InOwnNamespace(u, r) /\ Len(r) > Len(own))
  <2>1. g = Implicit("owner", own, TRUE)
    BY <1>5, ImplicitGrantsListed
  <2>2. matches_implicit(r, Implicit("owner", own, TRUE)) <=>
          Opens(r, own) /\ (TRUE <=> Len(r) > Len(own))
    BY MatchesPersonal, Zenon
  <2>3. match <=> Opens(r, own) /\ (TRUE <=> Len(r) > Len(own))
    BY <2>1, <2>2, Zenon
  <2>4. g.role = "owner"
    BY <2>1 DEF Implicit
  <2> QED
    BY <1>1, <1>5, <2>3, <2>4, Zenon DEF InOwnNamespace
<1>6. ASSUME m = n + 2, i = n + 1
      PROVE  g.role = "writer" /\ (match <=> normalize(r)[1] = "public")
  <2>1. g = Implicit("writer", <<"public">>, TRUE)
    BY <1>6, ImplicitGrantsListed
  <2>2. g.role = "writer"
    BY <2>1 DEF Implicit
  <2> QED
    BY <2>1, <2>2, MatchesShared, Zenon
<1>7. ASSUME m = n + 2, i = n + 2
      PROVE  g.role = "writer" /\ (match <=> normalize(r)[1] = "samples")
  <2>1. g = Implicit("writer", <<"samples">>, TRUE)
    BY <1>7, ImplicitGrantsListed
  <2>2. g.role = "writer"
    BY <2>1 DEF Implicit
  <2> QED
    BY <2>1, <2>2, MatchesShared, Zenon
<1>8. ASSUME i = m + 1
      PROVE  g.role = "reader" /\ (match <=> normalize(r)[1] = "public")
  <2>1. g = Implicit("reader", <<"public">>, TRUE)
    BY <1>8, ImplicitGrantsListed
  <2>2. g.role = "reader"
    BY <2>1 DEF Implicit
  <2> QED
    BY <2>1, <2>2, MatchesShared, Zenon
<1>9. ASSUME i = m + 2
      PROVE  g.role = "reader" /\ (match <=> normalize(r)[1] = "samples")
  <2>1. g = Implicit("reader", <<"samples">>, TRUE)
    BY <1>9, ImplicitGrantsListed
  <2>2. g.role = "reader"
    BY <2>1 DEF Implicit
  <2> QED
    BY <2>1, <2>2, MatchesShared, Zenon
<1>10. \/ n = 2 /\ i = 1
       \/ n = 2 /\ i = 2
       \/ m = n + 2 /\ i = n + 1
       \/ m = n + 2 /\ i = n + 2
       \/ i = m + 1
       \/ i = m + 2
  BY <1>1
<1> QED
  BY <1>4, <1>5, <1>6, <1>7, <1>8, <1>9, <1>10 DEF Placed

\* The implicit grants that match, as can_perform_action collects them.
Matching(u, r) == {i \in 1..Len(implicit_grants(u)) : matches_implicit(r, implicit_grants(u)[i])}

\* Something matches exactly in public, in samples and in one's own namespace.
LEMMA MatchingIsCapped ==
  ASSUME NEW u, NEW r \in Path, Len(r) > 1
  PROVE  Matching(u, r) # {} <=>
           normalize(r)[1] \in {"public", "samples"} \/ InOwnNamespace(u, r)
<1> DEFINE n == Owns(u)
           m == Owns(u) + Platform(u)
<1>1. n \in {0, 2} /\ m \in {0, 2, 4} /\ (u # Anonymous => n = 2)
  BY DEF Owns, Platform
<1>2. Len(implicit_grants(u)) = m + 2
  BY ImplicitGrantsListed
<1> HIDE DEF n, m
<1>3. ASSUME NEW i \in Matching(u, r)
      PROVE  normalize(r)[1] \in {"public", "samples"} \/ InOwnNamespace(u, r)
  <2>1. i \in 1..Len(implicit_grants(u)) /\ matches_implicit(r, implicit_grants(u)[i])
    BY DEF Matching
  <2> QED
    BY <2>1, ImplicitMatches DEF Placed
<1>4. ASSUME normalize(r)[1] = "public" PROVE Matching(u, r) # {}
  <2>1. m + 1 \in 1..Len(implicit_grants(u))
    BY <1>1, <1>2
  <2>2. implicit_grants(u)[m + 1] = Implicit("reader", <<"public">>, TRUE)
    BY ImplicitGrantsListed DEF m
  <2>3. matches_implicit(r, implicit_grants(u)[m + 1])
    BY <1>4, <2>2, MatchesShared, Zenon
  <2> QED
    BY <2>1, <2>3 DEF Matching
<1>5. ASSUME normalize(r)[1] = "samples" PROVE Matching(u, r) # {}
  <2>1. m + 2 \in 1..Len(implicit_grants(u))
    BY <1>1, <1>2
  <2>2. implicit_grants(u)[m + 2] = Implicit("reader", <<"samples">>, TRUE)
    BY ImplicitGrantsListed DEF m
  <2>3. matches_implicit(r, implicit_grants(u)[m + 2])
    BY <1>5, <2>2, MatchesShared, Zenon
  <2> QED
    BY <2>1, <2>3 DEF Matching
<1>6. ASSUME InOwnNamespace(u, r) PROVE Matching(u, r) # {}
  <2>1. n = 2
    BY <1>1, <1>6 DEF InOwnNamespace
  <2>2. 1 \in 1..Len(implicit_grants(u)) /\ 2 \in 1..Len(implicit_grants(u))
    BY <1>1, <1>2
  <2> DEFINE own == PersonalNamespace(u)
  <2>3. Opens(r, own)
    BY <1>6 DEF InOwnNamespace
  <2>4. \/ matches_implicit(r, implicit_grants(u)[1])
        \/ matches_implicit(r, implicit_grants(u)[2])
    <3>1. /\ implicit_grants(u)[1] = Implicit("owner", own, FALSE)
          /\ implicit_grants(u)[2] = Implicit("owner", own, TRUE)
      BY <2>1, ImplicitGrantsListed DEF n
    <3> HIDE DEF own
    <3>2. CASE ~(Len(r) > Len(own))
      BY <2>3, <3>1, <3>2, MatchesPersonal, Zenon
    <3>3. CASE Len(r) > Len(own)
      BY <2>3, <3>1, <3>3, MatchesPersonal, Zenon
    <3> QED
      BY <3>2, <3>3
  <2> QED
    BY <2>2, <2>4 DEF Matching
<1> QED
  BY <1>3, <1>4, <1>5, <1>6

\* Of two implicit grants that match, the earlier one permits whatever the later does.
LEMMA EarlierIsStronger ==
  ASSUME NEW u, NEW r \in Path, Len(r) > 1,
         NEW i \in Matching(u, r), NEW j \in Matching(u, r), j <= i, NEW action,
         action_allowed_for_role(implicit_grants(u)[i].role, action)
  PROVE  action_allowed_for_role(implicit_grants(u)[j].role, action)
<1>1. /\ i \in 1..Len(implicit_grants(u)) /\ matches_implicit(r, implicit_grants(u)[i])
      /\ j \in 1..Len(implicit_grants(u)) /\ matches_implicit(r, implicit_grants(u)[j])
  BY DEF Matching
<1>2. action_allowed_for_role("reader", action) => action_allowed_for_role("writer", action)
  BY DEF action_allowed_for_role, allowed_roles, WriterDataActions, OwnerDataActions,
         POLICY_ADMINISTRATION_ACTIONS, ROLES
<1>3. action_allowed_for_role("writer", action) => action_allowed_for_role("owner", action)
  BY DEF action_allowed_for_role, allowed_roles, WriterDataActions, OwnerDataActions,
         POLICY_ADMINISTRATION_ACTIONS, ROLES
<1> DEFINE a == implicit_grants(u)[i].role
           b == implicit_grants(u)[j].role
<1>4. \/ a = b
      \/ a = "reader" /\ b = "writer"
      \/ a = "reader" /\ b = "owner"
      \/ a = "writer" /\ b = "owner"
  <2> DEFINE n == Owns(u)
             m == Owns(u) + Platform(u)
  <2>1. n \in {0, 2} /\ m \in {n, n + 2}
    BY DEF Owns, Platform
  <2>2. Placed(u, r, i, n, m) /\ Placed(u, r, j, n, m)
    BY <1>1, ImplicitMatches
  <2> HIDE DEF n, m
  <2>3. i \in Nat /\ j \in Nat
    BY <1>1
  <2>4. \/ a = "owner" /\ i <= n
        \/ a = "writer" /\ i > n /\ i <= m
        \/ a = "reader" /\ i > m
    BY <1>1, <2>1, <2>2, <2>3 DEF Placed
  <2>5. \/ b = "owner" /\ j <= n
        \/ b = "writer" /\ j > n /\ j <= m
        \/ b = "reader" /\ j > m
    BY <1>1, <2>1, <2>2, <2>3 DEF Placed
  <2> QED
    BY <2>1, <2>3, <2>4, <2>5
<1> QED
  BY <1>2, <1>3, <1>4

(***************************************************************************)
(* The three reasons a decision about an object may have.                  *)
(***************************************************************************)
ByEntitlement(entitled, r, action) == \E e \in entitled : entitlement_permits(e, r, action)

ByImplicit(u, r, action) ==
  \E i \in Matching(u, r) : /\ \A j \in Matching(u, r) : i <= j
                            /\ action_allowed_for_role(implicit_grants(u)[i].role, action)

ByIssued(held, r, action) ==
  \E g \in held : /\ action_allowed_for_role(g.role, action)
                  /\ resource_matches(r, g.pattern)

LEMMA ThreeReasons ==
  ASSUME NEW s, NEW r, Len(r) # 1, NEW action
  PROVE  May(s, r, action) <=>
           /\ ~is_engine_private(r)
           /\ \/ ByEntitlement(parse_entitlement_claim(s.entitlements), r, action)
              \/ ByImplicit(s.user, r, action)
              \/ /\ Matching(s.user, r) = {}
                 /\ ByIssued(parse_policy_claim(s.access_policies), r, action)
BY DEF May, can_perform_action, ByEntitlement, ByImplicit, ByIssued, Matching

\* A claim with more in it is read as one that grants more.
LEMMA ParsingGrows ==
  ASSUME NEW a, NEW b, a \subseteq b
  PROVE  /\ parse_policy_claim(a) \subseteq parse_policy_claim(b)
         /\ resolve_entitlements(a) \subseteq resolve_entitlements(b)
<1>1. parse_policy_claim(a) \subseteq parse_policy_claim(b)
  BY DEF parse_policy_claim
<1>2. resolve_entitlements(a) \subseteq resolve_entitlements(b)
  BY DEF resolve_entitlements
<1> QED
  BY <1>1, <1>2

LEMMA TokensGrow ==
  ASSUME NEW s, NEW t, s.user = t.user, s.access_policies \subseteq t.access_policies,
         s.entitlements.names \subseteq t.entitlements.names, NEW action
  PROVE  /\ \A r : May(s, r, action) => May(t, r, action)
         /\ \A w : MayInWorkspace(s, w, action) => MayInWorkspace(t, w, action)
<1>1. /\ parse_policy_claim(s.access_policies) \subseteq parse_policy_claim(t.access_policies)
      /\ parse_entitlement_claim(s.entitlements)
           \subseteq parse_entitlement_claim(t.entitlements)
  BY ParsingGrows DEF parse_entitlement_claim
<1>2. ASSUME NEW r, May(s, r, action) PROVE May(t, r, action)
  <2>1. CASE Len(r) = 1
    BY <1>2, <2>1 DEF May, can_perform_action
  <2>2. CASE Len(r) # 1
    BY <1>1, <1>2, <2>2, ThreeReasons DEF ByEntitlement, ByIssued
  <2> QED
    BY <2>1, <2>2
<1>3. ASSUME NEW w, MayInWorkspace(s, w, action) PROVE MayInWorkspace(t, w, action)
  BY <1>1, <1>3 DEF MayInWorkspace, can_perform_workspace_action
<1> QED
  BY <1>2, <1>3

\* The first of what matches is there to be asked: the list is at most six long.
LEMMA FirstMatch ==
  ASSUME NEW u, NEW r, NEW i \in Matching(u, r)
  PROVE  \E j \in Matching(u, r) : j <= i /\ \A k \in Matching(u, r) : j <= k
<1> DEFINE M == Matching(u, r)
<1>1. Owns(u) + Platform(u) \in {0, 2, 4}
  BY DEF Owns, Platform
<1>2. Len(implicit_grants(u)) \in {2, 4, 6}
  <2>1. Len(implicit_grants(u)) = Owns(u) + Platform(u) + 2
    BY ImplicitGrantsListed
  <2> QED
    BY <1>1, <2>1
<1>3. M \subseteq 1..6
  BY <1>2 DEF Matching
<1> HIDE DEF M
<1>4. M \subseteq {1, 2, 3, 4, 5, 6} /\ i \in M
  BY <1>3 DEF M
<1>5. \E j \in M : \A k \in M : j <= k
  BY <1>4
<1> QED
  BY <1>4, <1>5 DEF M

LEMMA ListedActions ==
  ASSUME NEW role, NEW action, action_allowed_for_role(role, action)
  PROVE  action \in _actions_for(role)
<1>1. role \in allowed_roles(action)
  BY DEF action_allowed_for_role
<1>2. action \in Actions
  BY <1>1 DEF allowed_roles, Actions, DATA_ACTIONS
<1> QED
  BY <1>1, <1>2 DEF _actions_for

\* What a pattern whose `.*` is taken off must be to cover a workspace.
LEMMA CoveredWorkspace ==
  ASSUME NEW pattern \in Path, NEW w \in Name,
         resource_matches(<<w>>, Covered(pattern))
  PROVE  LET p == normalize(pattern) IN
         /\ p[1] \in {WILDCARD_SEGMENT, Lower[w]}
         /\ Len(p) = 1 \/ (Len(p) = 2 /\ p[2] = WILDCARD_SEGMENT)
<1> DEFINE p == normalize(pattern)
           c == Covered(pattern)
           q == normalize(<<w>>)
<1>1. p \in Path /\ Len(p) \in Nat
  BY NormalizeSegments DEF Path
<1>2. q \in Path /\ Len(q) = 1 /\ q[1] = Lower[w]
  <2>1. <<w>> \in Path /\ Len(<<w>>) = 1 /\ <<w>>[1] = w
    BY DEF Path
  <2> QED
    BY <2>1, NormalizeSegments
<1>3. CASE Len(p) > 1 /\ p[Len(p)] = WILDCARD_SEGMENT
  <2>1. c = SubSeq(p, 1, Len(p) - 1)
    BY <1>3 DEF Covered
  <2>2. c \in Path /\ Len(c) = Len(p) - 1 /\ \A i \in 1..Len(p) - 1 : c[i] = p[i]
    <3>1. p \in Seq(Name) /\ 1 \in 1..Len(p) + 1 /\ Len(p) - 1 \in 0..Len(p)
      BY <1>1, <1>3 DEF Path
    <3> HIDE DEF p, c
    <3> QED
      BY <1>1, <1>3, <2>1, <3>1, SubSeqProperties DEF Path
  <2>3. Covers(normalize(c), q)
    BY DEF resource_matches
  <2>4. normalize(c) \in Path /\ Len(normalize(c)) = Len(c)
        /\ \A i \in 1..Len(c) : normalize(c)[i] = Lower[c[i]]
    BY <2>2, NormalizeSegments
  <2>5. Len(normalize(c)) = 1 /\ normalize(c)[1] \in {WILDCARD_SEGMENT, Lower[w]}
    BY <1>2, <2>3, <2>4, CoversOneSegment
  <2>6. Len(p) = 2 /\ c[1] = p[1] /\ normalize(c)[1] = Lower[p[1]]
    <3>1. \A k \in Nat : k - 1 = 1 => k = 2 /\ 1 \in 1..k - 1
      OBVIOUS
    <3>2. Len(c) = 1 /\ Len(p) - 1 = 1
      BY <2>2, <2>4, <2>5
    <3>3. Len(p) = 2 /\ 1 \in 1..Len(p) - 1
      BY <1>1, <3>1, <3>2, Zenon
    <3>4. 1 \in 1..Len(c)
      BY <3>2
    <3> QED
      BY <2>2, <2>4, <3>3, <3>4
  <2>7. Lower[p[1]] = p[1]
    <3>1. Len(pattern) = 2
      BY <2>6, NormalizeSegments
    <3>2. p[1] = Lower[pattern[1]] /\ pattern[1] \in Name
      BY <3>1, NormalizeSegments DEF Path
    <3> QED
      BY <3>2, NamesAssumption
  <2> QED
    BY <1>3, <2>5, <2>6, <2>7
<1>4. CASE ~(Len(p) > 1 /\ p[Len(p)] = WILDCARD_SEGMENT)
  <2>1. c = p
    BY <1>4 DEF Covered
  <2>2. Covers(p, q)
    BY <2>1, NormalizeTwice DEF resource_matches
  <2> QED
    BY <1>1, <1>2, <2>2, CoversOneSegment
<1> QED
  BY <1>3, <1>4
===========================================================================
