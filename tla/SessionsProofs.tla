-------------------------- MODULE SessionsProofs --------------------------
(***************************************************************************)
(* What may be expected of the decisions about data, for every token and   *)
(* every resource: the properties of Sessions, proved.                     *)
(***************************************************************************)
EXTENDS Sessions, AccessProofs

(***************************************************************************)
(* What the token and the resources are.                                   *)
(***************************************************************************)
\* The token is one the entries and names there are can make up: what the lemmas below
\* suppose of it.
LEMMA TokenTypeCorrect == Spec => []SessionsTypeOK
<1>1. Init => SessionsTypeOK
  BY DEF Init, SessionsTypeOK, NoEntitlements, EntitlementClaim
<1>2. SessionsTypeOK /\ [Next]_vars => SessionsTypeOK'
  <2> SUFFICES ASSUME SessionsTypeOK, [Next]_vars PROVE SessionsTypeOK'
    OBVIOUS
  <2>1. CASE AddEntry
    BY <2>1 DEF SessionsTypeOK, AddEntry
  <2>2. CASE AddName
    <3>1. PICK n \in Issued \ entitlements.names, wrapped \in BOOLEAN :
            /\ wrapped \/ entitlements = NoEntitlements
            /\ entitlements' = [wrapped |-> wrapped, names |-> entitlements.names \union {n}]
      BY <2>2 DEF AddName
    <3>2. /\ n \in Named /\ entitlements'.wrapped = wrapped
          /\ entitlements'.names = entitlements.names \union {n}
          /\ entitlements.names \subseteq Named
      BY <3>1, SessionsAssumption DEF SessionsTypeOK
    <3>3. entitlements' \in [wrapped : BOOLEAN, names : SUBSET Named]
      BY <3>1, <3>2
    <3>4. entitlements'.wrapped \/ entitlements'.names = {n}
      BY <3>1, <3>2 DEF NoEntitlements
    <3>5. entitlements' \in EntitlementClaim
      BY <3>2, <3>3, <3>4 DEF EntitlementClaim
    <3> QED
      BY <2>2, <3>1, <3>2, <3>5 DEF SessionsTypeOK, AddName
  <2>3. CASE UNCHANGED vars
    BY <2>3 DEF SessionsTypeOK, vars
  <2> QED
    BY <2>1, <2>2, <2>3 DEF Next, Complete
<1> QED
  BY <1>1, <1>2, PTL DEF Spec

LEMMA TokenTypes ==
  ASSUME SessionsTypeOK
  PROVE  /\ user \in Name
         /\ \A e \in access_policies : e \in Claimed
         /\ \A g \in parse_policy_claim(access_policies) : g.pattern \in Path \ {<<>>}
         /\ \A n \in entitlements.names : n \in Named
<1>1. /\ user \in Name
      /\ \A e \in access_policies : e \in Claimed
      /\ \A n \in entitlements.names : n \in Named
  BY SessionsAssumption DEF SessionsTypeOK
<1>2. ASSUME NEW g \in parse_policy_claim(access_policies)
      PROVE  g.pattern \in Path \ {<<>>}
  <2>1. PICK e \in access_policies :
          e.pattern # <<>> /\ g = [role |-> e.role, pattern |-> e.pattern]
    BY DEF parse_policy_claim
  <2>2. e.pattern \in Path /\ g.pattern = e.pattern
    BY <1>1, <2>1 DEF Claimed
  <2> QED
    BY <2>1, <2>2
<1> QED
  BY <1>1, <1>2

LEMMA ObjectSegments ==
  ASSUME NEW r \in Objects
  PROVE  /\ r \in Path /\ Len(r) \in Nat /\ Len(r) > 1 /\ Len(r) # 1
         /\ normalize(r) \in Path /\ Len(normalize(r)) = Len(r)
         /\ normalize(r)[1] = Lower[r[1]]
<1>1. r \in Path /\ Len(r) > 1 /\ Len(r) \in Nat
  BY SessionsAssumption DEF Objects, Path
<1>2. 1 \in 1..Len(r) /\ Len(r) # 1
  <2>1. \A k \in Nat : k > 1 => 1 \in 1..k /\ k # 1
    OBVIOUS
  <2> QED
    BY <1>1, <2>1, Zenon
<1>3. /\ normalize(r) \in Path /\ Len(normalize(r)) = Len(r)
      /\ normalize(r)[1] = Lower[r[1]]
  BY <1>1, <1>2, NormalizeSegments
<1> QED
  BY <1>1, <1>2, <1>3

(***************************************************************************)
(* The caps.                                                               *)
(***************************************************************************)
LEMMA PersonalIsOwn ==
  ASSUME SessionsTypeOK, NEW r \in Path
  PROVE  Personal(r) <=> InOwnNamespace(user, r)
<1> DEFINE path == normalize(r)
           own  == PersonalNamespace(user)
           head == SubSeq(path, 1, Len(own))
<1>1. path \in Seq(Name) /\ Len(path) = Len(r) /\ Len(r) \in Nat
  BY NormalizeSegments DEF Path
<1>2. own \in Seq(Name) /\ Len(own) \in Nat
  <2>1. "personal" \in Name
    BY AccessAssumption, NamesAssumption
  <2>2. SegmentsOf[Lower[user]] \in Seq(Name)
    BY TokenTypes, NamesAssumption, AccessAssumption DEF Path
  <2>3. \A s \in Seq(Name) : <<"personal">> \o s \in Seq(Name)
    BY <2>1
  <2>4. own \in Seq(Name)
    BY <2>2, <2>3 DEF PersonalNamespace
  <2> HIDE DEF own
  <2> QED
    BY <2>4
<1>3. Personal(r) <=>
        user # Anonymous /\ (path = own \/ (Len(path) > Len(own) /\ head = own))
  BY DEF Personal, Beneath
<1>4. InOwnNamespace(user, r) <=> user # Anonymous /\ Len(r) >= Len(own) /\ head = own
  BY DEF InOwnNamespace, Opens
<1> HIDE DEF path, own, head
<1>5. Len(path) = Len(own) => head = path
  <2> SUFFICES ASSUME Len(path) = Len(own) PROVE head = path
    OBVIOUS
  <2>1. 1 \in 1..Len(path) + 1 /\ Len(own) \in 0..Len(path)
    BY <1>1, <1>2
  <2>2. head \in Seq(Name) /\ Len(head) = Len(path) /\ \A i \in 1..Len(path) : head[i] = path[i]
    BY <1>1, <1>2, <2>1, SubSeqProperties DEF head
  <2> QED
    BY <1>1, <2>2, SeqEqual
<1>6. path = own => Len(path) = Len(own)
  OBVIOUS
<1>7. \A k, n \in Nat : k >= n <=> (k > n \/ k = n)
  OBVIOUS
<1> QED
  BY <1>1, <1>2, <1>3, <1>4, <1>5, <1>6, <1>7, Zenon

LEMMA CapDecides ==
  ASSUME SessionsTypeOK, NEW r \in Objects, NEW action, Capped(r)
  PROVE  May(session, r, action) <=> May([session EXCEPT !.access_policies = {}], r, action)
<1> DEFINE bare == [session EXCEPT !.access_policies = {}]
<1>1. r \in Path /\ Len(r) > 1 /\ Len(r) # 1
  BY ObjectSegments
<1>2. Matching(user, r) # {}
  BY <1>1, MatchingIsCapped, PersonalIsOwn DEF Capped
<1>3. /\ session.user = user /\ session.entitlements = entitlements
      /\ bare.user = user /\ bare.entitlements = entitlements
  BY DEF session
<1> HIDE DEF bare
<1>4. May(session, r, action) <=>
        /\ ~is_engine_private(r)
        /\ ByEntitlement(parse_entitlement_claim(entitlements), r, action)
           \/ ByImplicit(user, r, action)
  BY <1>1, <1>2, <1>3, ThreeReasons
<1>5. May(bare, r, action) <=>
        /\ ~is_engine_private(r)
        /\ ByEntitlement(parse_entitlement_claim(entitlements), r, action)
           \/ ByImplicit(user, r, action)
  BY <1>1, <1>2, <1>3, ThreeReasons
<1> QED
  BY <1>4, <1>5 DEF bare

\* What the token says of public, samples or one's own namespace changes nothing
\* there, in either direction: the implicit grant that matches settles it.
THEOREM CapHolds == Spec => []CapIsAbsolute
<1>1. SessionsTypeOK => CapIsAbsolute
  BY CapDecides DEF CapIsAbsolute
<1> QED
  BY <1>1, TokenTypeCorrect, PTL

LEMMA NothingShadowed ==
  ASSUME NEW r \in Objects, NEW action, NEW i \in Matching(user, r),
         action_allowed_for_role(implicit_grants(user)[i].role, action), ~is_engine_private(r)
  PROVE  May(session, r, action)
<1>1. r \in Path /\ Len(r) > 1 /\ Len(r) # 1
  BY ObjectSegments
<1>2. PICK j \in Matching(user, r) : j <= i /\ \A k \in Matching(user, r) : j <= k
  BY FirstMatch
<1>3. action_allowed_for_role(implicit_grants(user)[j].role, action)
  BY <1>1, <1>2, EarlierIsStronger
<1>4. ByImplicit(user, r, action)
  BY <1>2, <1>3 DEF ByImplicit
<1>5. session.user = user
  BY DEF session
<1> QED
  BY <1>1, <1>4, <1>5, ThreeReasons

\* The order the implicit grants stand in never costs anybody anything: what any of
\* them confers, the first that matches confers too.
THEOREM NothingIsShadowed == Spec => []NoImplicitGrantIsShadowed
<1>1. NoImplicitGrantIsShadowed
  BY NothingShadowed DEF NoImplicitGrantIsShadowed, Matching
<1> QED
  BY <1>1, PTL

\* Whatever is added to a token, the session may still do all it could.
THEOREM TokensNeverTakeAway == Spec => TokensOnlyAdd
<1>1. ASSUME [Next]_vars
      PROVE  /\ user' = user /\ access_policies \subseteq access_policies'
             /\ entitlements.names \subseteq entitlements'.names
  BY <1>1 DEF Next, AddEntry, AddName, Complete, vars
<1>2. ASSUME [Next]_vars, NEW action
      PROVE  /\ \A r : May(session, r, action) => May(session', r, action)
             /\ \A w : MayInWorkspace(session, w, action) => MayInWorkspace(session', w, action)
  <2> DEFINE s == session
             t == session'
  <2>1. s.user = t.user /\ s.access_policies \subseteq t.access_policies
        /\ s.entitlements.names \subseteq t.entitlements.names
    BY <1>1, <1>2 DEF session
  <2> HIDE DEF s, t
  <2>2. /\ \A r : May(s, r, action) => May(t, r, action)
        /\ \A w : MayInWorkspace(s, w, action) => MayInWorkspace(t, w, action)
    BY <2>1, TokensGrow
  <2> QED
    BY <2>2 DEF s, t
<1>3. [Next]_vars =>
        [\A action \in Asked :
           /\ \A r \in Resources : May(session, r, action) => May(session, r, action)'
           /\ \A w \in Workspaces :
                MayInWorkspace(session, w, action) => MayInWorkspace(session, w, action)']_vars
  BY <1>2
<1> QED
  BY <1>3, PTL DEF Spec, TokensOnlyAdd

(***************************************************************************)
(* Personal namespaces.                                                    *)
(***************************************************************************)
LEMMA PersonalIsTheOwners ==
  ASSUME SessionsTypeOK, entitlements.names = {},
         \A e \in access_policies : IsPattern(normalize(e.pattern)),
         NEW r \in Objects, NEW action,
         normalize(r)[1] = "personal", May(session, r, action)
  PROVE  InOwnNamespace(user, r) /\ ~is_engine_private(r)
<1>1. /\ r \in Path /\ Len(r) > 1 /\ Len(r) # 1 /\ normalize(r)[1] = Lower[r[1]]
  BY ObjectSegments
<1>2. session.user = user /\ session.access_policies = access_policies
      /\ session.entitlements.names = {}
  BY DEF session
<1>3. ~ByEntitlement(parse_entitlement_claim(session.entitlements), r, action)
  BY <1>2 DEF ByEntitlement, parse_entitlement_claim, resolve_entitlements
<1>4. ASSUME Matching(user, r) # {} PROVE InOwnNamespace(user, r)
  BY <1>1, <1>4, MatchingIsCapped
<1>5. ~ByIssued(parse_policy_claim(access_policies), r, action)
  <2> SUFFICES ASSUME NEW g \in parse_policy_claim(access_policies),
                      resource_matches(r, g.pattern)
               PROVE  FALSE
    BY DEF ByIssued
  <2>1. PICK e \in access_policies : g = [role |-> e.role, pattern |-> e.pattern]
    BY DEF parse_policy_claim
  <2>2. g.pattern \in Path \ {<<>>} /\ IsPattern(normalize(g.pattern))
    BY <2>1, TokenTypes
  <2>3. /\ normalize(g.pattern)[1] # WILDCARD_SEGMENT
        /\ normalize(g.pattern)[1] \notin RESERVED_WORKSPACES
    BY <2>2 DEF IsPattern, IsPatternShape, Path
  <2>4. normalize(g.pattern)[1] = Lower[g.pattern[1]]
    BY <2>2, NormalizeSegments DEF Path
  <2>5. Lower[r[1]] = Lower[g.pattern[1]]
    BY <1>1, <2>2, <2>3, <2>4, MatchKeepsWorkspace
  <2> QED
    BY <1>1, <2>3, <2>4, <2>5, AccessAssumption
<1>6. Matching(user, r) # {} /\ ~is_engine_private(r)
  BY <1>1, <1>2, <1>3, <1>5, ThreeReasons DEF ByImplicit
<1> QED
  BY <1>4, <1>6

LEMMA OwnersDoEverything ==
  ASSUME SessionsTypeOK, NEW r \in Objects, NEW action \in Actions,
         InOwnNamespace(user, r), ~is_engine_private(r)
  PROVE  May(session, r, action)
<1>1. r \in Path /\ Len(r) > 1
  BY ObjectSegments
<1>2. normalize(r)[1] = "personal"
  BY <1>1, TokenTypes, OwnIsPersonal
<1>3. PICK i \in Matching(user, r) : TRUE
  BY <1>1, MatchingIsCapped
<1>4. implicit_grants(user)[i].role = "owner"
  <2>1. i \in 1..Len(implicit_grants(user)) /\ matches_implicit(r, implicit_grants(user)[i])
    BY DEF Matching
  <2> QED
    BY <1>1, <1>2, <2>1, ImplicitMatches DEF Placed
<1>5. action_allowed_for_role("owner", action)
  BY DEF Actions, action_allowed_for_role, allowed_roles, DATA_ACTIONS, ROLES
<1> QED
  BY <1>4, <1>5, NothingShadowed

\* However the identity is spelt, dots and glob characters included, and whatever
\* validated policies there are: what a session may do in personal is everything, in
\* the namespace its identity spells out, and nothing elsewhere.
THEOREM PersonalStaysPersonal == Spec => []PersonalIsPersonal
<1>1. ASSUME SessionsTypeOK, entitlements.names = {},
             \A e \in access_policies : IsPattern(normalize(e.pattern)),
             NEW r \in Objects, NEW action \in Asked, normalize(r)[1] = "personal"
      PROVE  May(session, r, action) <=> Personal(r) /\ ~is_engine_private(r)
  <2>1. Personal(r) <=> InOwnNamespace(user, r)
    BY <1>1, ObjectSegments, PersonalIsOwn
  <2>2. action \in Actions
    BY SessionsAssumption
  <2>3. May(session, r, action) => InOwnNamespace(user, r) /\ ~is_engine_private(r)
    BY <1>1, PersonalIsTheOwners
  <2>4. InOwnNamespace(user, r) /\ ~is_engine_private(r) => May(session, r, action)
    BY <1>1, <2>2, OwnersDoEverything
  <2> QED
    BY <2>1, <2>3, <2>4
<1>2. SessionsTypeOK => PersonalIsPersonal
  BY <1>1 DEF PersonalIsPersonal
<1> QED
  BY <1>2, TokenTypeCorrect, PTL

(***************************************************************************)
(* The listing.                                                            *)
(***************************************************************************)
LEMMA ListedRow ==
  ASSUME NEW r, NEW action,
         \/ ByEntitlement(resolve_entitlements(Iterated(entitlements)), r, action)
         \/ ByImplicit(user, r, action)
         \/ ByIssued(parse_policy_claim(access_policies), r, action)
  PROVE  Explained(r, action)
<1> DEFINE Explains(row) ==
             /\ action \in row.actions
             /\ IF row.source = "implicit" THEN matches_implicit(r, row)
                                           ELSE resource_matches(r, row.pattern)
<1> SUFFICES \E row \in grants(session) : Explains(row)
  BY DEF Explained
<1>1. /\ session.user = user /\ session.access_policies = access_policies
      /\ session.entitlements = entitlements
  BY DEF session
<1>2. CASE ByEntitlement(resolve_entitlements(Iterated(entitlements)), r, action)
  <2>1. PICK e \in resolve_entitlements(Iterated(entitlements)) : entitlement_permits(e, r, action)
    BY <1>2 DEF ByEntitlement
  <2> DEFINE row == Row("entitlement", e.pattern, FALSE, "entitlement", e.actions)
  <2>2. row \in grants(session)
    BY <1>1 DEF grants
  <2>3. /\ row.source = "entitlement" /\ row.pattern = e.pattern /\ row.actions = e.actions
    BY DEF Row
  <2>4. action \in e.actions /\ resource_matches(r, e.pattern)
    BY <2>1 DEF entitlement_permits, _permits
  <2> HIDE DEF row
  <2> QED
    BY <2>2, <2>3, <2>4
<1>3. CASE ByImplicit(user, r, action)
  <2>1. PICK i \in Matching(user, r) :
          action_allowed_for_role(implicit_grants(user)[i].role, action)
    BY <1>3 DEF ByImplicit
  <2> DEFINE g == implicit_grants(user)[i]
             row == Row("implicit", g.pattern, g.beneath, g.role, _actions_for(g.role))
  <2>2. i \in 1..Len(implicit_grants(user)) /\ matches_implicit(r, g)
    BY DEF Matching
  <2>3. row \in grants(session)
    BY <1>1, <2>2 DEF grants
  <2>4. /\ row.source = "implicit" /\ row.pattern = g.pattern /\ row.beneath = g.beneath
        /\ row.actions = _actions_for(g.role)
    BY DEF Row
  <2>5. action \in _actions_for(g.role)
    BY <2>1, ListedActions
  <2> HIDE DEF row, g
  <2>6. matches_implicit(r, row)
    BY <2>2, <2>4 DEF matches_implicit
  <2> QED
    BY <2>3, <2>4, <2>5, <2>6
<1>4. CASE ByIssued(parse_policy_claim(access_policies), r, action)
  <2>1. PICK g \in parse_policy_claim(access_policies) :
          action_allowed_for_role(g.role, action) /\ resource_matches(r, g.pattern)
    BY <1>4 DEF ByIssued
  <2> DEFINE row == Row("issued", g.pattern, FALSE, g.role, _actions_for(g.role))
  <2>2. row \in grants(session)
    BY <1>1 DEF grants
  <2>3. /\ row.source = "issued" /\ row.pattern = g.pattern
        /\ row.actions = _actions_for(g.role)
    BY DEF Row
  <2>4. action \in _actions_for(g.role)
    BY <2>1, ListedActions
  <2> HIDE DEF row
  <2> QED
    BY <2>1, <2>2, <2>3, <2>4
<1> QED
  BY <1>2, <1>3, <1>4

LEMMA UnlistedIsUnwrapped ==
  ASSUME NEW r \in Objects, NEW action, May(session, r, action), ~Explained(r, action)
  PROVE  ~entitlements.wrapped /\ ~May(Bare, r, action)
<1>1. /\ session.user = user /\ session.access_policies = access_policies
      /\ session.entitlements = entitlements
      /\ Bare.user = user /\ Bare.access_policies = access_policies
      /\ Bare.entitlements = NoEntitlements
  BY DEF session, Bare
<1>2. Len(r) # 1
  BY ObjectSegments
<1>3. ~ByImplicit(user, r, action) /\ ~ByIssued(parse_policy_claim(access_policies), r, action)
  BY ListedRow
<1>4. ByEntitlement(parse_entitlement_claim(entitlements), r, action)
  BY <1>1, <1>2, <1>3, ThreeReasons
<1>5. ASSUME entitlements.wrapped PROVE FALSE
  <2>1. parse_entitlement_claim(entitlements) = resolve_entitlements(Iterated(entitlements))
    BY <1>5 DEF parse_entitlement_claim, Iterated
  <2> QED
    BY <1>4, <2>1, ListedRow
<1>6. ~ByEntitlement(parse_entitlement_claim(NoEntitlements), r, action)
  BY DEF ByEntitlement, NoEntitlements, parse_entitlement_claim, resolve_entitlements
<1>7. ~May(Bare, r, action)
  BY <1>1, <1>2, <1>3, <1>6, ThreeReasons
<1> QED
  BY <1>5, <1>7

\* Whatever SHOW GRANTS does not explain is conferred by an entitlement name that came
\* without a list around it; of a claim that is a list it reports all that is enforced.
THEOREM OnlyUnwrappedUnreported == Spec => []OnlyUnwrappedGoesUnreported
<1>1. OnlyUnwrappedGoesUnreported
  BY UnlistedIsUnwrapped DEF OnlyUnwrappedGoesUnreported
<1> QED
  BY <1>1, PTL

(***************************************************************************)
(* Authority over a workspace as an object.                                *)
(***************************************************************************)
LEMMA NoCapElsewhere ==
  ASSUME SessionsTypeOK, NEW r \in Objects, Lower[r[1]] \notin RESERVED_WORKSPACES
  PROVE  Matching(user, r) = {}
<1>1. RESERVED_WORKSPACES = {"public", "personal", "samples"}
  BY AccessAssumption
<1> QED
  BY <1>1, ObjectSegments, TokenTypes, MatchingIsCapped, OwnIsPersonal

\* An entitlement's pattern opens with a literal, ends with `*` and is nobody's own.
LEMMA EntitledPattern ==
  ASSUME SessionsTypeOK, NEW e \in parse_entitlement_claim(entitlements)
  PROVE  /\ e.pattern \in Path /\ ~is_engine_private(e.pattern)
         /\ Len(normalize(e.pattern)) # 1
<1>1. PICK n \in entitlements.names :
        /\ Resolves(n)
        /\ e = [actions |-> ENTITLEMENT_KINDS[Lower[n.kind]], pattern |-> scope_pattern(n.scope)]
  BY DEF parse_entitlement_claim, resolve_entitlements
<1> DEFINE s == normalize(n.scope)
           p == e.pattern
<1>2. p = scope_pattern(n.scope) /\ IsPatternShape(p)
  BY <1>1 DEF Resolves
<1>3. s \in Path /\ Len(s) \in Nat
  <2>1. n.scope \in Path
    BY TokenTypes DEF Named
  <2> QED
    BY <2>1, NormalizeSegments DEF Path
<1>4. p \in Path /\ Len(p) >= 1 /\ p[Len(p)] = WILDCARD_SEGMENT
  <2>1. CASE s # <<>> /\ s[Len(s)] = WILDCARD_SEGMENT
    BY <1>2, <1>3, <2>1 DEF scope_pattern, Path
  <2>2. CASE ~(s # <<>> /\ s[Len(s)] = WILDCARD_SEGMENT)
    <3>1. p = Append(s, WILDCARD_SEGMENT)
      BY <1>2, <2>2 DEF scope_pattern
    <3> HIDE DEF s, p
    <3> QED
      BY <1>3, <3>1, NamesAssumption DEF Path
  <2> QED
    BY <2>1, <2>2
<1>5. p[1] # WILDCARD_SEGMENT /\ ~is_engine_private(p)
  BY <1>2 DEF IsPatternShape
<1>6. Len(p) # 1
  BY <1>4, <1>5
<1> QED
  BY <1>4, <1>5, <1>6, NormalizeSegments

LEMMA WorkspaceReaches ==
  ASSUME SessionsTypeOK, NEW w \in Workspaces, NEW action,
         Lower[w] \notin RESERVED_WORKSPACES, MayInWorkspace(session, w, action),
         ~ \E e \in access_policies : normalize(e.pattern) = <<Lower[w]>>,
         NEW r \in Objects, Lower[r[1]] = Lower[w], ~is_engine_private(r)
  PROVE  May(session, r, action)
<1>1. /\ r \in Path /\ Len(r) > 1 /\ Len(r) # 1
      /\ normalize(r) \in Path /\ Len(normalize(r)) > 1 /\ normalize(r)[1] = Lower[w]
  BY ObjectSegments
<1>2. Matching(user, r) = {} /\ w \in Name
  BY NoCapElsewhere, SessionsAssumption
<1>3. /\ session.user = user /\ session.access_policies = access_policies
      /\ session.entitlements = entitlements
  BY DEF session
<1>4. ASSUME NEW pattern \in Path, resource_matches(<<w>>, Covered(pattern)),
             normalize(pattern) # <<Lower[w]>>
      PROVE  resource_matches(r, pattern)
  <2> DEFINE p == normalize(pattern)
  <2>1. /\ p[1] \in {WILDCARD_SEGMENT, Lower[w]} /\ p \in Path
        /\ Len(p) = 1 \/ (Len(p) = 2 /\ p[2] = WILDCARD_SEGMENT)
    BY <1>2, <1>4, CoveredWorkspace, NormalizeSegments
  <2>2. p # <<Lower[w]>>
    BY <1>4
  <2> HIDE DEF p
  <2>3. (Len(p) = 1 /\ p[1] = WILDCARD_SEGMENT) \/ (Len(p) = 2 /\ p[2] = WILDCARD_SEGMENT)
    BY <2>1, <2>2 DEF Path
  <2>4. Covers(p, normalize(r))
    BY <1>1, <2>1, <2>3, CoversWholeWorkspace
  <2> QED
    BY <2>4 DEF resource_matches, p
<1>5. CASE \E e \in parse_entitlement_claim(entitlements) :
             entitlement_permits_workspace_action(e, w, action)
  <2>1. PICK e \in parse_entitlement_claim(entitlements) :
          entitlement_permits_workspace_action(e, w, action)
    BY <1>5
  <2>2. /\ e.pattern \in Path /\ ~is_engine_private(e.pattern)
        /\ Len(normalize(e.pattern)) # 1
    BY EntitledPattern
  <2>3. normalize(e.pattern) # <<Lower[w]>>
    BY <2>2
  <2>4. /\ action \in ENTITLEABLE_ACTIONS \intersect e.actions
        /\ resource_matches(<<w>>, Covered(e.pattern))
    BY <2>1 DEF entitlement_permits_workspace_action, _permits
  <2>5. resource_matches(r, e.pattern)
    BY <1>4, <2>2, <2>3, <2>4
  <2>6. entitlement_permits(e, r, action)
    BY <2>2, <2>4, <2>5 DEF entitlement_permits, _permits
  <2> QED
    BY <1>1, <1>3, <2>6, ThreeReasons DEF ByEntitlement
<1>6. CASE \E g \in parse_policy_claim(access_policies) :
             /\ action_allowed_for_role(g.role, action)
             /\ resource_matches(<<w>>, Covered(g.pattern))
  <2>1. PICK g \in parse_policy_claim(access_policies) :
          /\ action_allowed_for_role(g.role, action)
          /\ resource_matches(<<w>>, Covered(g.pattern))
    BY <1>6
  <2>2. PICK e \in access_policies : g = [role |-> e.role, pattern |-> e.pattern]
    BY DEF parse_policy_claim
  <2>3. g.pattern \in Path /\ normalize(g.pattern) # <<Lower[w]>>
    BY <2>2, TokenTypes
  <2>4. resource_matches(r, g.pattern)
    BY <1>4, <2>1, <2>3
  <2> QED
    BY <1>1, <1>2, <1>3, <2>1, <2>4, ThreeReasons DEF ByIssued
<1> QED
  BY <1>3, <1>5, <1>6 DEF MayInWorkspace, can_perform_workspace_action

\* What confers an action over a workspace as an object confers it over everything
\* in the workspace, the workspace's bare name excepted.
THEOREM WorkspaceIsAllOfIt == Spec => []WorkspaceActionReachesAll
<1>1. SessionsTypeOK => WorkspaceActionReachesAll
  BY WorkspaceReaches DEF WorkspaceActionReachesAll
<1> QED
  BY <1>1, TokenTypeCorrect, PTL

(***************************************************************************)
(* What entitlements are.                                                  *)
(***************************************************************************)
\* Arithmetic the provers do not find of a length.
LEMMA SecondIndex == \A k \in Nat : k >= 1 /\ k # 1 => k > 1 /\ k + 1 > 1 /\ 2 \in 1..k
OBVIOUS

\* A name resolves exactly if it automates, and its pattern is then its scope and `*`.
LEMMA NameAndScope ==
  ASSUME OneKind, NEW n \in Named,
         \A i \in 1..Len(n.scope) - 1 : Lower[n.scope[i]] # WILDCARD_SEGMENT
  PROVE  /\ Resolves(n) <=> Automates(n)
         /\ Resolves(n) =>
              /\ Scope(n) \in Path \ {<<>>} /\ normalize(Scope(n)) = Scope(n)
              /\ \A i \in 1..Len(Scope(n)) : Scope(n)[i] # WILDCARD_SEGMENT
              /\ scope_pattern(n.scope) = Append(Scope(n), WILDCARD_SEGMENT)
              /\ normalize(scope_pattern(n.scope)) = scope_pattern(n.scope)
              /\ ~is_engine_private(scope_pattern(n.scope))
              /\ ENTITLEMENT_KINDS[Lower[n.kind]] = {"AUTOMATE"}
<1> DEFINE s == normalize(n.scope)
           t == Scope(n)
           p == scope_pattern(n.scope)
<1>1. /\ n.scope \in Path /\ s \in Path /\ Len(s) \in Nat /\ Len(s) = Len(n.scope)
      /\ \A i \in 1..Len(s) : s[i] = Lower[n.scope[i]]
  BY NormalizeSegments DEF Named, Path
<1>2. \A i \in 1..Len(s) - 1 : s[i] # WILDCARD_SEGMENT
  <2>1. \A i \in 1..Len(s) - 1 : i \in 1..Len(s)
    BY <1>1
  <2> QED
    BY <1>1, <2>1
<1>3. /\ t \in Path /\ Len(t) \in Nat
      /\ \A i \in 1..Len(t) : t[i] # WILDCARD_SEGMENT /\ t[i] = s[i] /\ i \in 1..Len(s)
      /\ p = Append(t, WILDCARD_SEGMENT)
  <2>1. CASE s # <<>> /\ s[Len(s)] = WILDCARD_SEGMENT
    <3>1. t = SubSeq(s, 1, Len(s) - 1) /\ p = s
      BY <2>1 DEF Scope, scope_pattern
    <3>2. Len(s) >= 1 /\ s \in Seq(Name)
      BY <1>1, <2>1 DEF Path
    <3> HIDE DEF s, t, p
    <3>3. t \in Seq(Name) /\ Len(t) = Len(s) - 1 /\ \A i \in 1..Len(s) - 1 : t[i] = s[i]
      <4>1. 1 \in 1..Len(s) + 1 /\ Len(s) - 1 \in 0..Len(s)
        BY <1>1, <3>2
      <4> QED
        BY <1>1, <3>1, <3>2, <4>1, SubSeqProperties
    <3>4. s = Append(t, WILDCARD_SEGMENT)
      <4> DEFINE a == Append(t, WILDCARD_SEGMENT)
      <4>1. a \in Seq(Name) /\ Len(a) = Len(s) /\ a[Len(s)] = WILDCARD_SEGMENT
            /\ \A i \in 1..Len(s) - 1 : a[i] = t[i]
        BY <1>1, <3>2, <3>3, NamesAssumption
      <4> HIDE DEF a
      <4>2. \A i \in 1..Len(s) : a[i] = s[i]
        BY <1>1, <2>1, <3>3, <4>1
      <4>3. a = s
        BY <3>2, <4>1, <4>2, SeqEqual
      <4> QED
        BY <4>3 DEF a
    <3> QED
      BY <1>1, <1>2, <3>1, <3>2, <3>3, <3>4 DEF Path
  <2>2. CASE ~(s # <<>> /\ s[Len(s)] = WILDCARD_SEGMENT)
    <3>1. t = s /\ p = Append(s, WILDCARD_SEGMENT)
      BY <2>2 DEF Scope, scope_pattern
    <3> HIDE DEF s, t, p
    <3>2. \A i \in 1..Len(s) : s[i] # WILDCARD_SEGMENT
      <4> SUFFICES ASSUME NEW i \in 1..Len(s), s[i] = WILDCARD_SEGMENT PROVE FALSE
        OBVIOUS
      <4>1. i = Len(s) \/ i \in 1..Len(s) - 1
        BY <1>1
      <4>2. s # <<>>
        BY <1>1 DEF Path
      <4> QED
        BY <1>2, <2>2, <4>1, <4>2
    <3> QED
      BY <1>1, <3>1, <3>2
  <2> QED
    BY <2>1, <2>2
<1>4. normalize(t) = t
  <2>1. \A i \in 1..Len(t) : Lower[t[i]] = t[i]
    <3>1. \A i \in 1..Len(t) : n.scope[i] \in Name /\ t[i] = Lower[n.scope[i]]
      BY <1>1, <1>3 DEF Path
    <3> QED
      BY <3>1, NamesAssumption
  <2>2. /\ normalize(t) \in Seq(Name) /\ Len(normalize(t)) = Len(t) /\ t \in Seq(Name)
        /\ \A i \in 1..Len(t) : normalize(t)[i] = t[i]
    BY <1>3, <2>1, NormalizeSegments DEF Path
  <2> HIDE DEF t
  <2> QED
    BY <2>2, SeqEqual
<1> HIDE DEF s, t, p
<1>5. /\ Len(p) = Len(t) + 1 /\ p # <<>> /\ p[Len(t) + 1] = WILDCARD_SEGMENT /\ p \in Path
      /\ \A i \in 1..Len(t) : p[i] = t[i]
  BY <1>3, NamesAssumption DEF Path
<1>6. normalize(p) = p
  <2>1. \A i \in 1..Len(t) : Lower[t[i]] = t[i]
    BY <1>3, <1>4, NormalizeSegments
  <2>2. \A i \in 1..Len(p) : Lower[p[i]] = p[i]
    <3> SUFFICES ASSUME NEW i \in 1..Len(p) PROVE Lower[p[i]] = p[i]
      OBVIOUS
    <3>1. i = Len(t) + 1 \/ i \in 1..Len(t)
      BY <1>3, <1>5
    <3> QED
      BY <1>5, <2>1, <3>1, NamesAssumption
  <2>3. /\ normalize(p) \in Seq(Name) /\ Len(normalize(p)) = Len(p) /\ p \in Seq(Name)
        /\ \A i \in 1..Len(p) : normalize(p)[i] = p[i]
    BY <1>5, <2>2, NormalizeSegments DEF Path
  <2> QED
    BY <2>3, SeqEqual
<1>7. IsPatternShape(p) <=>
        /\ t # <<>> /\ \A i \in 1..Len(t) : t[i] \in LiteralSegment
        /\ Len(t) = 1 \/ t[2] # INFORMATION_SCHEMA_COLLECTION
  <2>1. ASSUME IsPatternShape(p)
        PROVE  /\ t # <<>> /\ \A i \in 1..Len(t) : t[i] \in LiteralSegment
               /\ Len(t) = 1 \/ t[2] # INFORMATION_SCHEMA_COLLECTION
    <3>1. p[1] # WILDCARD_SEGMENT
      BY <2>1 DEF IsPatternShape
    <3>2. t # <<>>
      BY <1>5, <3>1
    <3>3. \A i \in 1..Len(t) : t[i] \in LiteralSegment
      <4>1. \A i \in 1..Len(t) : i \in 1..Len(p)
        BY <1>3, <1>5
      <4> QED
        BY <1>3, <1>5, <2>1, <4>1 DEF IsPatternShape
    <3>4. Len(t) = 1 \/ t[2] # INFORMATION_SCHEMA_COLLECTION
      <4>1. Len(t) >= 1
        BY <1>3, <3>2 DEF Path
      <4>2. Len(t) # 1 => Len(p) > 1 /\ 2 \in 1..Len(t)
        BY <1>3, <1>5, <4>1, SecondIndex
      <4> QED
        BY <1>5, <2>1, <4>2 DEF IsPatternShape
    <3> QED
      BY <3>2, <3>3, <3>4
  <2>2. ASSUME t # <<>>, \A i \in 1..Len(t) : t[i] \in LiteralSegment,
               Len(t) = 1 \/ t[2] # INFORMATION_SCHEMA_COLLECTION
        PROVE  IsPatternShape(p)
    <3>1. Len(t) >= 1 /\ 1 \in 1..Len(t)
      BY <1>3, <2>2 DEF Path
    <3>2. \A i \in 1..Len(p) : p[i] \in LiteralSegment \union {WILDCARD_SEGMENT}
      <4> SUFFICES ASSUME NEW i \in 1..Len(p)
                   PROVE  p[i] \in LiteralSegment \union {WILDCARD_SEGMENT}
        OBVIOUS
      <4>1. i = Len(t) + 1 \/ i \in 1..Len(t)
        BY <1>3, <1>5
      <4> QED
        BY <1>5, <2>2, <4>1
    <3>3. ~is_engine_private(p)
      <4>1. \A i \in 1..Len(p) : p[i] \in Name /\ p[i] \notin EnginePrivate
        BY <3>2, NamesAssumption
      <4> QED
        BY <4>1, NamesAssumption DEF is_engine_private
    <3>4. p[1] # WILDCARD_SEGMENT
      BY <1>3, <1>5, <3>1
    <3>5. Len(p) > 1 => p[2] # INFORMATION_SCHEMA_COLLECTION
      <4>1. CASE Len(t) = 1
        BY <1>5, <4>1, NamesAssumption
      <4>2. CASE Len(t) # 1
        <5>1. 2 \in 1..Len(t)
          BY <1>3, <3>1, <4>2, SecondIndex
        <5> QED
          BY <1>5, <2>2, <4>2, <5>1
      <4> QED
        BY <4>1, <4>2
    <3> QED
      BY <1>5, <3>2, <3>3, <3>4, <3>5 DEF IsPatternShape
  <2> QED
    BY <2>1, <2>2
<1>8. Resolves(n) <=> Automates(n)
  BY <1>7 DEF OneKind, Resolves, Automates, t, p
<1>9. Resolves(n) => /\ t # <<>> /\ ~is_engine_private(p)
                     /\ ENTITLEMENT_KINDS[Lower[n.kind]] = {"AUTOMATE"}
  BY <1>7 DEF OneKind, Resolves, IsPatternShape, p
<1> QED
  BY <1>3, <1>4, <1>5, <1>6, <1>8, <1>9 DEF t, p

\* What one usable name adds to the objects a session may act on, and to workspaces.
LEMMA NameConfers ==
  ASSUME OneKind, NEW n \in Named, Resolves(n),
         \A i \in 1..Len(n.scope) - 1 : Lower[n.scope[i]] # WILDCARD_SEGMENT
  PROVE  LET p == scope_pattern(n.scope) IN
         /\ \A r \in Path : resource_matches(r, p) <=> Beneath(normalize(r), Scope(n))
         /\ \A w \in Name : resource_matches(<<w>>, Covered(p)) <=> <<Lower[w]>> = Scope(n)
<1> DEFINE p == scope_pattern(n.scope)
           t == Scope(n)
<1>1. /\ t \in Path \ {<<>>} /\ normalize(t) = t
      /\ \A i \in 1..Len(t) : t[i] # WILDCARD_SEGMENT
      /\ p = Append(t, WILDCARD_SEGMENT) /\ normalize(p) = p
  BY NameAndScope
<1> HIDE DEF p, t
<1>2. Len(t) \in Nat /\ Len(t) >= 1 /\ t \in Seq(Name)
  BY <1>1 DEF Path
<1>3. ASSUME NEW r \in Path
      PROVE  resource_matches(r, p) <=> Beneath(normalize(r), t)
  <2> DEFINE q == normalize(r)
  <2>1. q \in Path /\ Len(q) \in Nat /\ q \in Seq(Name)
    BY NormalizeSegments DEF Path
  <2>2. resource_matches(r, p) <=> Covers(Append(t, WILDCARD_SEGMENT), q)
    BY <1>1 DEF resource_matches
  <2> HIDE DEF q
  <2>3. resource_matches(r, p) <=> Len(q) > Len(t) /\ \A i \in 1..Len(t) : q[i] = t[i]
    BY <1>1, <2>1, <2>2, CoversBeneath
  <2>4. ASSUME Len(q) > Len(t)
        PROVE  SubSeq(q, 1, Len(t)) = t <=> \A i \in 1..Len(t) : q[i] = t[i]
    <3> DEFINE h == SubSeq(q, 1, Len(t))
    <3>1. h \in Seq(Name) /\ Len(h) = Len(t) /\ \A i \in 1..Len(t) : h[i] = q[i]
      <4>1. 1 \in 1..Len(q) + 1 /\ Len(t) \in 0..Len(q)
        BY <1>2, <2>1, <2>4
      <4> QED
        BY <1>2, <2>1, <4>1, SubSeqProperties
    <3> HIDE DEF h
    <3>2. h = t <=> \A i \in 1..Len(t) : h[i] = t[i]
      BY <1>2, <3>1, SeqEqual
    <3> QED
      BY <3>1, <3>2 DEF h
  <2> QED
    BY <2>3, <2>4 DEF Beneath, q
<1>4. ASSUME NEW w \in Name
      PROVE  resource_matches(<<w>>, Covered(p)) <=> <<Lower[w]>> = t
  <2> DEFINE q == normalize(<<w>>)
             c == Covered(p)
  <2>1. /\ Len(p) = Len(t) + 1 /\ p[Len(t) + 1] = WILDCARD_SEGMENT /\ p \in Seq(Name)
        /\ \A i \in 1..Len(t) : p[i] = t[i]
    BY <1>1, <1>2, NamesAssumption
  <2>2. c = SubSeq(p, 1, Len(t))
    BY <1>1, <1>2, <2>1 DEF Covered
  <2>3. c = t
    <3> HIDE DEF c
    <3>1. 1 \in 1..Len(p) + 1 /\ Len(t) \in 0..Len(p)
      BY <1>2, <2>1
    <3>2. c \in Seq(Name) /\ Len(c) = Len(t) /\ \A i \in 1..Len(t) : c[i] = p[i]
      BY <1>2, <2>1, <2>2, <3>1, SubSeqProperties
    <3> QED
      BY <1>2, <2>1, <3>2, SeqEqual
  <2>4. q \in Path /\ Len(q) = 1 /\ q[1] = Lower[w] /\ q # <<>>
    <3>1. <<w>> \in Path /\ Len(<<w>>) = 1 /\ <<w>>[1] = w
      BY DEF Path
    <3> QED
      BY <3>1, NormalizeSegments
  <2>5. resource_matches(<<w>>, c) <=> Covers(t, q)
    BY <1>1, <2>3 DEF resource_matches
  <2> HIDE DEF q, c
  <2>6. q = <<Lower[w]>>
    BY <2>4 DEF Path
  <2>7. Covers(t, q) => t = q
    <3> SUFFICES ASSUME Covers(t, q) PROVE t = q
      OBVIOUS
    <3>1. Len(t) = 1 /\ t[1] \in {WILDCARD_SEGMENT, q[1]}
      BY <1>1, <2>4, CoversOneSegment
    <3>2. t[1] = q[1]
      BY <1>1, <3>1
    <3> QED
      BY <1>2, <2>4, <3>1, <3>2 DEF Path
  <2>8. t = q => Covers(t, q)
    BY <1>1, CoversReflexive
  <2> QED
    BY <2>5, <2>6, <2>7, <2>8 DEF c
<1> QED
  BY <1>3, <1>4 DEF p, t

\* What the entitlement names of the token come to, one by one.
LEMMA EntitlementsConfer ==
  ASSUME OneKind, PlainScopes, SessionsTypeOK, NEW action
  PROVE  LET E == parse_entitlement_claim(entitlements) IN
         /\ \A r \in Path : ~is_engine_private(r) =>
              (ByEntitlement(E, r, action) <=>
                 /\ action = "AUTOMATE"
                 /\ \E n \in entitlements.names : Automates(n) /\ Beneath(normalize(r), Scope(n)))
         /\ \A w \in Name : ~is_engine_private(<<w>>) =>
              ((\E e \in E : entitlement_permits_workspace_action(e, w, action)) <=>
                 /\ action = "AUTOMATE"
                 /\ \E n \in entitlements.names : Automates(n) /\ <<Lower[w]>> = Scope(n))
<1> DEFINE names == entitlements.names
           E == parse_entitlement_claim(entitlements)
           Plain(n) == \A i \in 1..Len(n.scope) - 1 : Lower[n.scope[i]] # WILDCARD_SEGMENT
           Of(n) == [actions |-> {"AUTOMATE"}, pattern |-> scope_pattern(n.scope)]
<1>1. \A n \in names : n \in Named /\ Plain(n)
  BY TokenTypes DEF SessionsTypeOK, PlainScopes
<1>2. E = {Of(n) : n \in {m \in names : Automates(m)}}
  <2>1. \A n \in names : Resolves(n) <=> Automates(n)
    BY <1>1, NameAndScope
  <2>2. \A n \in names : Resolves(n) => ENTITLEMENT_KINDS[Lower[n.kind]] = {"AUTOMATE"}
    BY <1>1, NameAndScope
  <2> QED
    BY <2>1, <2>2 DEF parse_entitlement_claim, resolve_entitlements
<1>3. ENTITLEABLE_ACTIONS \intersect {"AUTOMATE"} = {"AUTOMATE"}
  BY DEF ENTITLEABLE_ACTIONS, DATA_ACTIONS, OwnerDataActions
<1>4. ASSUME NEW n \in names, Automates(n)
      PROVE  /\ \A r \in Path : ~is_engine_private(r) =>
                  (entitlement_permits(Of(n), r, action) <=>
                     action = "AUTOMATE" /\ Beneath(normalize(r), Scope(n)))
             /\ \A w \in Name : ~is_engine_private(<<w>>) =>
                  (entitlement_permits_workspace_action(Of(n), w, action) <=>
                     action = "AUTOMATE" /\ <<Lower[w]>> = Scope(n))
  <2> DEFINE p == scope_pattern(n.scope)
  <2>1. n \in Named /\ Plain(n) /\ Resolves(n)
    BY <1>1, <1>4, NameAndScope
  <2>2. ~is_engine_private(p)
    BY <2>1, NameAndScope
  <2>3. /\ \A r \in Path : resource_matches(r, p) <=> Beneath(normalize(r), Scope(n))
        /\ \A w \in Name : resource_matches(<<w>>, Covered(p)) <=> <<Lower[w]>> = Scope(n)
    BY <2>1, NameConfers
  <2>4. ~is_engine_private(Covered(p))
    <3>1. Scope(n) \in Path /\ p = Append(Scope(n), WILDCARD_SEGMENT) /\ normalize(p) = p
      BY <2>1, NameAndScope
    <3> HIDE DEF p
    <3>2. p \in Path /\ Len(p) \in Nat
      BY <3>1, NamesAssumption DEF Path
    <3>3. CASE Len(p) > 1 /\ p[Len(p)] = WILDCARD_SEGMENT
      <4>1. Covered(p) = SubSeq(p, 1, Len(p) - 1)
        BY <3>1, <3>3 DEF Covered
      <4>2. 1 \in 1..Len(p) + 1 /\ Len(p) - 1 \in 0..Len(p) /\ p \in Seq(Name)
        BY <3>2, <3>3 DEF Path
      <4>3. Len(Covered(p)) = Len(p) - 1 /\ \A i \in 1..Len(p) - 1 : Covered(p)[i] = p[i]
        BY <3>2, <3>3, <4>1, <4>2, SubSeqProperties
      <4>4. \A i \in 1..Len(p) - 1 : i \in 1..Len(p)
        BY <3>2
      <4> QED
        BY <2>2, <4>3, <4>4 DEF is_engine_private
    <3>4. CASE ~(Len(p) > 1 /\ p[Len(p)] = WILDCARD_SEGMENT)
      BY <2>2, <3>1, <3>4 DEF Covered
    <3> QED
      BY <3>3, <3>4
  <2>5. Of(n).actions = {"AUTOMATE"} /\ Of(n).pattern = p
    OBVIOUS
  <2> HIDE DEF p, Of
  <2> QED
    BY <1>3, <2>2, <2>3, <2>4, <2>5
    DEF entitlement_permits, entitlement_permits_workspace_action, _permits
<1> HIDE DEF E, Of
<1>5. ASSUME NEW r \in Path, ~is_engine_private(r)
      PROVE  ByEntitlement(E, r, action) <=>
               /\ action = "AUTOMATE"
               /\ \E n \in names : Automates(n) /\ Beneath(normalize(r), Scope(n))
  BY <1>2, <1>4, <1>5 DEF ByEntitlement
<1>6. ASSUME NEW w \in Name, ~is_engine_private(<<w>>)
      PROVE  (\E e \in E : entitlement_permits_workspace_action(e, w, action)) <=>
               /\ action = "AUTOMATE"
               /\ \E n \in names : Automates(n) /\ <<Lower[w]>> = Scope(n)
  BY <1>2, <1>4, <1>6
<1> QED
  BY <1>5, <1>6 DEF E

\* An entitlement confers its operations beneath its scope and nothing else, for
\* every token, with the table of kinds there is (entitlements.py, "Operations, not
\* data").
THEOREM EntitlementsAreOperations ==
  ASSUME OneKind, PlainScopes
  PROVE  Spec => []OperationsNotData
<1> DEFINE E == parse_entitlement_claim(entitlements)
<1>1. /\ session.user = user /\ session.access_policies = access_policies
      /\ session.entitlements = entitlements
      /\ Bare.user = user /\ Bare.access_policies = access_policies
      /\ Bare.entitlements = NoEntitlements
  BY DEF session, Bare
<1>2. parse_entitlement_claim(NoEntitlements) = {}
  BY DEF NoEntitlements, parse_entitlement_claim, resolve_entitlements
<1>3. ASSUME SessionsTypeOK, NEW action \in Asked, NEW r \in Resources
      PROVE  May(session, r, action) <=>
               \/ May(Bare, r, action)
               \/ /\ action = "AUTOMATE" /\ Len(r) > 1 /\ ~is_engine_private(r)
                  /\ \E n \in entitlements.names : Automates(n) /\ Beneath(normalize(r), Scope(n))
  <2>1. r \in Path /\ Len(r) \in Nat /\ Len(r) >= 1
    BY SessionsAssumption DEF Path
  <2>2. CASE Len(r) = 1
    BY <2>2 DEF May, can_perform_action
  <2>3. CASE Len(r) # 1
    <3>1. Len(r) > 1
      BY <2>1, <2>3, SecondIndex
    <3>2. ~is_engine_private(r) =>
            (ByEntitlement(E, r, action) <=>
               /\ action = "AUTOMATE"
               /\ \E n \in entitlements.names : Automates(n) /\ Beneath(normalize(r), Scope(n)))
      BY <1>3, <2>1, EntitlementsConfer
    <3>3. ~ByEntitlement(parse_entitlement_claim(NoEntitlements), r, action)
      BY <1>2 DEF ByEntitlement
    <3> QED
      BY <1>1, <2>3, <3>1, <3>2, <3>3, ThreeReasons
  <2> QED
    BY <2>2, <2>3
<1>4. ASSUME SessionsTypeOK, NEW action \in Asked, NEW w \in Workspaces
      PROVE  MayInWorkspace(session, w, action) <=>
               \/ MayInWorkspace(Bare, w, action)
               \/ /\ action = "AUTOMATE" /\ ~is_engine_private(<<w>>)
                  /\ \E n \in entitlements.names : Automates(n) /\ <<Lower[w]>> = Scope(n)
  <2>1. w \in Name
    BY SessionsAssumption
  <2>2. ~is_engine_private(<<w>>) =>
          ((\E e \in E : entitlement_permits_workspace_action(e, w, action)) <=>
             /\ action = "AUTOMATE"
             /\ \E n \in entitlements.names : Automates(n) /\ <<Lower[w]>> = Scope(n))
    BY <1>4, <2>1, EntitlementsConfer
  <2> QED
    BY <1>1, <1>2, <2>2 DEF MayInWorkspace, can_perform_workspace_action
<1>5. SessionsTypeOK => OperationsNotData
  BY <1>3, <1>4 DEF OperationsNotData
<1> QED
  BY <1>5, TokenTypeCorrect, PTL
===========================================================================
