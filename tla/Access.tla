------------------------------- MODULE Access -------------------------------
(***************************************************************************)
(* The decisions about data: what a session may do to a resource, from the *)
(* grants and entitlement names its token carries and the grants everybody *)
(* holds (checks.py, entitlements.py, models.py), and what SHOW GRANTS     *)
(* tells it (capability.py).  Nothing here has state: a session is its     *)
(* token.  The label SHOW GRANTS gives a pattern is pattern_level's.       *)
(***************************************************************************)
EXTENDS Checks

CONSTANTS
  Anonymous,            \* the identity of a session that has none
  SegmentsOf,           \* a Name split at its dots: one, unless an identity holds some
  PLATFORM_IDENTITIES,  \* federator, xb500
  ENTITLEMENT_KINDS     \* what each kind of entitlement confers

Actions == DATA_ACTIONS \union POLICY_ADMINISTRATION_ACTIONS

ENTITLEABLE_ACTIONS == DATA_ACTIONS

\* Run at import: a process with a malformed table does not start.
_validate_kinds ==
  \A kind \in DOMAIN ENTITLEMENT_KINDS :
    /\ kind \in Name /\ Lower[kind] = kind
    /\ ENTITLEMENT_KINDS[kind] # {}
    /\ ENTITLEMENT_KINDS[kind] \subseteq ENTITLEABLE_ACTIONS

ASSUME AccessAssumption ==
  /\ RESERVED_WORKSPACES = {"public", "personal", "samples"}
  /\ SegmentsOf \in [Name -> Path \ {<<>>}]
  /\ \A n \in Name : SegmentsOf[Lower[n]] = normalize(SegmentsOf[n])
  /\ PLATFORM_IDENTITIES \subseteq Name
  /\ \A n \in PLATFORM_IDENTITIES : Lower[n] = n
  /\ _validate_kinds

(***************************************************************************)
(* Tokens.  An entry of the policies claim is readable if it is a pair or  *)
(* a dict of two strings.  An entitlement name is a kind and, after `::`,  *)
(* a scope; scoped says whether the `::` is there.  The names come in a    *)
(* list (wrapped), or one of them comes as a bare string.                  *)
(***************************************************************************)
Claimed == [readable : BOOLEAN, role : STRING, pattern : Path]
Named   == [kind : Name, scoped : BOOLEAN, scope : Path]

EntitlementClaim ==
  {c \in [wrapped : BOOLEAN, names : SUBSET Named] : c.wrapped \/ \E n \in Named : c.names = {n}}
NoEntitlements == [wrapped |-> TRUE, names |-> {}]

\* The attributes of the execution context that are read off it.
Session == [user : Name, access_policies : SUBSET Claimed, entitlements : EntitlementClaim]

\* Slip: one unreadable entry voids the claim.
ParseAllOrNothing(claim) ==
  {[role |-> e.role, pattern |-> e.pattern] :
     e \in {e \in claim : \A f \in claim : f.readable /\ f.role # "" /\ f.pattern # <<>>}}

\* An entry that cannot be read is skipped, and decides nothing for the others.
parse_policy_claim(claim) ==
  {[role |-> e.role, pattern |-> e.pattern] :
     e \in {e \in claim : e.readable /\ e.role # "" /\ e.pattern # <<>>}}

\* Slip: the scope stands for itself and not for what is beneath it.
ScopeAsWritten(scope) == normalize(scope)

\* Everything beneath the scope; a scope that ends in `*` is taken as written.
\* The empty scope comes out as the lone `*`, which no pattern may be.
scope_pattern(scope) ==
  LET p == normalize(scope) IN
  IF p # <<>> /\ p[Len(p)] = WILDCARD_SEGMENT THEN p ELSE Append(p, WILDCARD_SEGMENT)

\* parse_entitlement_name returns (rather than None, or an error).
Resolves(name) ==
  /\ Lower[name.kind] \in DOMAIN ENTITLEMENT_KINDS
  /\ name.scoped
  /\ IsPatternShape(scope_pattern(name.scope))

resolve_entitlements(names) ==
  {[actions |-> ENTITLEMENT_KINDS[Lower[n.kind]], pattern |-> scope_pattern(n.scope)] :
     n \in {n \in names : Resolves(n)}}

\* A bare string is wrapped first: it counts as the list of itself.
parse_entitlement_claim(claim) == resolve_entitlements(claim.names)

\* What comes of iterating a claim that was not: a bare string gives its characters,
\* of which none has a `::`.
Iterated(claim) == IF claim.wrapped THEN claim.names ELSE {}

(***************************************************************************)
(* What entitlements permit.                                               *)
(***************************************************************************)
_permits(actions, pattern, resource, action) ==
  /\ ~is_engine_private(resource) /\ ~is_engine_private(pattern)
  /\ action \in ENTITLEABLE_ACTIONS \intersect actions
  /\ resource_matches(resource, pattern)

entitlement_permits(e, resource, action) == _permits(e.actions, e.pattern, resource, action)

\* removesuffix(".*"): a lone `*` has no dot before it, and stays.
Covered(pattern) ==
  LET p == normalize(pattern) IN
  IF Len(p) > 1 /\ p[Len(p)] = WILDCARD_SEGMENT THEN SubSeq(p, 1, Len(p) - 1) ELSE p

entitlement_permits_workspace_action(e, workspace, action) ==
  _permits(e.actions, Covered(e.pattern), <<workspace>>, action)

(***************************************************************************)
(* The grants every session holds, in the order they are looked at.  Their *)
(* patterns are literal but for a last `*`: an identity is escaped.  So a  *)
(* pattern is a path, and says whether it is that or what is beneath it.   *)
(***************************************************************************)
Implicit(role, path, beneath) == [role |-> role, pattern |-> path, beneath |-> beneath]

\* The identity goes into the name as it is, its dots with it.
PersonalNamespace(identity) == <<"personal">> \o SegmentsOf[Lower[identity]]

PersonalGrants(identity) ==
  IF identity = Anonymous THEN <<>>
  ELSE <<Implicit("owner", PersonalNamespace(identity), FALSE),
         Implicit("owner", PersonalNamespace(identity), TRUE)>>

SharedGrants(role) ==
  <<Implicit(role, <<"public">>, TRUE), Implicit(role, <<"samples">>, TRUE)>>

\* Slip: what everybody holds comes first.
ReaderFirst(identity) ==
  PersonalGrants(identity) \o SharedGrants("reader")
    \o (IF Lower[identity] \in PLATFORM_IDENTITIES THEN SharedGrants("writer") ELSE <<>>)

implicit_grants(identity) ==
  PersonalGrants(identity)
    \o (IF Lower[identity] \in PLATFORM_IDENTITIES THEN SharedGrants("writer") ELSE <<>>)
    \o SharedGrants("reader")

\* Slip: the identity is not escaped into its pattern.
MatchesUnescaped(resource, g) ==
  resource_matches(resource, IF g.beneath THEN Append(g.pattern, WILDCARD_SEGMENT)
                                          ELSE g.pattern)

matches_implicit(resource, g) ==
  LET r == normalize(resource)
      n == Len(g.pattern)
  IN  /\ Len(r) >= n
      /\ SubSeq(r, 1, n) = g.pattern
      /\ g.beneath <=> Len(r) > n

(***************************************************************************)
(* The two checks.  A name without a dot is a table of the session's own.  *)
(***************************************************************************)
\* Slip: issued grants are looked at whatever an implicit grant says.
Uncapped(grants, resource, action, identity, entitlements) ==
  LET implicit == implicit_grants(identity) IN
  IF Len(resource) = 1 THEN action = "READ"
  ELSE /\ ~is_engine_private(resource)
       /\ \/ \E e \in entitlements : entitlement_permits(e, resource, action)
          \/ \E i \in 1..Len(implicit) : /\ matches_implicit(resource, implicit[i])
                                         /\ action_allowed_for_role(implicit[i].role, action)
          \/ \E g \in grants : /\ action_allowed_for_role(g.role, action)
                               /\ resource_matches(resource, g.pattern)

can_perform_action(grants, resource, action, identity, entitlements) ==
  LET implicit == implicit_grants(identity)
      matching == {i \in 1..Len(implicit) : matches_implicit(resource, implicit[i])}
  IN  IF Len(resource) = 1 THEN action = "READ"
      ELSE /\ ~is_engine_private(resource)
           /\ \/ \E e \in entitlements : entitlement_permits(e, resource, action)
              \/ \E i \in matching : /\ \A j \in matching : i <= j
                                     /\ action_allowed_for_role(implicit[i].role, action)
              \/ /\ matching = {}
                 /\ \E g \in grants : /\ action_allowed_for_role(g.role, action)
                                      /\ resource_matches(resource, g.pattern)

\* Slip: a grant anywhere in the workspace counts.
AnywhereInside(grants, workspace, action, entitlements) ==
  /\ ~is_engine_private(<<workspace>>)
  /\ \/ \E e \in entitlements : entitlement_permits_workspace_action(e, workspace, action)
     \/ \E g \in grants : /\ action_allowed_for_role(g.role, action)
                          /\ normalize(g.pattern)[1] \in {WILDCARD_SEGMENT, Lower[workspace]}

can_perform_workspace_action(grants, workspace, action, entitlements) ==
  /\ ~is_engine_private(<<workspace>>)
  /\ \/ \E e \in entitlements : entitlement_permits_workspace_action(e, workspace, action)
     \/ \E g \in grants : /\ action_allowed_for_role(g.role, action)
                          /\ resource_matches(<<workspace>>, Covered(g.pattern))

(***************************************************************************)
(* The capability's own, asked about the session that is asking.           *)
(***************************************************************************)
May(s, resource, action) ==
  can_perform_action(parse_policy_claim(s.access_policies), resource, action,
                     s.user, parse_entitlement_claim(s.entitlements))

MayInWorkspace(s, workspace, action) ==
  can_perform_workspace_action(parse_policy_claim(s.access_policies), workspace, action,
                               parse_entitlement_claim(s.entitlements))

_actions_for(role) == {action \in Actions : role \in allowed_roles(action)}

\* A row of SHOW GRANTS; beneath is only told apart in the pattern of an implicit one.
Row(source, pattern, beneath, role, actions) ==
  [source |-> source, pattern |-> pattern, beneath |-> beneath, role |-> role,
   actions |-> actions]

\* Slip: the engine does not hand over the entitlement names.
RowsWithoutEntitlements(s) ==
  {Row("implicit", g.pattern, g.beneath, g.role, _actions_for(g.role)) :
     g \in {implicit_grants(s.user)[i] : i \in 1..Len(implicit_grants(s.user))}}
  \union {Row("issued", g.pattern, FALSE, g.role, _actions_for(g.role)) :
            g \in parse_policy_claim(s.access_policies)}

\* The rows behind SHOW GRANTS, which takes the claim for a list; their order is the
\* order of evaluation above.
grants(s) ==
  {Row("entitlement", e.pattern, FALSE, "entitlement", e.actions) :
     e \in resolve_entitlements(Iterated(s.entitlements))}
  \union {Row("implicit", g.pattern, g.beneath, g.role, _actions_for(g.role)) :
            g \in {implicit_grants(s.user)[i] : i \in 1..Len(implicit_grants(s.user))}}
  \union {Row("issued", g.pattern, FALSE, g.role, _actions_for(g.role)) :
            g \in parse_policy_claim(s.access_policies)}
=============================================================================
