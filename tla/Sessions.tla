------------------------------ MODULE Sessions ------------------------------
(***************************************************************************)
(* Every session with a small token, its token made up an entry at a time, *)
(* and what may be expected of the decisions of Access about it.           *)
(***************************************************************************)
EXTENDS Access, FiniteSets

CONSTANTS
  Identities,    \* the identities sessions run as
  Claims,        \* entries a policies claim may hold
  Issued,        \* entitlement names the identity system may have issued
  MaxParts,      \* bound: entries and entitlement names together
  Resources,     \* what is asked about
  Workspaces,
  Asked          \* the actions asked about: some of each row of the table

ASSUME SessionsAssumption ==
  /\ Identities \subseteq Name
  /\ Claims \subseteq Claimed
  /\ Issued \subseteq Named
  /\ MaxParts \in Nat
  /\ Resources \subseteq Path \ {<<>>}
  /\ Workspaces \subseteq Name
  /\ Asked \subseteq Actions

VARIABLES user, access_policies, entitlements

session == [user |-> user, access_policies |-> access_policies, entitlements |-> entitlements]
vars == <<user, access_policies, entitlements>>

SessionsTypeOK ==
  /\ user \in Identities
  /\ access_policies \subseteq Claims
  /\ entitlements \in EntitlementClaim /\ entitlements.names \subseteq Issued

Init == user \in Identities /\ access_policies = {} /\ entitlements = NoEntitlements

Parts == Cardinality(access_policies) + Cardinality(entitlements.names)

AddEntry == /\ Parts < MaxParts
            /\ \E e \in Claims \ access_policies : access_policies' = access_policies \union {e}
            /\ UNCHANGED <<user, entitlements>>

\* The first name may come bare; with a second one there is a list.
AddName == /\ Parts < MaxParts
           /\ \E n \in Issued \ entitlements.names, wrapped \in BOOLEAN :
                /\ wrapped \/ entitlements = NoEntitlements
                /\ entitlements' = [wrapped |-> wrapped,
                                     names   |-> entitlements.names \union {n}]
           /\ UNCHANGED <<user, access_policies>>

Complete == Parts = MaxParts /\ UNCHANGED vars

Next == AddEntry \/ AddName \/ Complete
Spec == Init /\ [][Next]_vars

Objects == {r \in Resources : Len(r) > 1}

\* Path p is strictly beneath path q.
Beneath(p, q) == Len(p) > Len(q) /\ SubSeq(p, 1, Len(q)) = q

\* The collection personal.<user> and all that is in it.
Personal(r) ==
  LET path == normalize(r)
      own  == PersonalNamespace(user)
  IN  user # Anonymous /\ (path = own \/ Beneath(path, own))

\* The parts of the reserved workspaces that everybody's own grants are about.
Capped(r) == normalize(r)[1] \in {"public", "samples"} \/ Personal(r)

\* The session without its entitlements.
Bare == [session EXCEPT !.entitlements = NoEntitlements]

\* What can be done in public, samples and one's own namespace is settled there:
\* no policy, whatever it says, adds to it or takes from it (can_perform_action,
\* "Implicit grants CAP what they cover").
CapIsAbsolute ==
  \A r \in Objects, action \in Asked :
    Capped(r) =>
      (May(session, r, action) <=> May([session EXCEPT !.access_policies = {}], r, action))

\* Whatever an implicit grant confers is had, though only the first that matches
\* is asked: none stands in front of a stronger one (implicit_grants, "ORDER IS
\* LOAD-BEARING").
NoImplicitGrantIsShadowed ==
  \A r \in Objects, action \in Asked, i \in 1..Len(implicit_grants(user)) :
    LET g == implicit_grants(user)[i] IN
    /\ matches_implicit(r, g)
    /\ action_allowed_for_role(g.role, action)
    /\ ~is_engine_private(r)
    => May(session, r, action)

\* Another entry or name in the token, whatever it says and however badly it is
\* written, never takes anything away (parse_policy_claim, resolve_entitlements).
TokensOnlyAdd ==
  [][\A action \in Asked :
       /\ \A r \in Resources : May(session, r, action) => May(session, r, action)'
       /\ \A w \in Workspaces :
            MayInWorkspace(session, w, action) => MayInWorkspace(session, w, action)']_vars

\* The scope of a name: what precedes its last `*`, all literal, if it is usable.
Scope(n) ==
  LET s == normalize(n.scope) IN
  IF s # <<>> /\ s[Len(s)] = WILDCARD_SEGMENT THEN SubSeq(s, 1, Len(s) - 1) ELSE s

\* The one kind there is, and what is said of scopes ("a workspace, or a narrower
\* prefix within one"): `*` nowhere but last.
OneKind     == ENTITLEMENT_KINDS = [kind \in {"automation_admin"} |-> {"AUTOMATE"}]
PlainScopes == \A n \in Issued : \A i \in 1..Len(n.scope) - 1 :
                 Lower[n.scope[i]] # WILDCARD_SEGMENT

Automates(n) ==
  /\ Lower[n.kind] = "automation_admin" /\ n.scoped
  /\ Scope(n) # <<>> /\ \A i \in 1..Len(Scope(n)) : Scope(n)[i] \in LiteralSegment
  /\ Len(Scope(n)) = 1 \/ Scope(n)[2] # INFORMATION_SCHEMA_COLLECTION

\* An entitlement is the operations of what is beneath its scope, reserved or not,
\* capped or not, and nothing else: no data, no administration, no private name
\* (entitlements.py, "Operations, not data").
OperationsNotData ==
  \A action \in Asked :
    /\ \A r \in Resources :
         May(session, r, action) <=>
           \/ May(Bare, r, action)
           \/ /\ action = "AUTOMATE" /\ Len(r) > 1 /\ ~is_engine_private(r)
              /\ \E n \in entitlements.names : Automates(n) /\ Beneath(normalize(r), Scope(n))
    /\ \A w \in Workspaces :
         MayInWorkspace(session, w, action) <=>
           \/ MayInWorkspace(Bare, w, action)
           \/ /\ action = "AUTOMATE" /\ ~is_engine_private(<<w>>)
              /\ \E n \in entitlements.names : Automates(n) /\ <<Lower[w]>> = Scope(n)

\* Some row of SHOW GRANTS covers the object and names the action.
Explained(r, action) ==
  \E row \in grants(session) :
    /\ action \in row.actions
    /\ IF row.source = "implicit" THEN matches_implicit(r, row)
                                  ELSE resource_matches(r, row.pattern)

\* SHOW GRANTS reports no less than is enforced: whatever the session may do to an
\* object is explained (capability.py, grants).  A claim that is a bare string is
\* read by the check and not by the listing.
ListingReportsAll ==
  \A r \in Objects, action \in Asked : May(session, r, action) => Explained(r, action)

\* What the listing leaves unexplained is what one name confers that came without a
\* list around it, and nothing else: of every other session it reports all.
OnlyUnwrappedGoesUnreported ==
  \A r \in Objects, action \in Asked :
    May(session, r, action) /\ ~Explained(r, action) =>
      ~entitlements.wrapped /\ ~May(Bare, r, action)

\* Authority over a workspace as an object is authority over all there is in it,
\* unless it was given by the workspace's bare name (can_perform_workspace_action).
WorkspaceActionReachesAll ==
  \A w \in Workspaces, action \in Asked :
    /\ Lower[w] \notin RESERVED_WORKSPACES
    /\ MayInWorkspace(session, w, action)
    => \/ \E e \in access_policies : normalize(e.pattern) = <<Lower[w]>>
       \/ \A r \in Objects :
            Lower[r[1]] = Lower[w] /\ ~is_engine_private(r) => May(session, r, action)

\* With policies that validate_pattern let through, and no entitlement, a session does
\* everything to what is at or beneath personal.<user>, segment by segment, and
\* nothing to anything else in personal.  With dots in identities that is not to say
\* that a namespace has one owner: alice's holds all of that of alice.c.
PersonalIsPersonal ==
  /\ entitlements.names = {}
  /\ \A e \in access_policies : IsPattern(normalize(e.pattern))
  => \A r \in Objects, action \in Asked :
       normalize(r)[1] = "personal" =>
         (May(session, r, action) <=> Personal(r) /\ ~is_engine_private(r))
=============================================================================
