------------------------------ MODULE Listings ------------------------------
(***************************************************************************)
(* What is read off the store and changes nothing (grants.py,              *)
(* capability.py): what somebody else may do, what an identity owns, who   *)
(* has access to an object.  Rows are sets of policies: their order and    *)
(* the label of their pattern are presentation.  A listing is taken of one *)
(* state of the store, though the code authorises and lists in two reads.  *)
(***************************************************************************)
EXTENDS PolicyStore, Access

CONSTANTS
  Users,     \* who is asked about, in any spelling
  Objects,   \* the objects of the engine's catalog, in any spelling
  Asked      \* the actions asked about

ASSUME ListingsAssumption == Users \subseteq Name /\ Objects \subseteq Path \ {<<>>}

\* Slip: the workspace is looked up as it is spelt.
GrantsAsSpelt(workspace, identity) ==
  {[role |-> p.role, pattern |-> p.pattern] :
     p \in list_policies_for_principal(workspace, Lower[identity])}

grants_for_principal(workspace, identity) ==
  {[role |-> p.role, pattern |-> p.pattern] :
     p \in list_policies_for_principal(Lower[workspace], Lower[identity])}

\* Somebody who has no session here: by stored policies, without entitlements.
can_principal_perform_action(principal, resource, action) ==
  IF Len(resource) = 1 THEN action = "READ"
  ELSE can_perform_action(grants_for_principal(resource[1], principal),
                          resource, action, principal, {})

\* The collection-group query: every workspace's documents at once.
list_owner_policies(principal) ==
  {p \in policies : p.principal = principal /\ action_allowed_for_role(p.role, "GRANT")}

\* Slip: the identity is looked up as it is spelt.
OwnedAsSpelt(identity) == list_owner_policies(identity)

\* What would become unowned if this identity went away.
owned_by(identity) == list_owner_policies(Lower[identity])

(***************************************************************************)
(* SHOW GRANTS ON and SHOW EFFECTIVE GRANTS ON: refused unless the actor   *)
(* could grant on the object.  A workspace's listing is all of its         *)
(* policies; another object's is those at it, or those that cover it.      *)
(***************************************************************************)
Listable(actor, pattern) ==
  LET p == normalize(pattern) IN
  /\ actor # Anonymous
  /\ IsPattern(p)
  /\ can_administer_pattern(list_policies_for_principal(p[1], Lower[actor]), Lower[actor], p)

\* Slip: only what is attached to the object is listed, effective or not.
AttachedRows(pattern, covering) ==
  LET p == normalize(pattern) IN
  {d \in list_policies(p[1]) : p = WholeWorkspace(p[1]) \/ normalize(d.pattern) = p}

_policy_rows(pattern, covering) ==
  LET p == normalize(pattern) IN
  {d \in list_policies(p[1]) :
     \/ p = WholeWorkspace(p[1])
     \/ covering /\ resource_matches(p, d.pattern)
     \/ ~covering /\ normalize(d.pattern) = p}

grants_on(pattern)           == _policy_rows(pattern, FALSE)
effective_grants_on(pattern) == _policy_rows(pattern, TRUE)

(***************************************************************************)
(* information_schema.grants: the objects asked about (all in the          *)
(* workspace, or the call is refused) and whatever a stored policy names,  *)
(* less those the actor could not list one by one.                         *)
(***************************************************************************)
\* Slip: only the objects asked about are reported.
OnlyTheAsked(actor, workspace, objects) ==
  LET w == Lower[workspace]
      held == list_policies_for_principal(w, Lower[actor])
  IN  {[object |-> x[1], policy |-> x[2], explicit |-> normalize(x[2].pattern) = x[1]] :
         x \in
           {x \in {normalize(o) : o \in objects} \X list_policies(w) :
              /\ actor # Anonymous
              /\ can_administer_pattern(held, Lower[actor], x[1])
              /\ resource_matches(x[1], x[2].pattern)}}

effective_grants_in(actor, workspace, objects) ==
  LET w == Lower[workspace]
      asked == {normalize(o) : o \in objects} \union {normalize(d.pattern) : d \in list_policies(w)}
      held == list_policies_for_principal(w, Lower[actor])
  IN  {[object |-> x[1], policy |-> x[2], explicit |-> normalize(x[2].pattern) = x[1]] :
         x \in
           {x \in {o \in asked : ~is_engine_private(o)} \X list_policies(w) :
              /\ actor # Anonymous
              /\ can_administer_pattern(held, Lower[actor], x[1])
              /\ resource_matches(x[1], x[2].pattern)}}

\* An object inside a workspace that a policy could be issued on.
Grantable(o) == IsPattern(normalize(o)) /\ normalize(o) # WholeWorkspace(Lower[o[1]]) /\ Len(o) > 1

(***************************************************************************)
(* What the listings promise to agree on, in every state of a store.       *)
(***************************************************************************)
\* The object listing is the truth about every user: someone with no entitlement may
\* do a thing to an object if and only if a row says so (effective_grants_on,
\* "the matcher that decides real queries").
EffectiveIsTheTruth ==
  \A o \in {o \in Objects : Grantable(o)}, u \in Users :
    LET rows == {d \in effective_grants_on(o) : d.principal = Lower[u]} IN
    \A action \in Asked :
      can_principal_perform_action(u, o, action) <=>
        \E d \in rows : action_allowed_for_role(d.role, action)

\* The workspace table and the statements about single objects never differ: it
\* shows an object as effective_grants_on does, marks what grants_on lists, and
\* leaves no policy out, even on an object that is not there (effective_grants_in).
ListingsAgree ==
  \A u \in Users, w \in {Lower[o[1]] : o \in Objects} :
    LET rows == effective_grants_in(u, w, {o \in Objects : Lower[o[1]] = w})
        At(o) == {r \in rows : r.object = o}
    IN  /\ \A o \in {r.object : r \in rows} :
             o # WholeWorkspace(o[1]) /\ Listable(u, o) =>
               /\ {r.policy : r \in At(o)} = effective_grants_on(o)
               /\ {r.policy : r \in {r \in At(o) : r.explicit}} = grants_on(o)
        /\ Listable(u, WholeWorkspace(w)) =>
             {r.policy : r \in {r \in rows : r.explicit}} = grants_on(WholeWorkspace(w))

\* Before an identity goes: whatever nobody else administers is covered by one of
\* the policies that owned_by lists for it, in that workspace (owned_by, "what
\* would become unowned if this identity went away").
OffboardingIsWarned ==
  \A u \in Users, d \in policies :
    LET Administers(actor) ==
          can_administer_pattern(list_policies_for_principal(d.workspace, Lower[actor]),
                                 actor, d.pattern)
    IN  /\ Administers(u)
        /\ \A v \in Users : Administers(v) => Lower[v] = Lower[u]
        => \E p \in owned_by(u) : /\ p.workspace = d.workspace
                                  /\ resource_matches(d.pattern, p.pattern)
=============================================================================
