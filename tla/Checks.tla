------------------------------ MODULE Checks ------------------------------
(***************************************************************************)
(* The decisions about administering policy (checks.py): who may change    *)
(* the access to what.  A policy is a record with at least a principal, a  *)
(* role and a pattern.                                                     *)
(***************************************************************************)
EXTENDS RolesAndActions, Patterns

\* Slip: an owner of anything administers everything.
AdministersAnything(held, identity, pattern) ==
  /\ pattern # <<>>
  /\ \E p \in held : /\ Lower[p.principal] = Lower[identity]
                     /\ action_allowed_for_role(p.role, "GRANT")

(***************************************************************************)
(* May this identity grant and revoke access covering the pattern?  The    *)
(* policies handed over are filtered again, so that a store that filters   *)
(* wrongly does not widen who counts as the grantor.                       *)
(***************************************************************************)
can_administer_pattern(held, identity, pattern) ==
  /\ pattern # <<>>
  /\ ~is_engine_private(pattern)
  /\ \E p \in held :
       /\ Lower[p.principal] = Lower[identity]
       /\ action_allowed_for_role(p.role, "GRANT")
       /\ resource_matches(pattern, p.pattern)
===========================================================================
