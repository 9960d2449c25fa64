-------------------------- MODULE SerialInvariant --------------------------
(***************************************************************************)
(* Why the properties of SerialGrants hold when calls come one at a time:  *)
(* what the only caller has read, and the answers its checks gave, are     *)
(* still so when it writes.  The conjunction is inductive.                 *)
(***************************************************************************)
EXTENDS SerialGrants, GrantsInvariant

\* One caller, whose calls do not die, and a store whose documents are spelt as
\* the operations spell them and hold no duplicates to begin with.
Serial ==
  /\ Caller # {} /\ \A c, d \in Caller : c = d
  /\ ~MayAbort
  /\ \A p \in Genesis : Lower[p.principal] = p.principal
  /\ \A p, q \in Genesis :
       p.workspace = q.workspace /\ p.principal = q.principal /\ p.pattern = q.pattern
       => p = q

DocumentsInv ==
  /\ \A p \in policies : Lower[p.principal] = p.principal
  /\ NoDuplicatePolicy

(***************************************************************************)
(* A call under way, by where it is.                                       *)
(***************************************************************************)
Recording == {"record_created", "record_updated", "record_deleted"}
HasRead   == {"update_authorize", "update_conflict", "update_write",
              "revoke_authorize", "revoke_delete"}
Revoking  == {"revoke_get", "revoke_authorize", "revoke_delete"}

MayGrant(c, pattern) ==
  can_administer_pattern(list_policies_for_principal(call[c].workspace, call[c].actor),
                         call[c].actor, pattern)

Clear(c, principal, besides) ==
  ~find_conflict({p \in list_policies_for_principal(call[c].workspace, Lower[principal]) :
                    p.id \notin besides},
                 principal, call[c].pattern, call[c].role)

\* The document revoke_grant found is the one its arguments describe.
Described(c) ==
  \E p \in get_policy(call[c].workspace, call[c].id) :
    /\ p.principal = call[c].principal
    /\ LowerRole(p.role) = call[c].role
    /\ normalize(p.pattern) = call[c].pattern

\* What was read and what was answered still stands.
StandsInv(c) ==
  pc[c] # "idle" =>
    /\ Lower[call[c].actor] = call[c].actor
    /\ Lower[call[c].principal] = call[c].principal
    /\ pc[c] \in Granting \union Updating => is_valid_role(call[c].role)
    /\ pc[c] \in HasRead    => seen[c] \in get_policy(call[c].workspace, call[c].id)
    /\ pc[c] \in Authorized => MayGrant(c, call[c].pattern)
    /\ pc[c] \in {"update_conflict", "update_write", "revoke_delete"} =>
         MayGrant(c, seen[c].pattern)
    /\ pc[c] = "grant_create" => Clear(c, call[c].principal, {})
    /\ pc[c] = "update_write" => Clear(c, seen[c].principal, {call[c].id})
    /\ pc[c] \in Revoking /\ call[c].op = "revoke_grant" => Described(c)

\* The trail is one record behind only between a change and its record.
FollowsInv(c) ==
  /\ pc[c] \notin Recording    => audit = history
  /\ pc[c] = "record_created" => history = Append(audit, Created(call[c]))
  /\ pc[c] = "record_updated" => history = Append(audit, Updated(call[c], seen[c]))
  /\ pc[c] = "record_deleted" => history = Append(audit, Deleted(call[c], seen[c]))

(***************************************************************************)
(* Bootstrap: the members still to come are valid and distinct, what there *)
(* is of the workspace is what this call made of it, and an owner is among *)
(* them or already there.                                                  *)
(***************************************************************************)
FoundingInv(c) ==
  /\ Bootstrapping(c) =>
       /\ call[c].pattern = WholeWorkspace(call[c].workspace)
       /\ MembersValid(call[c].members)
  /\ pc[c] = "bootstrap_vacant" => OwnerToCome(call[c].members)
  /\ Creating(c) =>
       /\ \A p \in list_policies(call[c].workspace) :
            /\ p.pattern = call[c].pattern
            /\ is_valid_role(p.role)
            /\ \A i \in 1..Len(call[c].members) : p.principal # call[c].members[i].principal
       /\ OwnerToCome(call[c].members) \/ Owned(call[c].workspace)
       /\ \A n \in 1..Len(history) :
            history[n].bootstrap /\ history[n].workspace = call[c].workspace =>
              /\ history[n].actor = call[c].actor
              /\ \E p \in list_policies(call[c].workspace) :
                   p.principal = history[n].principal

\* A workspace that was founded has an owner, who cannot be removed, so that it
\* is never empty again and never founded again.
FoundersInv ==
  /\ FoundedOnce
  /\ \A n \in 1..Len(history) :
       history[n].bootstrap =>
         \/ Owned(history[n].workspace)
         \/ \E c \in Caller : Creating(c) /\ call[c].workspace = history[n].workspace

\* No document is deleted twice, though its deletion may be recorded twice when
\* callers race.
DeletedOnce ==
  \A n, m \in 1..Len(history) :
    /\ history[n].event = "policy.deleted" /\ history[m].event = "policy.deleted"
    /\ history[n].policy_id = history[m].policy_id
    => n = m

SerialInv ==
  /\ GrantsInv
  /\ DocumentsInv
  /\ DeletedOnce
  /\ FoundersInv
  /\ EditsAreGoverned
  /\ \A c \in Caller : StandsInv(c) /\ FollowsInv(c) /\ FoundingInv(c)
============================================================================
