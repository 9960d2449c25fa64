--------------------------- MODULE SerialGrants ---------------------------
(***************************************************************************)
(* One caller at a time: the operations of Grants implement the atomic     *)
(* access list.  The documents of a workspace whose bootstrap is under way *)
(* show only once the last of them is written.                             *)
(***************************************************************************)
EXTENDS Grants

Founding(workspace) ==
  \E c \in Caller :
    /\ pc[c] \in {"bootstrap_create", "record_created"}
    /\ call[c].op = "bootstrap"
    /\ call[c].members # <<>>
    /\ call[c].workspace = workspace

Access(documents) ==
  {[workspace |-> p.workspace, principal |-> p.principal, role |-> p.role,
    pattern |-> p.pattern] : p \in documents}

Promise == INSTANCE AccessList WITH
  acl <- Access({p \in policies : ~Founding(p.workspace)}),
  FirstEntries <- Access(Genesis)

\* Every behaviour of the serial program is one of the access list.
ImplementsAccessList == Promise!Spec

(***************************************************************************)
(* Properties the checks give one caller at a time, and lose when two      *)
(* callers interleave.                                                     *)
(***************************************************************************)
\* find_conflict: two documents for one principal and pattern is always a bug.
NoDuplicatePolicy ==
  \A p, q \in policies :
    /\ p.workspace = q.workspace
    /\ Lower[p.principal] = Lower[q.principal]
    /\ p.pattern = q.pattern
    => p.id = q.id

\* A workspace somebody owns as a whole is never left without such an owner.
OwnerRemains == [][\A w \in Name : Owned(w) => Owned(w)']_policies

\* The trail is the history (audit.py): same changes, same order, same previous
\* values, at most the last one still to be recorded.
TrailIsExact ==
  /\ Len(audit) <= Len(history)
  /\ audit = SubSeq(history, 1, Len(audit))
  /\ Idle => audit = history

\* A deletion is recorded only if there was one (audit.py, README).
DeletionsHappened ==
  \A a, b \in 1..Len(audit) :
    /\ audit[a].event = "policy.deleted" /\ audit[b].event = "policy.deleted"
    /\ audit[a].policy_id = audit[b].policy_id
    => a = b

\* revoke_grant deletes the policy its arguments describe, or none.
RevokeIsExact ==
  [][\A c \in Caller :
       pc[c] = "revoke_delete" /\ pc'[c] = "record_deleted" /\ call[c].op = "revoke_grant" =>
         \A p \in policies \ policies' :
           /\ p.principal = call[c].principal
           /\ LowerRole(p.role) = call[c].role
           /\ normalize(p.pattern) = call[c].pattern]_vars

\* A workspace is bootstrapped once: by one actor, one policy a principal.
FoundedOnce ==
  \A n, m \in 1..Len(history) :
    /\ history[n].bootstrap /\ history[m].bootstrap
    /\ history[n].workspace = history[m].workspace
    => /\ history[n].actor = history[m].actor
       /\ history[n].principal = history[m].principal => n = m

\* An update replaces a policy its actor had authority over (update_grant).
EditsAreGoverned ==
  \A n \in 1..Len(history) :
    history[n].event = "policy.updated" =>
      OnceOwned(n, history[n].actor, history[n].previous_pattern)

\* An actor refused a grant held nothing, in any spelling, that allowed it.
DenialIsDeserved ==
  [][\A c \in Caller :
       pc[c] = "grant_authorize" /\ pc'[c] = "idle" /\ outcome'[c] = "AccessDenied" =>
         ~can_administer_pattern(list_policies(call[c].workspace),
                                 call[c].actor, call[c].pattern)]_vars
===========================================================================
