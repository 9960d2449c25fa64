---------------------------- MODULE PolicyStore ----------------------------
(***************************************************************************)
(* The store of policy documents (store.py, adapters/firestore.py): one    *)
(* document per policy under its workspace, with an id nobody used before. *)
(* Every operator here is ONE call to the backend, atomic by itself;       *)
(* nothing ties two calls together.  Timestamps are left out.              *)
(***************************************************************************)
EXTENDS Checks

VARIABLES
  policies,   \* the documents stored now
  nextId      \* every id below it has been handed out (uuid4: never twice)

store == <<policies, nextId>>

Policy == [id : Nat, workspace : Name, principal : Name, role : STRING,
           pattern : Path, updated_by : Name]

PolicyStoreTypeOK == policies \subseteq Policy /\ nextId \in Nat

(***************************************************************************)
(* Reads.  Listing by principal compares the stored spelling, so a         *)
(* document stored as XB500 is not among those of xb500.                   *)
(***************************************************************************)
list_policies(workspace) == {p \in policies : p.workspace = workspace}

list_policies_for_principal(workspace, principal) ==
  {p \in list_policies(workspace) : p.principal = principal}

has_any_policies(workspace) == list_policies(workspace) # {}

\* get_policy, as the set of the documents with that key: at most one.
get_policy(workspace, id) == {p \in list_policies(workspace) : p.id = id}

(***************************************************************************)
(* Writes.  Updating a document that is not there is an error of the       *)
(* backend (the caller guards it); deleting one that is not there is not.  *)
(***************************************************************************)
create_policy(workspace, principal, role, pattern, updated_by) ==
  /\ policies' = policies \union
       {[id |-> nextId, workspace |-> workspace, principal |-> principal,
         role |-> role, pattern |-> pattern, updated_by |-> updated_by]}
  /\ nextId' = nextId + 1

\* Slip: the document is set to the given fields, and loses its principal.
SetPolicy(workspace, id, role, pattern, updated_by) ==
  /\ policies' = (policies \ get_policy(workspace, id)) \union
       {[id |-> id, workspace |-> workspace, role |-> role, pattern |-> pattern,
         updated_by |-> updated_by]}
  /\ UNCHANGED nextId

update_policy(workspace, id, role, pattern, updated_by) ==
  /\ policies' = (policies \ get_policy(workspace, id)) \union
       {[p EXCEPT !.role = role, !.pattern = pattern, !.updated_by = updated_by] :
          p \in get_policy(workspace, id)}
  /\ UNCHANGED nextId

\* Slip: the document is emptied, not deleted.
EmptyPolicy(workspace, id) ==
  /\ policies' = (policies \ get_policy(workspace, id)) \union
       {[id |-> id, workspace |-> workspace]}
  /\ UNCHANGED nextId

delete_policy(workspace, id) ==
  /\ policies' = policies \ get_policy(workspace, id)
  /\ UNCHANGED nextId
============================================================================
