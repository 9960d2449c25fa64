---------------------------- MODULE AccessList ----------------------------
(***************************************************************************)
(* What granting and revoking promise, with nothing of how they do it: an  *)
(* access list of who holds which role on what, and atomic changes to it   *)
(* by people entitled to make them.  There are no documents, no ids, no    *)
(* store calls and no trail; an entry is the access it gives.              *)
(***************************************************************************)
EXTENDS Checks

CONSTANT FirstEntries    \* the access list to begin with

VARIABLE acl

Entry == [workspace : Name, principal : Name, role : STRING, pattern : Path]

OneEntryEach(entries) ==
  \A e, f \in entries :
    /\ e.workspace = f.workspace
    /\ e.principal = f.principal
    /\ e.pattern = f.pattern
    => e = f

Init == acl = FirstEntries

In(workspace) == {e \in acl : e.workspace = workspace}

Administers(actor, workspace, pattern) ==
  can_administer_pattern({e \in In(workspace) : e.principal = actor}, actor, pattern)

\* Nothing the principal holds, besides these, gives e's access or names its pattern.
Needed(e, besides) ==
  \A f \in In(e.workspace) \ besides :
    f.principal = e.principal =>
      /\ f.pattern # e.pattern
      /\ ~(resource_matches(e.pattern, f.pattern) /\ role_outranks_or_equals(f.role, e.role))

(***************************************************************************)
(* The changes, each stated over the entries that appear and those that go. *)
(***************************************************************************)
Appeared == acl' \ acl
Gone     == acl \ acl'

\* grant: someone else, who administers the pattern, adds a needed entry.
Give(actor) ==
  \E e \in Appeared :
    /\ acl' = acl \union {e}
    /\ e \in Entry
    /\ is_valid_role(e.role) /\ IsPattern(e.pattern)
    /\ actor # e.principal
    /\ Administers(actor, e.workspace, e.pattern)
    /\ Needed(e, {})

\* update_grant: someone else, who administers both, turns old into new.
Alter(actor) ==
  \E old \in Gone, new \in Appeared :
    /\ acl' = (acl \ {old}) \union {new}
    /\ new \in Entry
    /\ new.workspace = old.workspace /\ new.principal = old.principal
    /\ is_valid_role(new.role) /\ IsPattern(new.pattern)
    /\ actor # old.principal
    /\ Administers(actor, old.workspace, old.pattern)
    /\ Administers(actor, new.workspace, new.pattern)
    /\ Needed(new, {old})

\* revoke, by id or by value: someone else, who administers it, takes it away.
Take(actor) ==
  \E e \in Gone :
    /\ acl' = acl \ {e}
    /\ actor # e.principal
    /\ Administers(actor, e.workspace, e.pattern)

\* bootstrap_workspace: an empty workspace gets all its members at once, each
\* over the whole workspace and at least one of them an owner.
Found(workspace) ==
  /\ In(workspace) = {}
  /\ Gone = {}
  /\ Appeared \subseteq Entry
  /\ \A e \in Appeared : /\ e.workspace = workspace
                         /\ e.pattern = WholeWorkspace(workspace)
                         /\ is_valid_role(e.role)
  /\ IsPattern(WholeWorkspace(workspace))
  /\ OneEntryEach(Appeared)
  /\ \E e \in Appeared : e.role = "owner"

Next ==
  \/ \E actor \in Name : Give(actor) \/ Alter(actor) \/ Take(actor)
  \/ \E workspace \in Name : Found(workspace)

Spec == Init /\ [][Next]_acl

(***************************************************************************)
(* What the promise amounts to.                                            *)
(***************************************************************************)

\* No principal has two entries on one pattern (grants.py, find_conflict).
NoDuplicateEntry == OneEntryEach(acl)

\* Someone owns the whole workspace.
Owned(workspace) ==
  \E e \in acl : /\ e.workspace = workspace
                 /\ e.role = "owner"
                 /\ e.pattern = WholeWorkspace(workspace)

\* A workspace with a whole-workspace owner never loses its last one: only
\* another such owner could take it away (grants.py, SelfAccessError).
OwnerRemains == [][\A w \in Name : Owned(w) => Owned(w)']_acl
===========================================================================
