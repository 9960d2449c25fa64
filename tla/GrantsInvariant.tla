-------------------------- MODULE GrantsInvariant --------------------------
(***************************************************************************)
(* Why the properties of Grants that hold under every interleaving hold:   *)
(* what is true of the store, of what happened to it, and of a call at     *)
(* each of its steps.  The conjunction is inductive.                       *)
(***************************************************************************)
EXTENDS Grants

\* All that has been stored so far, deleted or not.
Held == HeldBefore(Len(history) + 1)

(***************************************************************************)
(* A process may go from one database to another (Databases): away are the *)
(* documents of the one it is not using now, origin those that one began   *)
(* with.  There are none where the store is the only one.                  *)
(***************************************************************************)

\* Two documents never share an id, and an id is never handed out again.
StoreInv(away) ==
  /\ away \subseteq Policy
  /\ \A p \in policies \union away : WellFiled(p) /\ p.id < nextId
  /\ \A p, q \in policies : p.id = q.id => p = q
  /\ \A p \in policies, q \in away : p.id = q.id => p.principal = q.principal

\* The authority behind a change was owned, in one of the databases.
RootedAt(n, origin) ==
  \/ OnceOwned(n, history[n].actor, history[n].pattern)
  \/ \E h \in origin : /\ h.workspace = history[n].workspace
                       /\ Lower[h.principal] = Lower[history[n].actor]
                       /\ h.role = "owner"
                       /\ resource_matches(history[n].pattern, h.pattern)

RootedIn(origin) ==
  \A n \in 1..Len(history) :
    history[n].event # "policy.deleted" /\ ~history[n].bootstrap => RootedAt(n, origin)

\* What is stored now was put there as it is.
TrailInv(away, origin) ==
  /\ \A p \in policies \union away : \E h \in Held \union origin :
       /\ h.workspace = p.workspace /\ h.principal = p.principal
       /\ h.role = p.role           /\ h.pattern = p.pattern
  /\ NobodyServesThemselves
  /\ RootedIn(origin)

(***************************************************************************)
(* A call under way, by where it is.                                       *)
(***************************************************************************)
Granting == {"grant_authorize", "grant_conflict", "grant_create"}
Updating == {"update_get", "update_authorize", "update_conflict", "update_write"}

\* After can_administer_pattern said yes to the pattern that is to be written.
Authorized == {"grant_conflict", "grant_create", "update_conflict", "update_write"}

\* Between reading a document and ending the call.
Informed == {"update_authorize", "update_conflict", "update_write", "record_updated",
             "revoke_authorize", "revoke_delete", "record_deleted"}

Bootstrapping(c) ==
  \/ pc[c] \in {"bootstrap_vacant", "bootstrap_create"}
  \/ pc[c] = "record_created" /\ call[c].op = "bootstrap"

\* The document read is still the one with that id, if there is one, and it is
\* still of the same principal: an update changes neither.
KnowsWhose(c, away) ==
  /\ seen[c] \in Policy
  /\ seen[c].id = call[c].id
  /\ seen[c].id < nextId
  /\ Lower[seen[c].principal] # call[c].actor
  /\ \A p \in policies \union away : p.id = seen[c].id => p.principal = seen[c].principal

\* Authority, once found, stays rooted in what was stored, though the policy it
\* came from may be gone by the time of the write.
HasAuthority(c, origin) ==
  /\ call[c].pattern[1] = call[c].workspace
  /\ can_administer_pattern({h \in Held \union origin : h.workspace = call[c].workspace},
                            call[c].actor, call[c].pattern)

Founds(c) ==
  /\ call[c].op = "bootstrap"
  /\ IsPattern(call[c].pattern)
  /\ call[c].pattern[1] = call[c].workspace
  /\ pc[c] # "record_created" => call[c].members # <<>>

CallInv(c, away, origin) ==
  pc[c] # "idle" =>
    /\ call[c] \in Call
    /\ pc[c] \in Granting   => /\ call[c].op = "grant"
                               /\ Lower[call[c].principal] # call[c].actor
    /\ pc[c] \in Granting \union Updating => IsPattern(call[c].pattern)
    /\ pc[c] \in Informed   => KnowsWhose(c, away)
    /\ pc[c] \in Authorized => HasAuthority(c, origin)
    /\ Bootstrapping(c)     => Founds(c)

\* The facts together.  Each step of each call keeps them, which none of the
\* properties of Grants alone could be shown to: what a write does depends on
\* what the steps before it established and other callers cannot undo.
RacingInv(away, origin) ==
  /\ TypeOK
  /\ StoreInv(away)
  /\ TrailInv(away, origin)
  /\ \A c \in Caller : CallInv(c, away, origin)

\* Where there is one store, what was deleted is gone from it for good.
DeletedIsGone ==
  \A n \in 1..Len(history) :
    history[n].event = "policy.deleted" =>
      history[n].policy_id < nextId /\ \A p \in policies : p.id # history[n].policy_id

GrantsInv == RacingInv({}, {}) /\ DeletedIsGone

(***************************************************************************)
(* Why the trail is truthful: what a call is about to record has happened. *)
(***************************************************************************)

\* A document with the id, the place and the principal of p has been deleted.
Revoked(p) ==
  \E n \in 1..Len(history) :
    /\ history[n].event = "policy.deleted"
    /\ history[n].policy_id = p.id
    /\ history[n].workspace = p.workspace
    /\ history[n].principal = p.principal

\* It is still there, whatever it says by now.
StillStored(p) ==
  \E q \in policies :
    q.id = p.id /\ q.workspace = p.workspace /\ q.principal = p.principal

\* The record of a deletion says whose policy was read, not what was deleted: it
\* is true even if another call's delete came first, because a document that was
\* read never leaves the store but by a deletion, and its principal never changes.
RecordInv(c) ==
  /\ pc[c] = "record_created" => \E n \in 1..Len(history) : history[n] = Created(call[c])
  /\ pc[c] = "record_updated" =>
       \E n \in 1..Len(history) : SaysOf(Updated(call[c], seen[c]), history[n])
  /\ pc[c] \in Informed => /\ seen[c].workspace = call[c].workspace
                           /\ StillStored(seen[c]) \/ Revoked(seen[c])
  /\ pc[c] = "record_deleted" => Revoked(seen[c])

\* The inductive invariant of the trail, on top of that of the store.
RecordsInv ==
  /\ GrantsInv
  /\ RecordsAreTruthful
  /\ \A c \in Caller : RecordInv(c)

(***************************************************************************)
(* Why workspaces are born owned, if no call dies and the first documents  *)
(* leave none ownerless: until something is updated or revoked, documents  *)
(* only accumulate, and a bootstrap under way that has not stored an owner *)
(* yet has one to come.  Whatever else is in the workspace was granted by  *)
(* somebody whose own policy came from a bootstrap or was there at first.  *)
(***************************************************************************)
BeginsOwned ==
  /\ ~MayAbort
  /\ \A p \in Genesis : \E q \in Genesis : WholeOwner(q, p.workspace)

OnlyCreated == \A n \in 1..Len(history) : history[n].event = "policy.created"

Creating(c) == pc[c] \in {"bootstrap_create", "record_created"} /\ call[c].op = "bootstrap"

MembersValid(members) ==
  \A i \in 1..Len(members) :
    /\ is_valid_role(members[i].role)
    /\ Lower[members[i].principal] = members[i].principal
    /\ \A j \in 1..Len(members) : members[i].principal = members[j].principal => i = j

OwnerToCome(members) == \E i \in 1..Len(members) : members[i].role = "owner"

BirthInv(c) ==
  Bootstrapping(c) =>
    /\ call[c].pattern = WholeWorkspace(call[c].workspace)
    /\ OnlyCreated => OwnerToCome(call[c].members) \/ Owned(call[c].workspace)

BirthsInv ==
  /\ GrantsInv
  /\ OnlyCreated =>
       /\ \A p \in Genesis : Owned(p.workspace)
       /\ \A n \in 1..Len(history) :
            \/ Owned(history[n].workspace)
            \/ \E c \in Caller : Creating(c) /\ call[c].workspace = history[n].workspace
  /\ \A c \in Caller : BirthInv(c)
============================================================================
