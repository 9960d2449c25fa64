------------------------------ MODULE Grants ------------------------------
(***************************************************************************)
(* Granting, updating and revoking access (grants.py), as concurrent       *)
(* callers run it against the shared policy store.                         *)
(*                                                                         *)
(* Every operation reads, checks, reads again and writes in separate calls *)
(* to the store, with no lock and no transaction.  A call of a caller is   *)
(* therefore a sequence of steps, one for each store call together with    *)
(* the local code that follows it; steps of different callers interleave,  *)
(* and a call may die between any two of them.                             *)
(*                                                                         *)
(* A definition whose comment begins "Slip:" is not the code: it is a      *)
(* wrong variant of the one that follows it, with which a property must    *)
(* fail.                                                                   *)
(***************************************************************************)
EXTENDS PolicyStore

CONSTANTS
  Caller,     \* threads of control: processes, request threads
  Requests,   \* the calls callers may make, as they spell them
  MaxCalls,   \* bound: calls begun in a behaviour
  MayAbort,   \* BOOLEAN: may a call die (a store error, a crash)?
  Genesis,    \* the documents in the store to begin with
  FirstId,    \* the first id not yet handed out
  LowerRole(_), \* str.strip().lower() on a role
  NoCall, NoPolicy, NoRole

Members == Seq([principal : Name, role : STRING])

Call == [op : {"grant", "update_grant", "revoke", "revoke_grant", "bootstrap"},
         actor : Name, workspace : Name, principal : Name, role : STRING,
         pattern : Path, id : Nat, members : Members]

\* Filed under the workspace its pattern names, as every lookup assumes.
WellFiled(p) == IsPattern(p.pattern) /\ p.pattern[1] = p.workspace

ASSUME GrantsAssumption ==
  /\ Requests \subseteq Call
  /\ MaxCalls \in Nat
  /\ MayAbort \in BOOLEAN
  /\ NoCall \notin Call
  /\ NoPolicy \notin Policy
  /\ FirstId \in Nat
  /\ \A role \in ROLES : LowerRole(role) = role

ASSUME GenesisAssumption ==
  /\ Genesis \subseteq Policy
  /\ \A p \in Genesis : WellFiled(p) /\ p.id < FirstId
  /\ \A p, q \in Genesis : p.id = q.id => p = q

VARIABLES
  pc,        \* the next store call of each caller, or "idle"
  call,      \* the arguments of its call, normalised, and the id it acts on
  seen,      \* the document it read (existing_policy)
  outcome,   \* how its last call ended
  begun,     \* calls begun so far
  audit,     \* the records emitted, in order (audit.py)
  history    \* what really happened to the store, in order; the code has no such thing

local == <<pc, call, seen, outcome>>
vars  == <<store, local, begun, audit, history>>

Control == {"idle", "grant_authorize", "grant_conflict", "grant_create",
            "update_get", "update_authorize", "update_conflict", "update_write",
            "revoke_get", "revoke_authorize", "revoke_delete",
            "resolve_authorize", "resolve_match",
            "bootstrap_vacant", "bootstrap_create",
            "record_created", "record_updated", "record_deleted"}

Outcome == {"none", "ok", "InvalidRole", "InvalidPattern", "SelfAccess",
            "AccessDenied", "Conflict", "NotFound", "AlreadyBootstrapped",
            "BackendError", "Aborted"}

(***************************************************************************)
(* Audit records: what record_change is handed for a call k, given the     *)
(* document `was` it replaced or deleted.  An absent role is NoRole, an    *)
(* absent pattern <<>>.                                                    *)
(***************************************************************************)
Change == [event : {"policy.created", "policy.updated", "policy.deleted"},
           actor : Name, workspace : Name, policy_id : Nat, principal : Name,
           role : STRING \union {NoRole}, pattern : Path,
           previous_role : STRING \union {NoRole}, previous_pattern : Path,
           bootstrap : BOOLEAN]

Created(k) ==
  [event |-> "policy.created", actor |-> k.actor, workspace |-> k.workspace,
   policy_id |-> k.id, principal |-> k.principal, role |-> k.role,
   pattern |-> k.pattern, previous_role |-> NoRole, previous_pattern |-> <<>>,
   bootstrap |-> k.op = "bootstrap"]

Updated(k, was) ==
  [event |-> "policy.updated", actor |-> k.actor, workspace |-> k.workspace,
   policy_id |-> k.id, principal |-> was.principal, role |-> k.role,
   pattern |-> k.pattern, previous_role |-> was.role,
   previous_pattern |-> was.pattern, bootstrap |-> FALSE]

Deleted(k, was) ==
  [event |-> "policy.deleted", actor |-> k.actor, workspace |-> k.workspace,
   policy_id |-> k.id, principal |-> was.principal, role |-> NoRole,
   pattern |-> <<>>, previous_role |-> was.role,
   previous_pattern |-> was.pattern, bootstrap |-> FALSE]

\* Slip: only a policy on this very pattern counts.
ExactConflict(held, principal, pattern, role) ==
  \E p \in held : Lower[p.principal] = Lower[principal] /\ p.pattern = pattern

\* Slip: only a policy that already gives the role counts.
RedundancyConflict(held, principal, pattern, role) ==
  \E p \in held : /\ Lower[p.principal] = Lower[principal]
                  /\ resource_matches(pattern, p.pattern)
                  /\ role_outranks_or_equals(p.role, role)

(***************************************************************************)
(* Does granting this conflict with a policy the principal holds: one on   *)
(* this very pattern, or a broader one at least as privileged?             *)
(***************************************************************************)
find_conflict(held, principal, pattern, role) ==
  \E p \in held :
    /\ Lower[p.principal] = Lower[principal]
    /\ \/ p.pattern = pattern
       \/ /\ resource_matches(pattern, p.pattern)
          /\ role_outranks_or_equals(p.role, role)

TypeOK ==
  /\ PolicyStoreTypeOK
  /\ pc \in [Caller -> Control]
  /\ call \in [Caller -> Call \union {NoCall}]
  /\ seen \in [Caller -> Policy \union {NoPolicy}]
  /\ outcome \in [Caller -> Outcome]
  /\ begun \in Nat
  /\ audit \in Seq(Change)
  /\ history \in Seq(Change)

Init ==
  /\ policies = Genesis
  /\ nextId = FirstId
  /\ pc = [c \in Caller |-> "idle"]
  /\ call = [c \in Caller |-> NoCall]
  /\ seen = [c \in Caller |-> NoPolicy]
  /\ outcome = [c \in Caller |-> "none"]
  /\ begun = 0
  /\ audit = <<>>
  /\ history = <<>>

(***************************************************************************)
(* Control: a call goes on to its next store call, or ends.                *)
(***************************************************************************)
Goto(c, at) == pc' = [pc EXCEPT ![c] = at] /\ UNCHANGED outcome

Return(c, result) ==
  /\ pc' = [pc EXCEPT ![c] = "idle"]
  /\ call' = [call EXCEPT ![c] = NoCall]
  /\ seen' = [seen EXCEPT ![c] = NoPolicy]
  /\ outcome' = [outcome EXCEPT ![c] = result]

\* A step that only read the store.
ReadOnly == UNCHANGED <<store, begun, audit, history>>

(***************************************************************************)
(* The start of a call: arguments are validated and normalised before the  *)
(* store is touched.  The refusal is that of the first check that fails.   *)
(***************************************************************************)
NormalizedMembers(members) ==
  [i \in 1..Len(members) |->
     [principal |-> Lower[members[i].principal], role |-> members[i].role]]

Normalized(r) ==
  [r EXCEPT !.actor = Lower[r.actor], !.workspace = Lower[r.workspace],
            !.principal = Lower[r.principal],
            !.pattern = IF r.op = "bootstrap" THEN WholeWorkspace(Lower[r.workspace])
                                              ELSE normalize(r.pattern),
            !.members = NormalizedMembers(r.members)]

\* grant and revoke_grant
ByValueRefusal(k) ==
  IF ~is_valid_role(k.role) THEN "InvalidRole"
  ELSE IF ~IsPrincipal(k.principal) \/ ~IsPattern(k.pattern) THEN "InvalidPattern"
  ELSE IF k.principal = k.actor THEN "SelfAccess"
  ELSE "none"

UpdateRefusal(k) ==
  IF ~is_valid_role(k.role) THEN "InvalidRole"
  ELSE IF ~IsPattern(k.pattern) THEN "InvalidPattern"
  ELSE "none"

\* One entry of the bootstrap list, given those before it.
MemberRefusal(members, i) ==
  IF ~is_valid_role(members[i].role) THEN "InvalidRole"
  ELSE IF ~IsPrincipal(members[i].principal) THEN "InvalidPattern"
  ELSE IF \E j \in 1..(i - 1) : members[j].principal = members[i].principal THEN "Conflict"
  ELSE "none"

FirstBadMember(members) ==
  CHOOSE i \in 1..Len(members) :
    /\ MemberRefusal(members, i) # "none"
    /\ \A j \in 1..(i - 1) : MemberRefusal(members, j) = "none"

\* Slip: nobody asks for an owner.
OwnerlessRefusal(k) ==
  IF ~IsPattern(k.pattern) THEN "InvalidPattern"
  ELSE IF \E i \in 1..Len(k.members) : MemberRefusal(k.members, i) # "none"
  THEN MemberRefusal(k.members, FirstBadMember(k.members)) ELSE "none"

BootstrapRefusal(k) ==
  IF ~IsPattern(k.pattern) THEN "InvalidPattern"
  ELSE IF \E i \in 1..Len(k.members) : MemberRefusal(k.members, i) # "none"
  THEN MemberRefusal(k.members, FirstBadMember(k.members))
  ELSE IF \A i \in 1..Len(k.members) : k.members[i].role # "owner"
  THEN "InvalidRole" ELSE "none"

Refusal(k) ==
  CASE k.op \in {"grant", "revoke_grant"} -> ByValueRefusal(k)
    [] k.op = "update_grant"              -> UpdateRefusal(k)
    [] k.op = "revoke"                    -> "none"
    [] k.op = "bootstrap"                 -> BootstrapRefusal(k)

FirstStoreCall(op) ==
  CASE op = "grant"        -> "grant_authorize"
    [] op = "update_grant" -> "update_get"
    [] op = "revoke"       -> "revoke_get"
    [] op = "revoke_grant" -> "resolve_authorize"
    [] op = "bootstrap"    -> "bootstrap_vacant"

\* Entering one of the functions with request r; the caller is idle.
Enter(c, r) ==
  LET k == Normalized(r) IN
  IF Refusal(k) # "none"
  THEN Return(c, Refusal(k))
  ELSE /\ Goto(c, FirstStoreCall(r.op))
       /\ call' = [call EXCEPT ![c] = k]
       /\ UNCHANGED seen

Begin(c) ==
  /\ pc[c] = "idle"
  /\ begun < MaxCalls
  /\ begun' = begun + 1
  /\ \E r \in Requests : Enter(c, r)
  /\ UNCHANGED <<store, audit, history>>

\* Slip: authority over one of the patterns is enough.
AuthorizeAny(c, patterns, granted) ==
  LET held == list_policies_for_principal(call[c].workspace, call[c].actor)
      any  == \E pattern \in patterns : can_administer_pattern(held, call[c].actor, pattern)
  IN  /\ \/ any /\ Goto(c, granted) /\ UNCHANGED <<call, seen>>
         \/ ~any /\ Return(c, "AccessDenied")
      /\ ReadOnly

(***************************************************************************)
(* The actor's policies are listed: do they administer all the patterns?   *)
(***************************************************************************)
Authorize(c, patterns, granted) ==
  LET k == call[c]
      held == list_policies_for_principal(k.workspace, k.actor)
  IN  /\ \/ /\ \A pattern \in patterns : can_administer_pattern(held, k.actor, pattern)
            /\ Goto(c, granted)
            /\ UNCHANGED <<call, seen>>
         \/ /\ \E pattern \in patterns : ~can_administer_pattern(held, k.actor, pattern)
            /\ Return(c, "AccessDenied")
      /\ ReadOnly

\* The principal's policies are listed, less the one being updated, if any.
CheckConflict(c, principal, besides, clear) ==
  LET k == call[c]
      held == {p \in list_policies_for_principal(k.workspace, Lower[principal]) :
                 p.id \notin besides}
  IN  /\ \/ /\ ~find_conflict(held, principal, k.pattern, k.role)
            /\ Goto(c, clear)
            /\ UNCHANGED <<call, seen>>
         \/ /\ find_conflict(held, principal, k.pattern, k.role)
            /\ Return(c, "Conflict")
      /\ ReadOnly

\* Slip: the stored spelling of the principal is compared with the actor.
FetchAsStored(c, found_at) ==
  LET others == {p \in get_policy(call[c].workspace, call[c].id) :
                   p.principal # call[c].actor}
  IN  /\ \/ others = {} /\ Return(c, "NotFound")
         \/ \E p \in others :
              seen' = [seen EXCEPT ![c] = p] /\ Goto(c, found_at) /\ UNCHANGED call
      /\ ReadOnly

\* Slip: one's own policies are fetched like any other.
FetchAnyones(c, found_at) ==
  /\ \E p \in get_policy(call[c].workspace, call[c].id) : seen' = [seen EXCEPT ![c] = p]
  /\ Goto(c, found_at)
  /\ UNCHANGED call
  /\ ReadOnly

\* The policy is fetched by id; nobody may touch their own.
Fetch(c, found_at) ==
  LET k == call[c]
      found == get_policy(k.workspace, k.id)
  IN  /\ \/ /\ found = {}
            /\ Return(c, "NotFound")
         \/ \E p \in found :
              /\ Lower[p.principal] = k.actor
              /\ Return(c, "SelfAccess")
         \/ \E p \in found :
              /\ Lower[p.principal] # k.actor
              /\ seen' = [seen EXCEPT ![c] = p]
              /\ Goto(c, found_at)
              /\ UNCHANGED call
      /\ ReadOnly

(***************************************************************************)
(* grant                                                                   *)
(***************************************************************************)
GrantAuthorize(c) ==
  /\ pc[c] = "grant_authorize"
  /\ Authorize(c, {call[c].pattern}, "grant_conflict")

GrantCheckConflict(c) ==
  /\ pc[c] = "grant_conflict"
  /\ CheckConflict(c, call[c].principal, {}, "grant_create")

GrantCreate(c) ==
  LET k == [call[c] EXCEPT !.id = nextId] IN
  /\ pc[c] = "grant_create"
  /\ create_policy(k.workspace, k.principal, k.role, k.pattern, k.actor)
  /\ history' = Append(history, Created(k))
  /\ call' = [call EXCEPT ![c] = k]
  /\ Goto(c, "record_created")
  /\ UNCHANGED <<seen, begun, audit>>

(***************************************************************************)
(* update_grant: authority over the pattern it has and the one it gets.    *)
(***************************************************************************)
UpdateGet(c) == pc[c] = "update_get" /\ Fetch(c, "update_authorize")

\* Slip: authority over the new pattern only.
UpdateAuthorizeNew(c) ==
  /\ pc[c] = "update_authorize"
  /\ Authorize(c, {call[c].pattern}, "update_conflict")

UpdateAuthorize(c) ==
  /\ pc[c] = "update_authorize"
  /\ Authorize(c, {seen[c].pattern, call[c].pattern}, "update_conflict")

UpdateCheckConflict(c) ==
  /\ pc[c] = "update_conflict"
  /\ CheckConflict(c, seen[c].principal, {call[c].id}, "update_write")

\* Slip: the document is written whole, whether or not it is still there.
UpdateUpserts(c) ==
  LET k == call[c] IN
  /\ pc[c] = "update_write"
  /\ policies' = (policies \ get_policy(k.workspace, k.id)) \union
       {[seen[c] EXCEPT !.role = k.role, !.pattern = k.pattern, !.updated_by = k.actor]}
  /\ history' = Append(history, Updated(k, seen[c]))
  /\ Goto(c, "record_updated")
  /\ UNCHANGED <<nextId, call, seen, begun, audit>>

UpdateWrite(c) ==
  LET k == call[c]
      found == get_policy(k.workspace, k.id)
  IN  /\ pc[c] = "update_write"
      /\ \/ /\ found = {}
            /\ Return(c, "BackendError")
            /\ UNCHANGED <<store, history>>
         \/ \E p \in found :
              /\ update_policy(k.workspace, k.id, k.role, k.pattern, k.actor)
              /\ history' = Append(history, Updated(k, p))
              /\ Goto(c, "record_updated")
              /\ UNCHANGED <<call, seen>>
      /\ UNCHANGED <<begun, audit>>

(***************************************************************************)
(* revoke: the delete succeeds whether or not the document is still there. *)
(***************************************************************************)
RevokeGet(c) == pc[c] = "revoke_get" /\ Fetch(c, "revoke_authorize")

RevokeAuthorize(c) ==
  /\ pc[c] = "revoke_authorize"
  /\ Authorize(c, {seen[c].pattern}, "revoke_delete")

RevokeDelete(c) ==
  LET k == call[c]
      found == get_policy(k.workspace, k.id)
  IN  /\ pc[c] = "revoke_delete"
      /\ delete_policy(k.workspace, k.id)
      /\ \/ found = {} /\ UNCHANGED history
         \/ \E p \in found : history' = Append(history, Deleted(k, p))
      /\ Goto(c, "record_deleted")
      /\ UNCHANGED <<call, seen, begun, audit>>

(***************************************************************************)
(* revoke_grant: authority over the pattern named, then the one document   *)
(* that says exactly this; revoke, which knows only its id, does the rest. *)
(***************************************************************************)
ResolveAuthorize(c) ==
  /\ pc[c] = "resolve_authorize"
  /\ Authorize(c, {call[c].pattern}, "resolve_match")

\* Slip: the role named in the revocation is not compared.
ResolveAnyRole(c) ==
  LET k == call[c] IN
  /\ pc[c] = "resolve_match"
  /\ \E p \in list_policies_for_principal(k.workspace, k.principal) :
       /\ normalize(p.pattern) = k.pattern
       /\ call' = [call EXCEPT ![c].id = p.id]
  /\ Goto(c, "revoke_get")
  /\ UNCHANGED seen
  /\ ReadOnly

\* The role asked for is one of ROLES; the one stored may be spelt in any way.  Which
\* refusal a miss gets is only a matter of its wording.
ResolveMatch(c) ==
  LET k == call[c]
      exact == {p \in list_policies_for_principal(k.workspace, k.principal) :
                  normalize(p.pattern) = k.pattern /\ LowerRole(p.role) = k.role}
  IN  /\ pc[c] = "resolve_match"
      /\ \/ /\ exact = {}
            /\ Return(c, "NotFound")
         \/ \E p \in exact :
              /\ call' = [call EXCEPT ![c].id = p.id]
              /\ Goto(c, "revoke_get")
              /\ UNCHANGED seen
      /\ ReadOnly

(***************************************************************************)
(* bootstrap_workspace: the workspace must be empty, then one document per *)
(* member is created and recorded, in the order of the list.               *)
(***************************************************************************)
\* Slip: it is the actor who must have no policy in the workspace yet.
BootstrapCheckNewcomer(c) ==
  /\ pc[c] = "bootstrap_vacant"
  /\ list_policies_for_principal(call[c].workspace, call[c].actor) = {}
  /\ Goto(c, "bootstrap_create")
  /\ UNCHANGED <<call, seen>>
  /\ ReadOnly

BootstrapCheckVacant(c) ==
  /\ pc[c] = "bootstrap_vacant"
  /\ \/ /\ ~has_any_policies(call[c].workspace)
        /\ Goto(c, "bootstrap_create")
        /\ UNCHANGED <<call, seen>>
     \/ /\ has_any_policies(call[c].workspace)
        /\ Return(c, "AlreadyBootstrapped")
  /\ ReadOnly

BootstrapCreate(c) ==
  LET member == Head(call[c].members)
      k == [call[c] EXCEPT !.principal = member.principal, !.role = member.role,
                           !.id = nextId, !.members = Tail(@)]
  IN  /\ pc[c] = "bootstrap_create"
      /\ create_policy(k.workspace, k.principal, k.role, k.pattern, k.actor)
      /\ history' = Append(history, Created(k))
      /\ call' = [call EXCEPT ![c] = k]
      /\ Goto(c, "record_created")
      /\ UNCHANGED <<seen, begun, audit>>

(***************************************************************************)
(* record_change, after the write; a failing sink changes nothing.         *)
(***************************************************************************)
\* Slip: bootstrap is recorded once, at its end.
RecordLastCreated(c) ==
  LET more == call[c].op = "bootstrap" /\ call[c].members # <<>> IN
  /\ pc[c] = "record_created"
  /\ \/ more /\ Goto(c, "bootstrap_create") /\ UNCHANGED <<audit, call, seen>>
     \/ ~more /\ audit' = Append(audit, Created(call[c])) /\ Return(c, "ok")
  /\ UNCHANGED <<store, begun, history>>

RecordCreated(c) ==
  /\ pc[c] = "record_created"
  /\ audit' = Append(audit, Created(call[c]))
  /\ \/ /\ call[c].op = "bootstrap" /\ call[c].members # <<>>
        /\ Goto(c, "bootstrap_create")
        /\ UNCHANGED <<call, seen>>
     \/ /\ ~(call[c].op = "bootstrap" /\ call[c].members # <<>>)
        /\ Return(c, "ok")
  /\ UNCHANGED <<store, begun, history>>

\* Slip: the record shows the policy as it was read.
RecordStale(c) ==
  /\ pc[c] = "record_updated"
  /\ audit' = Append(audit, Updated([call[c] EXCEPT !.role = seen[c].role,
                                                   !.pattern = seen[c].pattern], seen[c]))
  /\ Return(c, "ok")
  /\ UNCHANGED <<store, begun, history>>

RecordUpdated(c) ==
  /\ pc[c] = "record_updated"
  /\ audit' = Append(audit, Updated(call[c], seen[c]))
  /\ Return(c, "ok")
  /\ UNCHANGED <<store, begun, history>>

\* Slip: the record repeats the call's arguments.
RecordArguments(c) ==
  /\ pc[c] = "record_deleted"
  /\ audit' = Append(audit, Deleted(call[c], call[c]))
  /\ Return(c, "ok")
  /\ UNCHANGED <<store, begun, history>>

RecordDeleted(c) ==
  /\ pc[c] = "record_deleted"
  /\ audit' = Append(audit, Deleted(call[c], seen[c]))
  /\ Return(c, "ok")
  /\ UNCHANGED <<store, begun, history>>

(***************************************************************************)
(* A call dies between two store calls: a store call raises (unavailable,  *)
(* the process ends).  Nothing it wrote is undone.                         *)
(***************************************************************************)
Abort(c) ==
  /\ MayAbort
  /\ pc[c] # "idle"
  /\ Return(c, "Aborted")
  /\ ReadOnly

Step(c) ==
  \/ GrantAuthorize(c) \/ GrantCheckConflict(c) \/ GrantCreate(c)
  \/ UpdateGet(c) \/ UpdateAuthorize(c) \/ UpdateCheckConflict(c) \/ UpdateWrite(c)
  \/ RevokeGet(c) \/ RevokeAuthorize(c) \/ RevokeDelete(c)
  \/ ResolveAuthorize(c) \/ ResolveMatch(c)
  \/ BootstrapCheckVacant(c) \/ BootstrapCreate(c)
  \/ RecordCreated(c) \/ RecordUpdated(c) \/ RecordDeleted(c)

\* The bound on calls is used up and every call has ended.
Done ==
  /\ begun = MaxCalls
  /\ \A c \in Caller : pc[c] = "idle"
  /\ UNCHANGED vars

Next == Done \/ \E c \in Caller : Begin(c) \/ Step(c) \/ Abort(c)

Spec == Init /\ [][Next]_vars

\* A call under way is a running thread: it gets to its next step.
Fairness == \A c \in Caller : WF_vars(Step(c))

FairSpec == Spec /\ Fairness

(***************************************************************************)
(* Properties that hold whatever the interleaving.                         *)
(***************************************************************************)

\* Every stored policy is filed under the workspace its pattern names, though
\* grant() and update_grant() take the two separately and never compare them:
\* only the actor's authority ties them together.
FiledWhereFound == \A p \in policies : WellFiled(p)

\* What the store held, before the n-th change, at one time or another.
HeldBefore(n) ==
  Genesis \union {history[m] : m \in {j \in 1..(n - 1) : history[j].event # "policy.deleted"}}

\* The n-th change was made in a workspace where the actor had once owned the pattern.
OnceOwned(n, actor, pattern) ==
  \E h \in HeldBefore(n) :
    /\ h.workspace = history[n].workspace
    /\ Lower[h.principal] = Lower[actor]
    /\ h.role = "owner"
    /\ resource_matches(pattern, h.pattern)

\* Access is only ever handed out by someone who owned it: behind every policy
\* created or changed outside bootstrap there is an earlier owner policy of the
\* actor, in the same workspace, covering the pattern it gives.
AuthorityIsRooted ==
  \A n \in 1..Len(history) :
    history[n].event # "policy.deleted" /\ ~history[n].bootstrap =>
      OnceOwned(n, history[n].actor, history[n].pattern)

\* Outside bootstrap nobody changes their own access: not by a policy stored in
\* another spelling of their name, and not by one that changed since it was read.
NobodyServesThemselves ==
  \A n \in 1..Len(history) :
    ~history[n].bootstrap => history[n].actor # Lower[history[n].principal]

\* A revoked policy stays revoked, whatever update was under way.
RevokedStaysRevoked ==
  \A n \in 1..Len(history) :
    history[n].event = "policy.deleted" =>
      \A p \in policies : p.id # history[n].policy_id

\* What the record r, bar what it says was there before, has in common with h.
SaysOf(r, h) ==
  [h EXCEPT !.previous_role = r.previous_role, !.previous_pattern = r.previous_pattern] = r

\* What is recorded happened: a creation or an update just as recorded, and
\* a deletion at least of that policy of that principal, by whomever.
RecordsAreTruthful ==
  \A a \in 1..Len(audit) : \E n \in 1..Len(history) :
    \/ SaysOf(audit[a], history[n])
    \/ /\ audit[a].event = "policy.deleted"
       /\ history[n].event = "policy.deleted"
       /\ history[n].workspace = audit[a].workspace
       /\ history[n].policy_id = audit[a].policy_id
       /\ history[n].principal = audit[a].principal

\* Every change is recorded in the end, when calls do not die.
EveryChangeIsRecorded ==
  \A n \in 1..(2 * MaxCalls) :
    (Len(history) >= n) ~>
      (/\ Len(history) >= n
       /\ \E a \in 1..Len(audit) : SaysOf(audit[a], history[n]))

\* A workspace comes into being with an owner of the whole of it: until anything
\* is revoked or updated, and if calls do not die, bootstrap_workspace under way
\* is the only time there are policies and no such owner.
WholeOwner(p, workspace) ==
  p.workspace = workspace /\ p.role = "owner" /\ p.pattern = WholeWorkspace(workspace)

Owned(workspace) == \E p \in policies : WholeOwner(p, workspace)

Idle == \A c \in Caller : pc[c] = "idle"

BornOwned ==
  /\ Idle
  /\ \A n \in 1..Len(history) : history[n].event = "policy.created"
  => \A w \in {history[n].workspace : n \in 1..Len(history)} : Owned(w)
===========================================================================
