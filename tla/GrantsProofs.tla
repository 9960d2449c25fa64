--------------------------- MODULE GrantsProofs ---------------------------
(***************************************************************************)
(* What holds of Grants under every interleaving, for any callers,         *)
(* requests, genesis and bound: the inductive invariant and the safety     *)
(* properties that follow from it; that the trail is truthful; and that    *)
(* workspaces are born owned.  Then what holds when calls come one at a    *)
(* time: the operations implement the access list, and the checks keep     *)
(* what they promise.                                                      *)
(***************************************************************************)
EXTENDS SerialInvariant, PatternsProofs

(***************************************************************************)
(* What has been stored so far, as history grows.                          *)
(***************************************************************************)
LEMMA HeldGrows ==
  ASSUME history \in Seq(Change), NEW h \in Change, history' = Append(history, h)
  PROVE  /\ Len(history') = Len(history) + 1
         /\ history'[Len(history) + 1] = h
         /\ \A n \in 1..Len(history) : history'[n] = history[n]
         /\ \A n \in 1..(Len(history) + 1) : HeldBefore(n)' = HeldBefore(n)
         /\ Held \subseteq Held'
         /\ h.event # "policy.deleted" => h \in Held'
<1>1. /\ Len(history) \in Nat
      /\ Len(history') = Len(history) + 1
      /\ history'[Len(history) + 1] = h
      /\ \A n \in 1..Len(history) : history'[n] = history[n]
  OBVIOUS
<1>2. ASSUME NEW n \in 1..(Len(history) + 1)
      PROVE  HeldBefore(n)' = HeldBefore(n)
  <2>1. \A m \in 1..(n - 1) : history'[m] = history[m]
    BY <1>1
  <2> QED
    BY <2>1 DEF HeldBefore
<1>3. Held \subseteq Held'
  BY <1>1 DEF Held, HeldBefore
<1>4. h.event # "policy.deleted" => h \in Held'
  BY <1>1 DEF Held, HeldBefore
<1> QED
  BY <1>1, <1>2, <1>3, <1>4

LEMMA HeldStays ==
  ASSUME UNCHANGED history
  PROVE  Held' = Held
BY DEF Held, HeldBefore

\* Of the roles, only that of an owner administers policies.
LEMMA OnlyOwnersAdminister ==
  ASSUME NEW role, action_allowed_for_role(role, "GRANT")
  PROVE  role = "owner"
BY DEF action_allowed_for_role, allowed_roles, WriterDataActions, OwnerDataActions,
       POLICY_ADMINISTRATION_ACTIONS

\* Authority found in a set of documents is found in a larger one.
LEMMA AuthorityGrows ==
  ASSUME NEW held, NEW more, held \subseteq more, NEW identity, NEW pattern,
         can_administer_pattern(held, identity, pattern)
  PROVE  can_administer_pattern(more, identity, pattern)
BY DEF can_administer_pattern

\* Policies of the store that administer a pattern are ones it held once, and
\* confine the pattern to their workspace.
LEMMA AuthorityIsHeld ==
  ASSUME NEW away, NEW origin, RacingInv(away, origin),
         NEW workspace, NEW principal, NEW identity,
         NEW pattern \in Path, IsPattern(pattern),
         can_administer_pattern(list_policies_for_principal(workspace, principal),
                                identity, pattern)
  PROVE  /\ pattern[1] = workspace
         /\ can_administer_pattern({h \in Held \union origin : h.workspace = workspace},
                                   identity, pattern)
<1>1. PICK p \in policies :
        /\ p.workspace = workspace
        /\ Lower[p.principal] = Lower[identity]
        /\ action_allowed_for_role(p.role, "GRANT")
        /\ resource_matches(pattern, p.pattern)
  BY DEF can_administer_pattern, list_policies_for_principal, list_policies
<1>2. p.pattern \in Path /\ IsPattern(p.pattern) /\ p.pattern[1] = workspace
  BY <1>1 DEF RacingInv, TypeOK, PolicyStoreTypeOK, StoreInv, WellFiled, Policy
<1>3. Lower[p.pattern[1]] = p.pattern[1] /\ p.pattern[1] # WILDCARD_SEGMENT
  BY <1>2, PatternHead
<1>4. Lower[pattern[1]] = p.pattern[1]
  BY <1>1, <1>2, <1>3, MatchKeepsWorkspace
<1>5. pattern[1] = workspace
  BY <1>2, <1>4, PatternHead
<1>6. PICK h \in Held \union origin : /\ h.workspace = p.workspace /\ h.principal = p.principal
                        /\ h.role = p.role           /\ h.pattern = p.pattern
  BY DEF RacingInv, TrailInv
<1>7. pattern # <<>> /\ ~is_engine_private(pattern)
  BY DEF can_administer_pattern
<1>8. can_administer_pattern({g \in Held \union origin : g.workspace = workspace},
                             identity, pattern)
  BY <1>1, <1>6, <1>7 DEF can_administer_pattern
<1> QED
  BY <1>5, <1>8

(***************************************************************************)
(* How a step of one call leaves the others alone.                         *)
(***************************************************************************)

\* Only this caller's call moves.
Alone(c) ==
  \A d \in Caller \ {c} : pc'[d] = pc[d] /\ call'[d] = call[d] /\ seen'[d] = seen[d]

\* No id is handed out again, nothing held is forgotten, and a document that was
\* there before is of whom it was.
Kept ==
  /\ nextId <= nextId'
  /\ Held \subseteq Held'
  /\ \A p \in policies' : p.id < nextId =>
       \E q \in policies : q.id = p.id /\ q.principal = p.principal

LEMMA OthersKept ==
  ASSUME NEW away, NEW origin, RacingInv(away, origin),
         TypeOK', NEW c \in Caller, Alone(c), Kept
  PROVE  \A d \in Caller \ {c} : CallInv(d, away, origin)'
<1> SUFFICES ASSUME NEW d \in Caller \ {c}, pc[d] # "idle"
             PROVE  CallInv(d, away, origin)'
  BY DEF Alone, CallInv
<1> DEFINE k == call[d]
<1>1. pc'[d] = pc[d] /\ call'[d] = call[d] /\ seen'[d] = seen[d]
  BY DEF Alone
<1>2. CallInv(d, away, origin)
  BY DEF RacingInv
<1>3. ASSUME KnowsWhose(d, away) PROVE KnowsWhose(d, away)'
  <2>1. seen[d].id < nextId'
    BY <1>3 DEF KnowsWhose, Kept, Policy, RacingInv, TypeOK, PolicyStoreTypeOK
  <2>2. \A p \in policies' \union away :
            p.id = seen[d].id => p.principal = seen[d].principal
    BY <1>3 DEF KnowsWhose, Kept
  <2> QED
    BY <1>1, <1>3, <2>1, <2>2 DEF KnowsWhose
<1>4. ASSUME HasAuthority(d, origin) PROVE HasAuthority(d, origin)'
  <2>1. {h \in Held \union origin : h.workspace = k.workspace} \subseteq
        {h \in Held' \union origin : h.workspace = k.workspace}
    BY DEF Kept
  <2>2. can_administer_pattern({h \in Held' \union origin : h.workspace = k.workspace},
                               k.actor, k.pattern)
    BY <1>4, <2>1, AuthorityGrows DEF HasAuthority
  <2> QED
    BY <1>1, <1>4, <2>2 DEF HasAuthority, can_administer_pattern
<1>5. Bootstrapping(d)' = Bootstrapping(d) /\ Founds(d)' = Founds(d)
  BY <1>1 DEF Bootstrapping, Founds
<1> QED
  BY <1>1, <1>2, <1>3, <1>4, <1>5 DEF CallInv

(***************************************************************************)
(* Steps that leave the store as it is: only the caller's own call counts. *)
(***************************************************************************)
LEMMA GlobalUntouched ==
  ASSUME NEW away, NEW origin, RacingInv(away, origin), UNCHANGED <<store, history>>
  PROVE  StoreInv(away)' /\ TrailInv(away, origin)'
<1>1. StoreInv(away)'
  BY DEF RacingInv, StoreInv, store
<1>2. NobodyServesThemselves'
  BY DEF RacingInv, TrailInv, NobodyServesThemselves
<1>3. RootedIn(origin)'
  <2>1. \A n : HeldBefore(n)' = HeldBefore(n)
    BY DEF HeldBefore
  <2> QED
    BY <2>1 DEF RacingInv, TrailInv, RootedIn, RootedAt, OnceOwned
<1> QED
  BY <1>1, <1>2, <1>3, HeldStays DEF RacingInv, TrailInv, store

LEMMA StoreUntouched ==
  ASSUME NEW away, NEW origin, RacingInv(away, origin),
         NEW c \in Caller, UNCHANGED <<store, history>>,
         TypeOK', Alone(c), CallInv(c, away, origin)'
  PROVE  RacingInv(away, origin)'
<1>1. Held' = Held
  BY HeldStays
<1>2. Kept
  BY <1>1 DEF Kept, store, RacingInv, TypeOK, PolicyStoreTypeOK
<1>3. \A d \in Caller : CallInv(d, away, origin)'
  BY <1>2, OthersKept
<1> QED
  BY <1>3, GlobalUntouched DEF RacingInv

\* A call that ends, however it ends, leaves nothing to be shown of it.
LEMMA EndingKeeps ==
  ASSUME NEW away, NEW origin, RacingInv(away, origin),
         NEW c \in Caller, NEW result \in Outcome, Return(c, result),
         UNCHANGED <<store, history>>, begun' \in Nat, audit' \in Seq(Change)
  PROVE  RacingInv(away, origin)'
<1>1. TypeOK'
  BY DEF RacingInv, TypeOK, PolicyStoreTypeOK, Return, Control, store
<1>2. Alone(c)
  BY DEF RacingInv, TypeOK, Return, Alone
<1>3. CallInv(c, away, origin)'
  BY DEF RacingInv, TypeOK, Return, CallInv
<1> QED
  BY <1>1, <1>2, <1>3, StoreUntouched

\* A call that goes on with the same arguments and the same document.
LEMMA GoingOnKeeps ==
  ASSUME NEW away, NEW origin, RacingInv(away, origin),
         NEW c \in Caller, NEW at \in Control, Goto(c, at),
         UNCHANGED <<call, seen>>, UNCHANGED <<store, history>>,
         begun' \in Nat, audit' \in Seq(Change),
         call[c] \in Call,
         at \in Granting => /\ call[c].op = "grant"
                            /\ Lower[call[c].principal] # call[c].actor,
         at \in Granting \union Updating => IsPattern(call[c].pattern),
         at \in Informed => KnowsWhose(c, away),
         at \in Authorized => HasAuthority(c, origin),
         at \notin {"record_created", "bootstrap_vacant"},
         at = "bootstrap_create" => Founds(c) /\ call[c].members # <<>>
  PROVE  RacingInv(away, origin)'
<1>1. TypeOK'
  BY DEF RacingInv, TypeOK, PolicyStoreTypeOK, Goto, store
<1>2. Alone(c)
  BY DEF RacingInv, TypeOK, Goto, Alone
<1>3. pc'[c] = at /\ call'[c] = call[c] /\ seen'[c] = seen[c]
  BY DEF RacingInv, TypeOK, Goto
<1>4. KnowsWhose(c, away)' = KnowsWhose(c, away)
  BY <1>3 DEF KnowsWhose, store
<1>5. HasAuthority(c, origin)' = HasAuthority(c, origin)
  BY <1>3, HeldStays DEF HasAuthority, can_administer_pattern
<1>6. Bootstrapping(c)' => Founds(c)'
  BY <1>3 DEF Bootstrapping, Founds
<1>7. CallInv(c, away, origin)'
  BY <1>3, <1>4, <1>5, <1>6 DEF CallInv
<1> QED
  BY <1>1, <1>2, <1>7, StoreUntouched

(***************************************************************************)
(* Steps that read the store.                                              *)
(***************************************************************************)
LEMMA ReadOnlyTypes ==
  ASSUME NEW away, NEW origin, RacingInv(away, origin), ReadOnly
  PROVE  UNCHANGED <<store, history>> /\ begun' \in Nat /\ audit' \in Seq(Change)
BY DEF RacingInv, TypeOK, ReadOnly

\* Authority is checked over the patterns given; if that of the call is among
\* them and valid, a call that goes on has it.
LEMMA AuthorizeKeeps ==
  ASSUME NEW away, NEW origin, RacingInv(away, origin),
         NEW c \in Caller, NEW patterns, NEW granted \in Control,
         pc[c] # "idle", Authorize(c, patterns, granted),
         granted \in Granting => /\ call[c].op = "grant"
                                 /\ Lower[call[c].principal] # call[c].actor,
         granted \in Granting \union Updating => IsPattern(call[c].pattern),
         granted \in Authorized =>
           call[c].pattern \in patterns /\ IsPattern(call[c].pattern),
         granted \in Informed => KnowsWhose(c, away),
         granted \notin {"record_created", "bootstrap_vacant", "bootstrap_create"}
  PROVE  RacingInv(away, origin)'
<1>1. UNCHANGED <<store, history>> /\ begun' \in Nat /\ audit' \in Seq(Change)
  BY ReadOnlyTypes DEF Authorize
<1>2. CASE Return(c, "AccessDenied")
  BY <1>1, <1>2, EndingKeeps DEF Outcome
<1>3. CASE /\ \A pattern \in patterns :
                can_administer_pattern(
                  list_policies_for_principal(call[c].workspace, call[c].actor),
                  call[c].actor, pattern)
           /\ Goto(c, granted)
           /\ UNCHANGED <<call, seen>>
  <2>1. call[c] \in Call /\ call[c].pattern \in Path
    BY DEF RacingInv, CallInv, Call
  <2>2. granted \in Authorized => HasAuthority(c, origin)
    BY <1>3, <2>1, AuthorityIsHeld DEF HasAuthority
  <2> QED
    BY <1>1, <1>3, <2>1, <2>2, GoingOnKeeps
<1> QED
  BY <1>2, <1>3 DEF Authorize

LEMMA CheckConflictKeeps ==
  ASSUME NEW away, NEW origin, RacingInv(away, origin),
         NEW c \in Caller, NEW principal, NEW besides, NEW clear,
         \/ clear = "grant_create" /\ pc[c] = "grant_conflict"
         \/ clear = "update_write" /\ pc[c] = "update_conflict",
         CheckConflict(c, principal, besides, clear)
  PROVE  RacingInv(away, origin)'
<1>1. UNCHANGED <<store, history>> /\ begun' \in Nat /\ audit' \in Seq(Change)
  BY ReadOnlyTypes DEF CheckConflict
<1>2. CASE Return(c, "Conflict")
  BY <1>1, <1>2, EndingKeeps DEF Outcome
<1>3. CASE Goto(c, clear) /\ UNCHANGED <<call, seen>>
  <2>1. /\ call[c] \in Call
        /\ clear \in Granting => /\ call[c].op = "grant"
                                 /\ Lower[call[c].principal] # call[c].actor
        /\ IsPattern(call[c].pattern)
        /\ clear \in Informed => KnowsWhose(c, away)
        /\ HasAuthority(c, origin)
    BY DEF RacingInv, CallInv, Granting, Updating, Informed, Authorized
  <2>2. clear \in Control
    BY DEF Control
  <2> QED
    BY <1>1, <1>3, <2>1, <2>2, GoingOnKeeps
<1> QED
  BY <1>2, <1>3 DEF CheckConflict

\* The document fetched is of somebody else, and no other has its id.
LEMMA FetchKeeps ==
  ASSUME NEW away, NEW origin, RacingInv(away, origin), NEW c \in Caller, NEW found_at,
         \/ found_at = "update_authorize" /\ pc[c] = "update_get"
         \/ found_at = "revoke_authorize" /\ pc[c] = "revoke_get",
         Fetch(c, found_at)
  PROVE  RacingInv(away, origin)'
<1>1. UNCHANGED <<store, history>> /\ begun' \in Nat /\ audit' \in Seq(Change)
  BY ReadOnlyTypes DEF Fetch
<1>2. CASE Return(c, "NotFound") \/ Return(c, "SelfAccess")
  BY <1>1, <1>2, EndingKeeps DEF Outcome
<1>3. ASSUME NEW p \in get_policy(call[c].workspace, call[c].id),
             Lower[p.principal] # call[c].actor,
             seen' = [seen EXCEPT ![c] = p], Goto(c, found_at), UNCHANGED call
      PROVE  RacingInv(away, origin)'
  <2>1. p \in policies /\ p \in Policy /\ p.id = call[c].id
    BY DEF get_policy, list_policies, RacingInv, TypeOK, PolicyStoreTypeOK
  <2>2. /\ pc'[c] = found_at /\ call'[c] = call[c] /\ seen'[c] = p
        /\ found_at \in Control
    BY <1>3 DEF RacingInv, TypeOK, Goto, Control
  <2>3. TypeOK'
    BY <1>1, <1>3, <2>1, <2>2 DEF RacingInv, TypeOK, PolicyStoreTypeOK, Goto, store
  <2>4. Alone(c)
    BY <1>3 DEF RacingInv, TypeOK, Goto, Alone
  <2>5. KnowsWhose(c, away)'
    BY <1>1, <1>3, <2>1, <2>2 DEF KnowsWhose, RacingInv, StoreInv, store
  <2>6. call[c] \in Call /\ (found_at \in Updating => IsPattern(call[c].pattern))
    BY DEF RacingInv, CallInv, Updating
  <2>7. CallInv(c, away, origin)'
    BY <2>2, <2>5, <2>6
    DEF CallInv, Granting, Updating, Informed, Authorized, Bootstrapping
  <2> QED
    BY <1>1, <2>3, <2>4, <2>7, StoreUntouched
<1> QED
  BY <1>2, <1>3 DEF Fetch

\* revoke_grant goes on as revoke, with an id and nothing else known.
LEMMA ResolveMatchKeeps ==
  ASSUME NEW away, NEW origin, RacingInv(away, origin),
         NEW c \in Caller, ResolveMatch(c)
  PROVE  RacingInv(away, origin)'
<1>1. UNCHANGED <<store, history>> /\ begun' \in Nat /\ audit' \in Seq(Change)
  BY ReadOnlyTypes DEF ResolveMatch
<1>2. CASE Return(c, "NotFound")
  BY <1>1, <1>2, EndingKeeps DEF Outcome
<1>3. ASSUME NEW p \in list_policies_for_principal(call[c].workspace, call[c].principal),
             call' = [call EXCEPT ![c].id = p.id], Goto(c, "revoke_get"), UNCHANGED seen
      PROVE  RacingInv(away, origin)'
  <2>1. p.id \in Nat
    BY DEF list_policies_for_principal, list_policies, RacingInv, TypeOK,
           PolicyStoreTypeOK, Policy
  <2>2. call[c] \in Call
    BY DEF ResolveMatch, RacingInv, CallInv
  <2>3. call' = [call EXCEPT ![c] = [call[c] EXCEPT !.id = p.id]]
    BY <1>3
  <2>4. [call[c] EXCEPT !.id = p.id] \in Call
    BY <2>1, <2>2 DEF Call
  <2>5. pc'[c] = "revoke_get" /\ call'[c] \in Call
    BY <1>3, <2>3, <2>4 DEF RacingInv, TypeOK, Goto
  <2>6. TypeOK'
    BY <1>1, <1>3, <2>3, <2>4
    DEF RacingInv, TypeOK, PolicyStoreTypeOK, Goto, Control, store
  <2>7. Alone(c)
    BY <1>3, <2>3 DEF RacingInv, TypeOK, Goto, Alone
  <2>8. CallInv(c, away, origin)'
    BY <2>5 DEF CallInv, Granting, Updating, Informed, Authorized, Bootstrapping
  <2> QED
    BY <1>1, <2>6, <2>7, <2>8, StoreUntouched
<1> QED
  BY <1>2, <1>3 DEF ResolveMatch

LEMMA BootstrapCheckVacantKeeps ==
  ASSUME NEW away, NEW origin, RacingInv(away, origin),
         NEW c \in Caller, BootstrapCheckVacant(c)
  PROVE  RacingInv(away, origin)'
<1>1. UNCHANGED <<store, history>> /\ begun' \in Nat /\ audit' \in Seq(Change)
  BY ReadOnlyTypes DEF BootstrapCheckVacant
<1>2. CASE Return(c, "AlreadyBootstrapped")
  BY <1>1, <1>2, EndingKeeps DEF Outcome
<1>3. CASE Goto(c, "bootstrap_create") /\ UNCHANGED <<call, seen>>
  <2>1. call[c] \in Call /\ Founds(c) /\ call[c].members # <<>>
    BY DEF BootstrapCheckVacant, RacingInv, CallInv, Bootstrapping, Founds
  <2> QED
    BY <1>1, <1>3, <2>1, GoingOnKeeps
    DEF Control, Granting, Updating, Informed, Authorized
<1> QED
  BY <1>2, <1>3 DEF BootstrapCheckVacant

(***************************************************************************)
(* Recording, dying, and beginning.                                        *)
(***************************************************************************)
LEMMA RecordTypes ==
  ASSUME NEW k \in Call
  PROVE  /\ Created(k) \in Change
         /\ \A was \in Policy : Updated(k, was) \in Change /\ Deleted(k, was) \in Change
<1>1. <<>> \in Path
  BY DEF Path
<1>2. Created(k) \in Change
  BY <1>1 DEF Created, Call, Change
<1>3. \A was \in Policy : Updated(k, was) \in Change
  BY DEF Updated, Call, Policy, Change
<1>4. \A was \in Policy : Deleted(k, was) \in Change
  BY <1>1 DEF Deleted, Call, Policy, Change
<1> QED
  BY <1>2, <1>3, <1>4

LEMMA RecordCreatedKeeps ==
  ASSUME NEW away, NEW origin, RacingInv(away, origin),
         NEW c \in Caller, RecordCreated(c)
  PROVE  RacingInv(away, origin)'
<1>1. call[c] \in Call
  BY DEF RecordCreated, RacingInv, CallInv
<1>2. audit' \in Seq(Change)
  BY <1>1, RecordTypes DEF RecordCreated, RacingInv, TypeOK
<1>3. UNCHANGED <<store, history>> /\ begun' \in Nat
  BY DEF RecordCreated, RacingInv, TypeOK
<1>4. CASE Return(c, "ok")
  BY <1>2, <1>3, <1>4, EndingKeeps DEF Outcome
<1>5. CASE /\ call[c].op = "bootstrap" /\ call[c].members # <<>>
           /\ Goto(c, "bootstrap_create")
           /\ UNCHANGED <<call, seen>>
  <2>1. Founds(c)
    BY <1>5 DEF RecordCreated, RacingInv, CallInv, Bootstrapping
  <2> QED
    BY <1>1, <1>2, <1>3, <1>5, <2>1, GoingOnKeeps
    DEF Control, Granting, Updating, Informed, Authorized
<1> QED
  BY <1>4, <1>5 DEF RecordCreated

LEMMA RecordUpdatedKeeps ==
  ASSUME NEW away, NEW origin, RacingInv(away, origin),
         NEW c \in Caller, RecordUpdated(c) \/ RecordDeleted(c)
  PROVE  RacingInv(away, origin)'
<1>1. call[c] \in Call /\ seen[c] \in Policy
  BY DEF RecordUpdated, RecordDeleted, RacingInv, CallInv, Informed, KnowsWhose
<1>2. audit' \in Seq(Change)
  <2>1. Updated(call[c], seen[c]) \in Change /\ Deleted(call[c], seen[c]) \in Change
    BY <1>1, RecordTypes
  <2>2. audit \in Seq(Change)
    BY DEF RacingInv, TypeOK
  <2> QED
    BY <2>1, <2>2, AppendProperties DEF RecordUpdated, RecordDeleted
<1>3. UNCHANGED <<store, history>> /\ begun' \in Nat /\ Return(c, "ok")
  BY DEF RecordUpdated, RecordDeleted, RacingInv, TypeOK
<1> QED
  BY <1>2, <1>3, EndingKeeps DEF Outcome

LEMMA AbortKeeps ==
  ASSUME NEW away, NEW origin, RacingInv(away, origin), NEW c \in Caller, Abort(c)
  PROVE  RacingInv(away, origin)'
BY ReadOnlyTypes, EndingKeeps DEF Abort, Outcome

\* The arguments of a call, once normalised.
LEMMA NormalizedCall ==
  ASSUME NEW r \in Call
  PROVE  /\ Normalized(r) \in Call
         /\ Normalized(r).op = r.op
         /\ Lower[Normalized(r).principal] = Normalized(r).principal
         /\ r.op = "bootstrap" =>
              Normalized(r).pattern[1] = Normalized(r).workspace
<1> DEFINE pattern == IF r.op = "bootstrap" THEN WholeWorkspace(Lower[r.workspace])
                                            ELSE normalize(r.pattern)
           members == NormalizedMembers(r.members)
<1>1. /\ Lower[r.actor] \in Name /\ Lower[r.workspace] \in Name
      /\ Lower[r.principal] \in Name /\ Lower[Lower[r.principal]] = Lower[r.principal]
  BY NamesAssumption DEF Call
<1>2. pattern \in Path
  <2>1. WholeWorkspace(Lower[r.workspace]) \in Path
    BY <1>1, NamesAssumption DEF WholeWorkspace, Path
  <2>2. normalize(r.pattern) \in Path
    BY NormalizeSegments DEF Call
  <2> QED
    BY <2>1, <2>2
<1>3. members \in Members
  <2>1. r.members \in Seq([principal : Name, role : STRING])
    BY DEF Call, Members
  <2>2. \A i \in 1..Len(r.members) : r.members[i] \in [principal : Name, role : STRING]
    BY <2>1, ElementOfSeq
  <2>3. \A i \in 1..Len(r.members) :
          [principal |-> Lower[r.members[i].principal], role |-> r.members[i].role]
            \in [principal : Name, role : STRING]
    BY <2>2, NamesAssumption
  <2>4. Len(r.members) \in Nat
    BY <2>1
  <2> QED
    BY <2>3, <2>4 DEF Members, NormalizedMembers
<1>4. Normalized(r) = [r EXCEPT !.actor = Lower[r.actor], !.workspace = Lower[r.workspace],
                                !.principal = Lower[r.principal], !.pattern = pattern,
                                !.members = members]
  BY DEF Normalized
<1> HIDE DEF pattern, members
<1>5. /\ Normalized(r) \in Call
      /\ Normalized(r).op = r.op
      /\ Normalized(r).principal = Lower[r.principal]
      /\ Normalized(r).pattern = pattern
      /\ Normalized(r).workspace = Lower[r.workspace]
  BY <1>1, <1>2, <1>3, <1>4 DEF Call
<1>6. r.op = "bootstrap" => pattern[1] = Lower[r.workspace]
  BY DEF pattern, WholeWorkspace
<1> QED
  BY <1>1, <1>5, <1>6

\* What passes the checks made before the store is touched.
LEMMA Vetted ==
  ASSUME NEW k \in Call
  PROVE  /\ Refusal(k) \in Outcome
         /\ Refusal(k) = "none" =>
              /\ k.op \in {"grant", "update_grant", "bootstrap"} => IsPattern(k.pattern)
              /\ k.op = "grant" => k.principal # k.actor
              /\ k.op = "bootstrap" => k.members # <<>>
<1>1. k.op \in {"grant", "update_grant", "revoke", "revoke_grant", "bootstrap"}
  BY DEF Call
<1>2. CASE k.op \in {"grant", "revoke_grant"}
  BY <1>2 DEF Refusal, ByValueRefusal, Outcome
<1>3. CASE k.op = "update_grant"
  BY <1>3 DEF Refusal, UpdateRefusal, Outcome
<1>4. CASE k.op = "revoke"
  BY <1>4 DEF Refusal, Outcome
<1>5. CASE k.op = "bootstrap"
  <2>1. Refusal(k) = BootstrapRefusal(k)
    BY <1>5 DEF Refusal
  <2>2. \A i : MemberRefusal(k.members, i) \in Outcome
    BY DEF MemberRefusal, Outcome
  <2>3. BootstrapRefusal(k) \in Outcome
    BY <2>2 DEF BootstrapRefusal, Outcome
  <2>4. BootstrapRefusal(k) = "none" => IsPattern(k.pattern)
    BY DEF BootstrapRefusal
  <2>5. ASSUME BootstrapRefusal(k) = "none" PROVE k.members # <<>>
    BY <2>5 DEF BootstrapRefusal
  <2> QED
    BY <1>5, <2>1, <2>3, <2>4, <2>5
<1> QED
  BY <1>1, <1>2, <1>3, <1>4, <1>5

LEMMA EnterKeeps ==
  ASSUME NEW away, NEW origin, RacingInv(away, origin),
         NEW c \in Caller, NEW r \in Call, Enter(c, r),
         UNCHANGED <<store, history>>, begun' \in Nat, audit' \in Seq(Change)
  PROVE  RacingInv(away, origin)'
<1> DEFINE k == Normalized(r)
<1>1. /\ k \in Call /\ k.op = r.op /\ Lower[k.principal] = k.principal
      /\ r.op = "bootstrap" => k.pattern[1] = k.workspace
  BY NormalizedCall
<1>2. CASE Refusal(k) # "none"
  <2>1. Return(c, Refusal(k))
    BY <1>2 DEF Enter
  <2> QED
    BY <1>1, <2>1, Vetted, EndingKeeps
<1>3. CASE Refusal(k) = "none"
  <2>1. /\ Goto(c, FirstStoreCall(r.op))
        /\ call' = [call EXCEPT ![c] = k]
        /\ UNCHANGED seen
    BY <1>3 DEF Enter
  <2>2. /\ k.op \in {"grant", "update_grant", "bootstrap"} => IsPattern(k.pattern)
        /\ k.op = "grant" => k.principal # k.actor
        /\ k.op = "bootstrap" => k.members # <<>>
    BY <1>1, <1>3, Vetted
  <2> HIDE DEF k
  <2>3. \/ r.op = "grant" /\ FirstStoreCall(r.op) = "grant_authorize"
        \/ r.op = "update_grant" /\ FirstStoreCall(r.op) = "update_get"
        \/ r.op = "revoke" /\ FirstStoreCall(r.op) = "revoke_get"
        \/ r.op = "revoke_grant" /\ FirstStoreCall(r.op) = "resolve_authorize"
        \/ r.op = "bootstrap" /\ FirstStoreCall(r.op) = "bootstrap_vacant"
    BY <1>1 DEF Call, FirstStoreCall
  <2>4. FirstStoreCall(r.op) \in Control
    BY <2>3 DEF Control
  <2>5. TypeOK'
    BY <1>1, <2>1, <2>4 DEF RacingInv, TypeOK, PolicyStoreTypeOK, Goto, store
  <2>6. Alone(c)
    BY <2>1 DEF RacingInv, TypeOK, Goto, Alone
  <2>7. pc'[c] = FirstStoreCall(r.op) /\ call'[c] = k
    BY <2>1 DEF RacingInv, TypeOK, Goto
  <2>8. CallInv(c, away, origin)'
    BY <1>1, <2>2, <2>3, <2>7
    DEF CallInv, Granting, Updating, Informed, Authorized, Bootstrapping, Founds
  <2> QED
    BY <2>5, <2>6, <2>8, StoreUntouched
<1> QED
  BY <1>2, <1>3

LEMMA BeginKeeps ==
  ASSUME NEW away, NEW origin, RacingInv(away, origin), NEW c \in Caller, Begin(c)
  PROVE  RacingInv(away, origin)'
<1>1. PICK r \in Requests : Enter(c, r)
  BY DEF Begin
<1>2. r \in Call
  BY GrantsAssumption
<1>3. UNCHANGED <<store, history>> /\ begun' \in Nat /\ audit' \in Seq(Change)
  BY DEF Begin, RacingInv, TypeOK
<1> QED
  BY <1>1, <1>2, <1>3, EnterKeeps

(***************************************************************************)
(* Steps that write: one change h of the store.                            *)
(***************************************************************************)
LEMMA ChangeKeeps ==
  ASSUME NEW away, NEW origin, RacingInv(away, origin),
         NEW c \in Caller, NEW h \in Change, history' = Append(history, h),
         TypeOK', Alone(c), CallInv(c, away, origin)', StoreInv(away)', nextId <= nextId',
         \A p \in policies' : p.id < nextId =>
           \E q \in policies : q.id = p.id /\ q.principal = p.principal,
         \A p \in policies' \ policies :
           /\ h.event # "policy.deleted"
           /\ h.workspace = p.workspace /\ h.principal = p.principal
           /\ h.role = p.role           /\ h.pattern = p.pattern,
         ~h.bootstrap => h.actor # Lower[h.principal],
         h.event # "policy.deleted" /\ ~h.bootstrap =>
           can_administer_pattern({g \in Held \union origin : g.workspace = h.workspace},
                                  h.actor, h.pattern)
  PROVE  RacingInv(away, origin)'
<1>1. history \in Seq(Change) /\ nextId \in Nat /\ nextId' \in Nat
  BY DEF RacingInv, TypeOK, PolicyStoreTypeOK
<1>2. /\ Len(history') = Len(history) + 1
      /\ history'[Len(history) + 1] = h
      /\ \A n \in 1..Len(history) : history'[n] = history[n]
      /\ \A n \in 1..(Len(history) + 1) : HeldBefore(n)' = HeldBefore(n)
      /\ Held \subseteq Held'
      /\ h.event # "policy.deleted" => h \in Held'
  BY <1>1, HeldGrows
<1>3. \A n \in 1..Len(history') : n = Len(history) + 1 \/ n \in 1..Len(history)
  BY <1>1, <1>2
<1>4. \A d \in Caller : CallInv(d, away, origin)'
  BY <1>2, OthersKept DEF Kept
<1>5. \A p \in policies' \union away : \E g \in Held' \union origin :
        /\ g.workspace = p.workspace /\ g.principal = p.principal
        /\ g.role = p.role           /\ g.pattern = p.pattern
  BY <1>2 DEF RacingInv, TrailInv
<1>7. NobodyServesThemselves'
  BY <1>2, <1>3 DEF RacingInv, TrailInv, NobodyServesThemselves
<1>8. RootedIn(origin)'
  <2> SUFFICES ASSUME NEW n \in 1..Len(history'),
                      history'[n].event # "policy.deleted", ~history'[n].bootstrap
               PROVE  RootedAt(n, origin)'
    BY DEF RootedIn
  <2>1. CASE n = Len(history) + 1
    <3>1. HeldBefore(n)' = Held
      BY <1>1, <1>2, <2>1 DEF Held
    <3>2. can_administer_pattern({g \in Held \union origin : g.workspace = h.workspace},
                                 h.actor, h.pattern)
      BY <1>2, <2>1
    <3>3. PICK g \in Held \union origin :
            /\ g.workspace = h.workspace
            /\ Lower[g.principal] = Lower[h.actor]
            /\ action_allowed_for_role(g.role, "GRANT")
            /\ resource_matches(h.pattern, g.pattern)
      BY <3>2 DEF can_administer_pattern
    <3>4. g.role = "owner"
      BY <3>3, OnlyOwnersAdminister
    <3>5. history'[n] = h
      BY <1>2, <2>1
    <3>6. CASE g \in Held
      BY <3>1, <3>3, <3>4, <3>5, <3>6 DEF OnceOwned, RootedAt
    <3>7. CASE g \in origin
      BY <3>3, <3>4, <3>5, <3>7 DEF RootedAt
    <3> QED
      BY <3>6, <3>7
  <2>2. CASE n \in 1..Len(history)
    <3>1. HeldBefore(n)' = HeldBefore(n) /\ history'[n] = history[n]
      BY <1>1, <1>2, <2>2
    <3>2. RootedAt(n, origin)
      BY <2>2, <3>1 DEF RacingInv, TrailInv, RootedIn
    <3> QED
      BY <3>1, <3>2 DEF RootedAt, OnceOwned
  <2> QED
    BY <1>3, <2>1, <2>2
<1>9. TrailInv(away, origin)'
  BY <1>5, <1>7, <1>8 DEF TrailInv
<1> QED
  BY <1>4, <1>9 DEF RacingInv

\* Creating a document, by grant or bootstrap: k is the call with its new id.
LEMMA CreateKeeps ==
  ASSUME NEW away, NEW origin, RacingInv(away, origin),
         NEW c \in Caller, NEW k \in Call, k.id = nextId,
         create_policy(k.workspace, k.principal, k.role, k.pattern, k.actor),
         history' = Append(history, Created(k)),
         call' = [call EXCEPT ![c] = k],
         Goto(c, "record_created"), UNCHANGED <<seen, begun, audit>>,
         IsPattern(k.pattern), k.pattern[1] = k.workspace,
         k.op # "bootstrap" =>
           /\ k.actor # Lower[k.principal]
           /\ can_administer_pattern({g \in Held \union origin : g.workspace = k.workspace},
                                     k.actor, k.pattern)
  PROVE  RacingInv(away, origin)'
<1> DEFINE new == [id |-> nextId, workspace |-> k.workspace, principal |-> k.principal,
                   role |-> k.role, pattern |-> k.pattern, updated_by |-> k.actor]
           h == Created(k)
<1>1. policies' = policies \union {new} /\ nextId' = nextId + 1 /\ nextId \in Nat
  BY DEF create_policy, RacingInv, TypeOK, PolicyStoreTypeOK
<1>2. new \in Policy
  BY <1>1 DEF Policy, Call
<1>3. h \in Change
  BY RecordTypes
<1>4. TypeOK'
  BY <1>1, <1>2, <1>3
  DEF RacingInv, TypeOK, PolicyStoreTypeOK, Goto, Control
<1>5. Alone(c)
  BY DEF RacingInv, TypeOK, Goto, Alone
<1>6. \A p \in policies \union away : p.id \in Nat /\ p.id < nextId
  BY DEF RacingInv, TypeOK, PolicyStoreTypeOK, Policy, StoreInv
<1>7. StoreInv(away)'
  <2>1. \A p \in policies' \union away : WellFiled(p) /\ p.id < nextId'
    BY <1>1, <1>6 DEF RacingInv, StoreInv, WellFiled
  <2>2. \A p, q \in policies' : p.id = q.id => p = q
    BY <1>1, <1>6 DEF RacingInv, StoreInv
  <2>3. \A p \in policies', q \in away : p.id = q.id => p.principal = q.principal
    BY <1>1, <1>6 DEF RacingInv, StoreInv
  <2>4. away \subseteq Policy
    BY DEF RacingInv, StoreInv
  <2> QED
    BY <2>1, <2>2, <2>3, <2>4 DEF StoreInv, WellFiled
<1>8. CallInv(c, away, origin)'
  <2>1. pc'[c] = "record_created" /\ call'[c] = k
    BY DEF RacingInv, TypeOK, Goto
  <2> QED
    BY <2>1 DEF CallInv, Granting, Updating, Informed, Authorized, Bootstrapping, Founds
<1>9. /\ nextId <= nextId'
      /\ \A p \in policies' : p.id < nextId =>
           \E q \in policies : q.id = p.id /\ q.principal = p.principal
  BY <1>1
<1>10. /\ h.event = "policy.created" /\ h.workspace = k.workspace /\ h.role = k.role
       /\ h.principal = k.principal /\ h.pattern = k.pattern /\ h.actor = k.actor
       /\ h.bootstrap = (k.op = "bootstrap")
  BY DEF Created
<1>11. \A p \in policies' \ policies :
         /\ h.workspace = p.workspace /\ h.principal = p.principal
         /\ h.role = p.role           /\ h.pattern = p.pattern
  BY <1>1, <1>10
<1> HIDE DEF h, new
<1> QED
  BY <1>3, <1>4, <1>5, <1>7, <1>8, <1>9, <1>10, <1>11, ChangeKeeps DEF h

LEMMA GrantCreateKeeps ==
  ASSUME NEW away, NEW origin, RacingInv(away, origin), NEW c \in Caller, GrantCreate(c)
  PROVE  RacingInv(away, origin)'
<1> DEFINE k == [call[c] EXCEPT !.id = nextId]
<1>1. /\ call[c] \in Call /\ call[c].op = "grant" /\ IsPattern(call[c].pattern)
      /\ Lower[call[c].principal] # call[c].actor /\ HasAuthority(c, origin)
  BY DEF GrantCreate, RacingInv, CallInv, Granting, Authorized
<1>2. /\ k \in Call /\ k.id = nextId /\ k.op = "grant"
      /\ k.actor = call[c].actor /\ k.workspace = call[c].workspace
      /\ k.principal = call[c].principal /\ k.pattern = call[c].pattern
  BY <1>1 DEF Call, RacingInv, TypeOK, PolicyStoreTypeOK
<1>3. /\ create_policy(k.workspace, k.principal, k.role, k.pattern, k.actor)
      /\ history' = Append(history, Created(k))
      /\ call' = [call EXCEPT ![c] = k]
      /\ Goto(c, "record_created") /\ UNCHANGED <<seen, begun, audit>>
  BY DEF GrantCreate
<1> HIDE DEF k
<1> QED
  BY <1>1, <1>2, <1>3, CreateKeeps DEF HasAuthority

LEMMA BootstrapCreateKeeps ==
  ASSUME NEW away, NEW origin, RacingInv(away, origin),
         NEW c \in Caller, BootstrapCreate(c)
  PROVE  RacingInv(away, origin)'
<1> DEFINE member == Head(call[c].members)
           k == [call[c] EXCEPT !.principal = member.principal, !.role = member.role,
                                !.id = nextId, !.members = Tail(call[c].members)]
<1>1. /\ call[c] \in Call /\ call[c].op = "bootstrap" /\ IsPattern(call[c].pattern)
      /\ call[c].pattern[1] = call[c].workspace /\ call[c].members # <<>>
  BY DEF BootstrapCreate, RacingInv, CallInv, Bootstrapping, Founds
<1>2. call[c].members \in Seq([principal : Name, role : STRING])
  BY <1>1 DEF Call, Members
<1>3. member \in [principal : Name, role : STRING] /\ Tail(call[c].members) \in Members
  BY <1>1, <1>2, HeadTailProperties DEF Members
<1>4. member.principal \in Name /\ member.role \in STRING
  BY <1>3
<1>5. /\ k \in Call /\ k.id = nextId /\ k.op = "bootstrap"
      /\ k.workspace = call[c].workspace /\ k.pattern = call[c].pattern
  BY <1>1, <1>3, <1>4 DEF Call, RacingInv, TypeOK, PolicyStoreTypeOK
<1>6. /\ create_policy(k.workspace, k.principal, k.role, k.pattern, k.actor)
      /\ history' = Append(history, Created(k))
      /\ call' = [call EXCEPT ![c] = k]
      /\ Goto(c, "record_created") /\ UNCHANGED <<seen, begun, audit>>
  BY DEF BootstrapCreate
<1> HIDE DEF k
<1> QED
  BY <1>1, <1>5, <1>6, CreateKeeps

LEMMA UpdateWriteKeeps ==
  ASSUME NEW away, NEW origin, RacingInv(away, origin), NEW c \in Caller, UpdateWrite(c)
  PROVE  RacingInv(away, origin)'
<1> DEFINE k == call[c]
<1>1. /\ pc[c] = "update_write" /\ begun' \in Nat /\ audit' \in Seq(Change)
      /\ UNCHANGED <<begun, audit>>
  BY DEF UpdateWrite, RacingInv, TypeOK
<1>2. k \in Call /\ IsPattern(k.pattern) /\ KnowsWhose(c, away) /\ HasAuthority(c, origin)
  BY <1>1 DEF RacingInv, CallInv, Updating, Informed, Authorized
<1>3. CASE Return(c, "BackendError") /\ UNCHANGED <<store, history>>
  BY <1>1, <1>3, EndingKeeps DEF Outcome
<1>4. ASSUME NEW p \in get_policy(k.workspace, k.id),
             update_policy(k.workspace, k.id, k.role, k.pattern, k.actor),
             history' = Append(history, Updated(k, p)),
             Goto(c, "record_updated"), UNCHANGED <<call, seen>>
      PROVE  RacingInv(away, origin)'
  <2> DEFINE new == [p EXCEPT !.role = k.role, !.pattern = k.pattern, !.updated_by = k.actor]
             h == Updated(k, p)
  <2>1. p \in policies /\ p \in Policy /\ p.id = k.id /\ p.workspace = k.workspace
    BY <1>4 DEF get_policy, list_policies, RacingInv, TypeOK, PolicyStoreTypeOK
  <2>2. get_policy(k.workspace, k.id) = {p}
    BY <2>1 DEF get_policy, list_policies, RacingInv, StoreInv
  <2>3. policies' = (policies \ {p}) \union {new} /\ nextId' = nextId
    BY <1>4, <2>2 DEF update_policy
  <2>4. new \in Policy
    BY <1>2, <2>1 DEF Policy, Call
  <2>5. /\ new.id = p.id /\ new.workspace = p.workspace /\ new.principal = p.principal
        /\ new.role = k.role /\ new.pattern = k.pattern
    BY <2>1 DEF Policy
  <2>6. h \in Change
    BY <1>2, <2>1, RecordTypes
  <2> HIDE DEF new
  <2>7. TypeOK'
    BY <1>1, <1>4, <2>3, <2>4, <2>6
    DEF RacingInv, TypeOK, PolicyStoreTypeOK, Goto, Control
  <2>8. Alone(c)
    BY <1>4 DEF RacingInv, TypeOK, Goto, Alone
  <2>9. \A q \in policies \union away : WellFiled(q) /\ q.id < nextId
    BY DEF RacingInv, StoreInv
  <2>10. \A q, r \in policies : q.id = r.id => q = r
    BY DEF RacingInv, StoreInv
  <2>11. WellFiled(new)
    BY <1>2, <2>1, <2>5 DEF WellFiled, HasAuthority
  <2>12. StoreInv(away)'
    <3>1. \A q \in policies' \union away : WellFiled(q) /\ q.id < nextId'
      BY <2>1, <2>3, <2>5, <2>9, <2>11
    <3>2. \A q, r \in policies' : q.id = r.id => q = r
      BY <2>1, <2>3, <2>5, <2>10
    <3>3. \A q \in policies', r \in away : q.id = r.id => q.principal = r.principal
      BY <2>1, <2>3, <2>5 DEF RacingInv, StoreInv
    <3>4. away \subseteq Policy
      BY DEF RacingInv, StoreInv
    <3> QED
      BY <3>1, <3>2, <3>3, <3>4 DEF StoreInv, WellFiled
  <2>13. \A q \in policies' : \E r \in policies : r.id = q.id /\ r.principal = q.principal
    BY <2>1, <2>3, <2>5
  <2>14. pc'[c] = "record_updated" /\ call'[c] = k /\ seen'[c] = seen[c]
    BY <1>4 DEF RacingInv, TypeOK, Goto
  <2>15. KnowsWhose(c, away)'
    BY <1>2, <2>3, <2>13, <2>14 DEF KnowsWhose
  <2>16. CallInv(c, away, origin)'
    BY <1>2, <2>14, <2>15
    DEF CallInv, Granting, Updating, Informed, Authorized, Bootstrapping
  <2>17. /\ h.event = "policy.updated" /\ h.workspace = k.workspace /\ h.role = k.role
         /\ h.principal = p.principal /\ h.pattern = k.pattern /\ h.actor = k.actor
         /\ h.bootstrap = FALSE
    BY DEF Updated
  <2>18. \A q \in policies' \ policies :
           /\ h.workspace = q.workspace /\ h.principal = q.principal
           /\ h.role = q.role           /\ h.pattern = q.pattern
    BY <2>1, <2>3, <2>5, <2>17
  <2>19. h.actor # Lower[h.principal]
    BY <1>2, <2>1, <2>17 DEF KnowsWhose
  <2>20. can_administer_pattern({g \in Held \union origin : g.workspace = h.workspace},
                                h.actor, h.pattern)
    BY <1>2, <2>17 DEF HasAuthority
  <2>21. nextId <= nextId'
    BY <2>3 DEF RacingInv, TypeOK, PolicyStoreTypeOK
  <2>22. history' = Append(history, h) /\ h.event # "policy.deleted"
    BY <1>4, <2>17
  <2> HIDE DEF h
  <2> QED
    BY <2>6, <2>7, <2>8, <2>12, <2>13, <2>16, <2>18, <2>19, <2>20, <2>21, <2>22, ChangeKeeps
<1> QED
  BY <1>3, <1>4 DEF UpdateWrite

LEMMA RevokeDeleteKeeps ==
  ASSUME NEW away, NEW origin, RacingInv(away, origin),
         NEW c \in Caller, RevokeDelete(c)
  PROVE  RacingInv(away, origin)'
<1> DEFINE k == call[c]
<1>1. /\ pc[c] = "revoke_delete" /\ UNCHANGED <<call, seen, begun, audit>>
      /\ Goto(c, "record_deleted")
      /\ policies' = policies \ get_policy(k.workspace, k.id) /\ nextId' = nextId
  BY DEF RevokeDelete, delete_policy
<1>2. k \in Call /\ KnowsWhose(c, away)
  BY <1>1 DEF RacingInv, CallInv, Informed
<1>3. pc'[c] = "record_deleted" /\ call'[c] = k /\ seen'[c] = seen[c]
  BY <1>1 DEF RacingInv, TypeOK, Goto
<1>4. Alone(c)
  BY <1>1 DEF RacingInv, TypeOK, Goto, Alone
<1>5. KnowsWhose(c, away)'
  BY <1>1, <1>2, <1>3 DEF KnowsWhose
<1>6. CallInv(c, away, origin)'
  BY <1>2, <1>3, <1>5 DEF CallInv, Granting, Updating, Informed, Authorized, Bootstrapping
<1>7. CASE get_policy(k.workspace, k.id) = {} /\ UNCHANGED history
  <2>1. UNCHANGED <<store, history>>
    BY <1>1, <1>7 DEF store
  <2>2. TypeOK'
    BY <1>1, <2>1 DEF RacingInv, TypeOK, PolicyStoreTypeOK, Goto, Control, store
  <2> QED
    BY <1>4, <1>6, <2>1, <2>2, StoreUntouched
<1>8. ASSUME NEW p \in get_policy(k.workspace, k.id),
             history' = Append(history, Deleted(k, p))
      PROVE  RacingInv(away, origin)'
  <2> DEFINE h == Deleted(k, p)
  <2>1. p \in policies /\ p \in Policy /\ p.id = k.id
    BY <1>8 DEF get_policy, list_policies, RacingInv, TypeOK, PolicyStoreTypeOK
  <2>2. h \in Change
    BY <1>2, <2>1, RecordTypes
  <2>3. policies' = policies \ {p}
    BY <1>1, <1>8, <2>1 DEF get_policy, list_policies, RacingInv, StoreInv
  <2>4. TypeOK'
    BY <1>1, <1>8, <2>2, <2>3 DEF RacingInv, TypeOK, PolicyStoreTypeOK, Goto, Control
  <2>5. StoreInv(away)'
    BY <1>1, <2>3 DEF RacingInv, StoreInv, WellFiled
  <2>6. /\ h.event = "policy.deleted" /\ h.policy_id = k.id
        /\ h.principal = p.principal /\ h.actor = k.actor
    BY DEF Deleted
  <2>8. h.actor # Lower[h.principal]
    BY <1>2, <2>1, <2>6 DEF KnowsWhose
  <2>9. nextId <= nextId'
    BY <1>1 DEF RacingInv, TypeOK, PolicyStoreTypeOK
  <2>10. policies' \subseteq policies /\ history' = Append(history, h)
    BY <1>8, <2>3
  <2> HIDE DEF h
  <2> QED
    BY <1>4, <1>6, <2>2, <2>4, <2>5, <2>6, <2>8, <2>9, <2>10, ChangeKeeps
<1> QED
  BY <1>7, <1>8 DEF RevokeDelete

(***************************************************************************)
(* The invariant, and what follows.                                        *)
(***************************************************************************)
\* What is away began as it is, and says of nobody else what the store says of them.
LEMMA RacingInitially ==
  ASSUME NEW away, away \subseteq Policy, \A p \in away : WellFiled(p) /\ p.id < FirstId,
         \A p \in Genesis, q \in away : p.id = q.id => p.principal = q.principal,
         Init
  PROVE  RacingInv(away, away)
<1>1. history = <<>> /\ audit = <<>> /\ Len(history) = 0
  BY DEF Init
<1>2. TypeOK
  <2>1. audit \in Seq(Change) /\ history \in Seq(Change)
    BY <1>1
  <2>2. PolicyStoreTypeOK /\ begun \in Nat
    BY GrantsAssumption, GenesisAssumption DEF Init, PolicyStoreTypeOK
  <2> QED
    BY <2>1, <2>2 DEF Init, TypeOK, Control, Outcome
<1>3. StoreInv(away)
  BY GenesisAssumption DEF Init, StoreInv
<1>4. TrailInv(away, away)
  <2>1. policies \subseteq Held
    BY DEF Init, Held, HeldBefore
  <2>2. \A n \in 1..Len(history) : FALSE
    BY <1>1
  <2> QED
    BY <2>1, <2>2 DEF TrailInv, NobodyServesThemselves, RootedIn
<1>5. \A c \in Caller : CallInv(c, away, away)
  BY DEF Init, CallInv
<1> QED
  BY <1>2, <1>3, <1>4, <1>5 DEF RacingInv

LEMMA StepKeeps ==
  ASSUME NEW away, NEW origin, RacingInv(away, origin), NEW c \in Caller, Step(c)
  PROVE  RacingInv(away, origin)'
<1>1. ASSUME GrantAuthorize(c) PROVE RacingInv(away, origin)'
  <2>1. call[c].op = "grant" /\ Lower[call[c].principal] # call[c].actor
        /\ IsPattern(call[c].pattern)
    BY <1>1 DEF GrantAuthorize, RacingInv, CallInv, Granting
  <2> QED
    BY <1>1, <2>1, AuthorizeKeeps
    DEF GrantAuthorize, Control, Granting, Updating, Informed, Authorized
<1>2. ASSUME UpdateAuthorize(c) PROVE RacingInv(away, origin)'
  <2>1. IsPattern(call[c].pattern) /\ KnowsWhose(c, away)
    BY <1>2 DEF UpdateAuthorize, RacingInv, CallInv, Updating, Informed
  <2> QED
    BY <1>2, <2>1, AuthorizeKeeps
    DEF UpdateAuthorize, Control, Granting, Updating, Informed, Authorized
<1>3. ASSUME RevokeAuthorize(c) PROVE RacingInv(away, origin)'
  <2>1. KnowsWhose(c, away)
    BY <1>3 DEF RevokeAuthorize, RacingInv, CallInv, Informed
  <2> QED
    BY <1>3, <2>1, AuthorizeKeeps
    DEF RevokeAuthorize, Control, Granting, Updating, Informed, Authorized
<1>4. ASSUME ResolveAuthorize(c) PROVE RacingInv(away, origin)'
  BY <1>4, AuthorizeKeeps
  DEF ResolveAuthorize, Control, Granting, Updating, Informed, Authorized
<1>5. ASSUME GrantCheckConflict(c) PROVE RacingInv(away, origin)'
  BY <1>5, CheckConflictKeeps DEF GrantCheckConflict
<1>6. ASSUME UpdateCheckConflict(c) PROVE RacingInv(away, origin)'
  BY <1>6, CheckConflictKeeps DEF UpdateCheckConflict
<1>7. ASSUME UpdateGet(c) \/ RevokeGet(c) PROVE RacingInv(away, origin)'
  BY <1>7, FetchKeeps DEF UpdateGet, RevokeGet
<1> QED
  BY <1>1, <1>2, <1>3, <1>4, <1>5, <1>6, <1>7, ResolveMatchKeeps,
     BootstrapCheckVacantKeeps, GrantCreateKeeps, BootstrapCreateKeeps,
     UpdateWriteKeeps, RevokeDeleteKeeps, RecordCreatedKeeps, RecordUpdatedKeeps
  DEF Step

LEMMA RacingKept ==
  ASSUME NEW away, NEW origin, RacingInv(away, origin), [Next]_vars
  PROVE  RacingInv(away, origin)'
<1>1. CASE UNCHANGED vars
  <2>1. UNCHANGED <<store, history>> /\ TypeOK'
    BY <1>1 DEF vars, local, store, RacingInv, TypeOK, PolicyStoreTypeOK
  <2>2. ASSUME NEW c \in Caller PROVE Alone(c) /\ CallInv(c, away, origin)'
    <3>1. Alone(c)
      BY <1>1 DEF vars, local, Alone
    <3>2. Held' = Held
      BY <2>1, HeldStays
    <3>3. KnowsWhose(c, away)' = KnowsWhose(c, away)
      BY <1>1 DEF vars, local, store, KnowsWhose
    <3>4. HasAuthority(c, origin)' = HasAuthority(c, origin)
      BY <1>1, <3>2 DEF vars, local, HasAuthority, can_administer_pattern
    <3>5. Bootstrapping(c)' = Bootstrapping(c) /\ Founds(c)' = Founds(c)
      BY <1>1 DEF vars, local, Bootstrapping, Founds
    <3>6. CallInv(c, away, origin)'
      BY <1>1, <3>3, <3>4, <3>5 DEF vars, local, RacingInv, CallInv
    <3> QED
      BY <3>1, <3>6
  <2>3. CASE Caller = {}
    BY <2>1, <2>3, GlobalUntouched DEF RacingInv
  <2> QED
    BY <2>1, <2>2, <2>3, StoreUntouched
<1>2. ASSUME NEW c \in Caller, Begin(c) \/ Step(c) \/ Abort(c)
      PROVE  RacingInv(away, origin)'
  BY <1>2, BeginKeeps, StepKeeps, AbortKeeps
<1> QED
  BY <1>1, <1>2 DEF Next, Done

\* What writes to the store.
LEMMA WhatWrites ==
  ASSUME [Next]_vars
  PROVE  \/ UNCHANGED <<policies, nextId, history>>
         \/ \E c \in Caller : \/ GrantCreate(c) \/ BootstrapCreate(c)
                              \/ UpdateWrite(c) \/ RevokeDelete(c)
<1>1. CASE UNCHANGED vars \/ Done
  BY <1>1 DEF vars, store, Done
<1>2. ASSUME NEW c \in Caller, Begin(c) \/ Abort(c)
      PROVE  UNCHANGED <<policies, nextId, history>>
  BY <1>2 DEF Begin, Abort, ReadOnly, store
<1>3. ASSUME NEW c \in Caller, Step(c)
      PROVE  \/ UNCHANGED <<policies, nextId, history>>
             \/ GrantCreate(c) \/ BootstrapCreate(c) \/ UpdateWrite(c) \/ RevokeDelete(c)
  BY <1>3
  DEF Step, GrantAuthorize, GrantCheckConflict, UpdateGet, UpdateAuthorize, UpdateCheckConflict,
      RevokeGet, RevokeAuthorize, ResolveAuthorize, ResolveMatch, BootstrapCheckVacant,
      RecordCreated, RecordUpdated, RecordDeleted, Authorize, CheckConflict, Fetch, ReadOnly, store
<1> QED
  BY <1>1, <1>2, <1>3 DEF Next

\* A document written has the id it had, or one that nothing had.
LEMMA IdsWritten ==
  ASSUME TypeOK, [Next]_vars
  PROVE  /\ nextId <= nextId'
         /\ \A p \in policies' : p.id = nextId \/ \E q \in policies : q.id = p.id
<1>1. nextId \in Nat /\ policies \subseteq Policy
  BY DEF TypeOK, PolicyStoreTypeOK
<1>2. ASSUME NEW c \in Caller, GrantCreate(c) \/ BootstrapCreate(c)
      PROVE  /\ nextId' = nextId + 1
             /\ \A p \in policies' : p.id = nextId \/ \E q \in policies : q.id = p.id
  <2>1. PICK k : create_policy(k.workspace, k.principal, k.role, k.pattern, k.actor)
    BY <1>2 DEF GrantCreate, BootstrapCreate
  <2> QED
    BY <2>1 DEF create_policy
<1>3. ASSUME NEW c \in Caller, UpdateWrite(c)
      PROVE  /\ nextId' = nextId
             /\ \A p \in policies' : \E q \in policies : q.id = p.id
  <2> DEFINE k == call[c]
  <2>1. ASSUME NEW q \in policies
        PROVE  [q EXCEPT !.role = k.role, !.pattern = k.pattern, !.updated_by = k.actor].id = q.id
    BY <1>1 DEF Policy
  <2>2. CASE UNCHANGED store
    BY <2>2 DEF store
  <2>3. CASE update_policy(k.workspace, k.id, k.role, k.pattern, k.actor)
    <3> SUFFICES ASSUME NEW p \in policies', p \notin policies
                 PROVE  \E q \in policies : q.id = p.id
      BY <2>3 DEF update_policy
    <3>1. PICK q \in get_policy(k.workspace, k.id) :
            p = [q EXCEPT !.role = k.role, !.pattern = k.pattern, !.updated_by = k.actor]
      BY <2>3 DEF update_policy
    <3>2. q \in policies
      BY DEF get_policy, list_policies
    <3> QED
      BY <2>1, <3>1, <3>2
  <2> QED
    BY <1>3, <2>2, <2>3 DEF UpdateWrite
<1>4. ASSUME NEW c \in Caller, RevokeDelete(c)
      PROVE  nextId' = nextId /\ policies' \subseteq policies
  BY <1>4 DEF RevokeDelete, delete_policy
<1> QED
  BY <1>1, <1>2, <1>3, <1>4, WhatWrites

\* So what was deleted does not come back.
LEMMA DeletedStaysGone ==
  ASSUME GrantsInv, [Next]_vars
  PROVE  DeletedIsGone'
<1>1. /\ TypeOK /\ history \in Seq(Change) /\ Len(history) \in Nat /\ nextId \in Nat
      /\ \A p \in policies : p.id \in Nat /\ p.id < nextId
      /\ \A p, q \in policies : p.id = q.id => p = q
  BY DEF GrantsInv, RacingInv, TypeOK, PolicyStoreTypeOK, StoreInv, Policy
<1>2. ASSUME NEW n \in 1..Len(history), history[n].event = "policy.deleted"
      PROVE  /\ history[n].policy_id < nextId'
             /\ \A p \in policies' : p.id # history[n].policy_id
  <2>1. history[n] \in Change
    BY <1>1, ElementOfSeq
  <2>2. history[n].policy_id \in Nat
    BY <2>1 DEF Change
  <2>3. /\ history[n].policy_id < nextId
        /\ \A p \in policies : p.id # history[n].policy_id
    BY <1>2 DEF GrantsInv, DeletedIsGone
  <2>4. nextId' \in Nat
    BY GrantsInv, RacingKept DEF GrantsInv, RacingInv, TypeOK, PolicyStoreTypeOK
  <2> QED
    BY <1>1, <2>2, <2>3, <2>4, IdsWritten
<1>3. CASE UNCHANGED history
  BY <1>2, <1>3 DEF DeletedIsGone
<1>4. ASSUME NEW h, history' = Append(history, h),
             h.event = "policy.deleted" =>
               h.policy_id < nextId' /\ \A p \in policies' : p.id # h.policy_id
      PROVE  DeletedIsGone'
  <2>1. /\ history'[Len(history) + 1] = h
        /\ \A n \in 1..Len(history) : history'[n] = history[n]
        /\ \A n \in 1..Len(history') : n = Len(history) + 1 \/ n \in 1..Len(history)
    BY <1>1, <1>4
  <2> QED
    BY <1>2, <1>4, <2>1 DEF DeletedIsGone
<1>5. ASSUME NEW c \in Caller, RevokeDelete(c)
      PROVE  DeletedIsGone'
  <2>1. /\ policies' = policies \ get_policy(call[c].workspace, call[c].id)
        /\ nextId' = nextId
    BY <1>5 DEF RevokeDelete, delete_policy
  <2>2. ASSUME NEW p \in get_policy(call[c].workspace, call[c].id),
               history' = Append(history, Deleted(call[c], p))
        PROVE  DeletedIsGone'
    <3>1. p \in policies /\ p.id = call[c].id /\ p \notin policies'
      BY <2>1, <2>2 DEF get_policy, list_policies
    <3>2. Deleted(call[c], p).policy_id = p.id
      BY <3>1 DEF Deleted
    <3>3. p.id < nextId' /\ \A q \in policies' : q.id # p.id
      BY <1>1, <2>1, <3>1
    <3> QED
      BY <1>4, <2>2, <3>2, <3>3
  <2> QED
    BY <1>3, <1>5, <2>2 DEF RevokeDelete
<1>6. ASSUME NEW c \in Caller, GrantCreate(c) \/ BootstrapCreate(c) \/ UpdateWrite(c)
      PROVE  DeletedIsGone'
  <2>1. \/ UNCHANGED history
        \/ \E h : history' = Append(history, h) /\ h.event # "policy.deleted"
    <3>1. \A k, was : /\ Created(k).event # "policy.deleted"
                     /\ Updated(k, was).event # "policy.deleted"
      BY DEF Created, Updated
    <3>2. CASE GrantCreate(c) \/ BootstrapCreate(c)
      BY <3>1, <3>2 DEF GrantCreate, BootstrapCreate
    <3>3. CASE UpdateWrite(c)
      BY <3>1, <3>3 DEF UpdateWrite
    <3> QED
      BY <1>6, <3>2, <3>3
  <2> QED
    BY <1>3, <1>4, <2>1
<1> QED
  BY <1>3, <1>5, <1>6, WhatWrites

LEMMA UntouchedStaysGone ==
  ASSUME GrantsInv, RacingInv({}, {})', UNCHANGED <<store, history>>
  PROVE  GrantsInv'
BY DEF GrantsInv, DeletedIsGone, store

LEMMA InitEstablishes == Init => GrantsInv
<1> SUFFICES ASSUME Init PROVE GrantsInv
  OBVIOUS
<1>1. RacingInv({}, {})
  BY RacingInitially
<1>2. DeletedIsGone
  BY DEF Init, DeletedIsGone
<1> QED
  BY <1>1, <1>2 DEF GrantsInv

LEMMA NextKeeps == GrantsInv /\ [Next]_vars => GrantsInv'
<1> SUFFICES ASSUME GrantsInv, [Next]_vars PROVE GrantsInv'
  OBVIOUS
<1>1. RacingInv({}, {})'
  BY RacingKept DEF GrantsInv
<1> QED
  BY <1>1, DeletedStaysGone DEF GrantsInv

\* The invariant holds of every behaviour, for any number of callers and calls.
THEOREM InvariantHolds == Spec => []GrantsInv
BY InitEstablishes, NextKeeps, PTL DEF Spec

\* Every variable keeps its type; in particular every record of the trail and
\* every stored document is well formed, whatever callers do and wherever they die.
THEOREM TypeCorrect == Spec => []TypeOK
<1>1. GrantsInv => TypeOK
  BY DEF GrantsInv, RacingInv
<1> QED
  BY <1>1, InvariantHolds, PTL

\* Documents are filed under the workspace their pattern names, although the
\* operations take the two separately and never compare them.
THEOREM DocumentsAreFiledWhereFound == Spec => []FiledWhereFound
<1>1. GrantsInv => FiledWhereFound
  BY DEF GrantsInv, RacingInv, StoreInv, FiledWhereFound
<1> QED
  BY <1>1, InvariantHolds, PTL

\* No interleaving lets anyone create, change or delete their own access.
THEOREM NobodyEverServesThemselves == Spec => []NobodyServesThemselves
<1>1. GrantsInv => NobodyServesThemselves
  BY DEF GrantsInv, RacingInv, TrailInv
<1> QED
  BY <1>1, InvariantHolds, PTL

\* Access is only handed out by someone who owned what they gave.
THEOREM AuthorityIsAlwaysRooted == Spec => []AuthorityIsRooted
<1>1. GrantsInv => AuthorityIsRooted
  BY DEF GrantsInv, RacingInv, TrailInv, RootedIn, RootedAt, AuthorityIsRooted
<1> QED
  BY <1>1, InvariantHolds, PTL

\* No update brings a deleted policy back.
THEOREM RevocationIsFinal == Spec => []RevokedStaysRevoked
<1>1. GrantsInv => RevokedStaysRevoked
  BY DEF GrantsInv, RacingInv, DeletedIsGone, RevokedStaysRevoked
<1> QED
  BY <1>1, InvariantHolds, PTL

(***************************************************************************)
(* The trail is truthful: nothing is recorded that did not happen,         *)
(* whichever calls die.                                                    *)
(***************************************************************************)

\* A record is true of a trail if the trail says so, or has that deletion.
TrueOf(r, trail) ==
  \E n \in 1..Len(trail) :
    \/ SaysOf(r, trail[n])
    \/ /\ r.event = "policy.deleted"
       /\ trail[n].event = "policy.deleted"
       /\ trail[n].workspace = r.workspace
       /\ trail[n].policy_id = r.policy_id
       /\ trail[n].principal = r.principal

(***************************************************************************)
(* What every step does to the past and to the store.                      *)
(***************************************************************************)

\* What happened has happened.
PastKept ==
  \A n \in 1..Len(history) : n \in 1..Len(history') /\ history'[n] = history[n]

\* No document leaves the store, or changes place or principal, unseen.
Accounted == \A p \in policies : StillStored(p)' \/ Revoked(p)'

LEMMA PastGrows ==
  ASSUME GrantsInv, NEW h \in Change, history' = Append(history, h)
  PROVE  PastKept /\ \E n \in 1..Len(history') : history'[n] = h
<1>1. history \in Seq(Change) /\ Len(history) \in Nat
  BY DEF GrantsInv, RacingInv, TypeOK
<1>2. /\ Len(history') = Len(history) + 1
      /\ history'[Len(history) + 1] = h
      /\ \A n \in 1..Len(history) : history'[n] = history[n]
  BY <1>1, HeldGrows
<1>3. Len(history) + 1 \in 1..Len(history')
  BY <1>1, <1>2
<1> QED
  BY <1>1, <1>2, <1>3 DEF PastKept

LEMMA NothingHappens ==
  ASSUME UNCHANGED <<store, history>>
  PROVE  PastKept /\ Accounted
<1>1. \A p \in policies : StillStored(p)'
  BY DEF store, StillStored
<1> QED
  BY <1>1 DEF PastKept, Accounted

LEMMA RevokedStays ==
  ASSUME PastKept, NEW p, Revoked(p)
  PROVE  \E n \in 1..Len(history') :
           /\ history'[n].event = "policy.deleted" /\ history'[n].policy_id = p.id
           /\ history'[n].workspace = p.workspace  /\ history'[n].principal = p.principal
BY DEF PastKept, Revoked

\* What is known of a document that was read stays known.
LEMMA ReadIsAccounted ==
  ASSUME PastKept, Accounted, NEW p, StillStored(p) \/ Revoked(p)
  PROVE  \/ \E q \in policies' : /\ q.id = p.id /\ q.workspace = p.workspace
                                 /\ q.principal = p.principal
         \/ \E n \in 1..Len(history') :
              /\ history'[n].event = "policy.deleted" /\ history'[n].policy_id = p.id
              /\ history'[n].workspace = p.workspace  /\ history'[n].principal = p.principal
<1>1. CASE Revoked(p)
  BY <1>1, RevokedStays
<1>2. CASE StillStored(p)
  <2>1. PICK q \in policies : /\ q.id = p.id /\ q.workspace = p.workspace
                              /\ q.principal = p.principal
    BY <1>2 DEF StillStored
  <2>2. StillStored(q)' \/ Revoked(q)'
    BY DEF Accounted
  <2> QED
    BY <2>1, <2>2 DEF StillStored, Revoked
<1> QED
  BY <1>1, <1>2

\* A call that did not move, or moved on without writing, keeps what it knows.
LEMMA RecordInvKept ==
  ASSUME NEW d, RecordInv(d), PastKept, Accounted,
         pc'[d] = pc[d], call'[d] = call[d], seen'[d] = seen[d]
  PROVE  RecordInv(d)'
<1>1. ASSUME pc[d] = "record_created"
      PROVE  \E n \in 1..Len(history') : history'[n] = Created(call[d])
  BY <1>1 DEF RecordInv, PastKept
<1>2. ASSUME pc[d] = "record_updated"
      PROVE  \E n \in 1..Len(history') : SaysOf(Updated(call[d], seen[d]), history'[n])
  BY <1>2 DEF RecordInv, PastKept
<1>3. ASSUME pc[d] \in Informed
      PROVE  StillStored(seen[d])' \/ Revoked(seen[d])'
  <2>1. StillStored(seen[d]) \/ Revoked(seen[d])
    BY <1>3 DEF RecordInv
  <2> QED
    BY <2>1, ReadIsAccounted DEF StillStored, Revoked
<1>4. ASSUME pc[d] = "record_deleted" PROVE Revoked(seen[d])'
  BY <1>4, RevokedStays DEF RecordInv, Revoked
<1>5. pc[d] \in Informed => seen[d].workspace = call[d].workspace
  BY DEF RecordInv
<1>6. /\ Created(call[d])' = Created(call[d])
      /\ Updated(call[d], seen[d])' = Updated(call[d], seen[d])
  BY DEF Created, Updated
<1> QED
  BY <1>1, <1>2, <1>3, <1>4, <1>5, <1>6 DEF RecordInv

(***************************************************************************)
(* Any step: it is enough to look at the call that takes it and at the     *)
(* record it makes, if any.                                                *)
(***************************************************************************)
LEMMA RecordsKept ==
  ASSUME RecordsInv, GrantsInv', NEW c \in Caller, Alone(c), PastKept, Accounted,
         RecordInv(c)',
         \/ audit' = audit
         \/ \E r \in Change : audit' = Append(audit, r) /\ TrueOf(r, history)
  PROVE  RecordsInv'
<1>1. \A d \in Caller : RecordInv(d)'
  BY RecordInvKept DEF RecordsInv, Alone
<1>2. ASSUME NEW r, TrueOf(r, history) PROVE TrueOf(r, history')
  BY <1>2 DEF TrueOf, PastKept
<1>3. \A a \in 1..Len(audit) : TrueOf(audit[a], history)
  BY DEF RecordsInv, RecordsAreTruthful, TrueOf
<1>4. audit \in Seq(Change)
  BY DEF RecordsInv, GrantsInv, RacingInv, TypeOK
<1>5. \A a \in 1..Len(audit') : TrueOf(audit'[a], history)
  <2>1. CASE audit' = audit
    BY <1>3, <2>1
  <2>2. ASSUME NEW r \in Change, audit' = Append(audit, r), TrueOf(r, history)
        PROVE  \A a \in 1..Len(audit') : TrueOf(audit'[a], history)
    <3>1. /\ Len(audit') = Len(audit) + 1 /\ Len(audit) \in Nat
          /\ \A a \in 1..Len(audit) : audit'[a] = audit[a]
          /\ audit'[Len(audit) + 1] = r
      BY <1>4, <2>2
    <3>2. \A a \in 1..Len(audit') : a \in 1..Len(audit) \/ a = Len(audit) + 1
      BY <3>1
    <3> QED
      BY <1>3, <2>2, <3>1, <3>2
  <2> QED
    BY <2>1, <2>2
<1>6. \A a \in 1..Len(audit') : TrueOf(audit'[a], history')
  BY <1>2, <1>5
<1>7. RecordsAreTruthful'
  BY <1>6 DEF RecordsAreTruthful, TrueOf
<1> QED
  BY <1>1, <1>7 DEF RecordsInv

\* A step that neither writes nor records, and that takes the call to where it
\* knows no more than it did.
LEMMA QuietKeeps ==
  ASSUME RecordsInv, GrantsInv', NEW c \in Caller, Alone(c),
         UNCHANGED <<store, history, audit>>,
         pc'[c] \notin {"record_created", "record_updated", "record_deleted"},
         pc'[c] \in Informed => /\ pc[c] \in Informed
                                /\ seen'[c] = seen[c] /\ call'[c] = call[c]
  PROVE  RecordsInv'
<1>1. PastKept /\ Accounted
  BY NothingHappens
<1>2. ASSUME pc'[c] \in Informed
      PROVE  /\ seen'[c].workspace = call'[c].workspace
             /\ StillStored(seen[c])' \/ Revoked(seen[c])'
  <2>1. /\ seen[c].workspace = call[c].workspace
        /\ StillStored(seen[c]) \/ Revoked(seen[c])
    BY <1>2 DEF RecordsInv, RecordInv
  <2> QED
    BY <1>1, <1>2, <2>1, ReadIsAccounted DEF StillStored, Revoked
<1>3. RecordInv(c)'
  BY <1>2 DEF RecordInv
<1> QED
  BY <1>1, <1>3, RecordsKept

(***************************************************************************)
(* The steps, one by one.  That each keeps GrantsInv is known.             *)
(***************************************************************************)

\* A call that ends has nothing more to record.
LEMMA EndingRecords ==
  ASSUME RecordsInv, GrantsInv', NEW c \in Caller, NEW result, Return(c, result),
         UNCHANGED <<store, history, audit>>
  PROVE  RecordsInv'
<1>1. pc'[c] = "idle" /\ Alone(c)
  BY DEF RecordsInv, GrantsInv, RacingInv, TypeOK, Return, Alone
<1> QED
  BY <1>1, QuietKeeps DEF Informed

LEMMA GoingOnRecords ==
  ASSUME RecordsInv, GrantsInv', NEW c \in Caller, NEW at, Goto(c, at), ReadOnly,
         UNCHANGED seen,
         \/ UNCHANGED call
         \/ at \notin Informed /\ \E k : call' = [call EXCEPT ![c] = k],
         at \notin {"record_created", "record_updated", "record_deleted"},
         at \in Informed => pc[c] \in Informed
  PROVE  RecordsInv'
<1>1. /\ pc'[c] = at /\ seen'[c] = seen[c] /\ (at \in Informed => call'[c] = call[c])
      /\ Alone(c)
  BY DEF RecordsInv, GrantsInv, RacingInv, TypeOK, Goto, Alone
<1> QED
  BY <1>1, QuietKeeps DEF ReadOnly

LEMMA AuthorizeRecords ==
  ASSUME RecordsInv, GrantsInv', NEW c \in Caller, NEW patterns, NEW granted,
         Authorize(c, patterns, granted),
         granted \notin {"record_created", "record_updated", "record_deleted"},
         granted \in Informed => pc[c] \in Informed
  PROVE  RecordsInv'
<1>1. CASE Return(c, "AccessDenied")
  BY <1>1, EndingRecords DEF Authorize, ReadOnly
<1>2. CASE Goto(c, granted) /\ UNCHANGED <<call, seen>>
  BY <1>2, GoingOnRecords DEF Authorize
<1> QED
  BY <1>1, <1>2 DEF Authorize

LEMMA CheckConflictRecords ==
  ASSUME RecordsInv, GrantsInv', NEW c \in Caller, NEW principal, NEW besides, NEW clear,
         CheckConflict(c, principal, besides, clear),
         clear \notin {"record_created", "record_updated", "record_deleted"},
         clear \in Informed => pc[c] \in Informed
  PROVE  RecordsInv'
<1>1. CASE Return(c, "Conflict")
  BY <1>1, EndingRecords DEF CheckConflict, ReadOnly
<1>2. CASE Goto(c, clear) /\ UNCHANGED <<call, seen>>
  BY <1>2, GoingOnRecords DEF CheckConflict
<1> QED
  BY <1>1, <1>2 DEF CheckConflict

\* The document is there as it is read, in the workspace of the call.
LEMMA FetchRecords ==
  ASSUME RecordsInv, GrantsInv', NEW c \in Caller, NEW found_at,
         found_at \in {"update_authorize", "revoke_authorize"}, Fetch(c, found_at)
  PROVE  RecordsInv'
<1>1. UNCHANGED <<store, history, audit>>
  BY DEF Fetch, ReadOnly
<1>2. CASE Return(c, "NotFound") \/ Return(c, "SelfAccess")
  BY <1>1, <1>2, EndingRecords
<1>3. ASSUME NEW p \in get_policy(call[c].workspace, call[c].id),
             seen' = [seen EXCEPT ![c] = p], Goto(c, found_at), UNCHANGED call
      PROVE  RecordsInv'
  <2>1. p \in policies /\ p.workspace = call[c].workspace
    BY DEF get_policy, list_policies
  <2>2. /\ pc'[c] = found_at /\ call'[c] = call[c] /\ seen'[c] = p
        /\ Alone(c)
    BY <1>3 DEF RecordsInv, GrantsInv, RacingInv, TypeOK, Goto, Alone
  <2>3. PastKept /\ Accounted
    BY <1>1, NothingHappens
  <2>4. StillStored(seen[c])'
    BY <1>1, <2>1, <2>2 DEF StillStored, store
  <2>5. RecordInv(c)'
    BY <2>1, <2>2, <2>4 DEF RecordInv
  <2> QED
    BY <1>1, <2>2, <2>3, <2>5, RecordsKept
<1> QED
  BY <1>2, <1>3 DEF Fetch

\* Every document of before is still there after one was added.
LEMMA CreateRecords ==
  ASSUME RecordsInv, GrantsInv', NEW c \in Caller, NEW k \in Call,
         create_policy(k.workspace, k.principal, k.role, k.pattern, k.actor),
         history' = Append(history, Created(k)),
         call' = [call EXCEPT ![c] = k], Goto(c, "record_created"),
         UNCHANGED <<seen, begun, audit>>
  PROVE  RecordsInv'
<1>1. Created(k) \in Change
  BY RecordTypes
<1>2. PastKept /\ \E n \in 1..Len(history') : history'[n] = Created(k)
  BY <1>1, PastGrows DEF RecordsInv
<1>3. policies \subseteq policies'
  BY DEF create_policy
<1>4. Accounted
  BY <1>3 DEF Accounted, StillStored
<1>5. pc'[c] = "record_created" /\ call'[c] = k /\ Alone(c)
  BY DEF RecordsInv, GrantsInv, RacingInv, TypeOK, Goto, Alone
<1>6. Created(call[c])' = Created(k)
  BY <1>5 DEF Created
<1>7. RecordInv(c)'
  BY <1>2, <1>5, <1>6 DEF RecordInv, Informed
<1> QED
  BY <1>2, <1>4, <1>5, <1>7, RecordsKept

LEMMA GrantCreateRecords ==
  ASSUME RecordsInv, GrantsInv', NEW c \in Caller, GrantCreate(c)
  PROVE  RecordsInv'
<1> DEFINE k == [call[c] EXCEPT !.id = nextId]
<1>1. call[c] \in Call /\ nextId \in Nat
  BY DEF GrantCreate, RecordsInv, GrantsInv, RacingInv, CallInv, TypeOK, PolicyStoreTypeOK
<1>2. k \in Call
  BY <1>1 DEF Call
<1>3. /\ create_policy(k.workspace, k.principal, k.role, k.pattern, k.actor)
      /\ history' = Append(history, Created(k))
      /\ call' = [call EXCEPT ![c] = k]
      /\ Goto(c, "record_created") /\ UNCHANGED <<seen, begun, audit>>
  BY DEF GrantCreate
<1> HIDE DEF k
<1> QED
  BY <1>2, <1>3, CreateRecords

LEMMA BootstrapCreateRecords ==
  ASSUME RecordsInv, GrantsInv', NEW c \in Caller, BootstrapCreate(c)
  PROVE  RecordsInv'
<1> DEFINE member == Head(call[c].members)
           k == [call[c] EXCEPT !.principal = member.principal, !.role = member.role,
                                !.id = nextId, !.members = Tail(call[c].members)]
<1>1. /\ create_policy(k.workspace, k.principal, k.role, k.pattern, k.actor)
      /\ history' = Append(history, Created(k))
      /\ call' = [call EXCEPT ![c] = k]
      /\ Goto(c, "record_created") /\ UNCHANGED <<seen, begun, audit>>
  BY DEF BootstrapCreate
<1>2. k \in Call
  <2>1. /\ call'[c] = k /\ pc'[c] = "record_created"
    BY <1>1 DEF RecordsInv, GrantsInv, RacingInv, TypeOK, Goto
  <2> QED
    BY <2>1 DEF GrantsInv, RacingInv, CallInv
<1> HIDE DEF k
<1> QED
  BY <1>1, <1>2, CreateRecords

\* Two records of one update differ at most in what they say was there before.
LEMMA SaysOfUpdated ==
  ASSUME NEW k \in Call, NEW p \in Policy, NEW q \in Policy, p.principal = q.principal
  PROVE  SaysOf(Updated(k, q), Updated(k, p))
<1> DEFINE h == Updated(k, p)
           r == Updated(k, q)
           g == [h EXCEPT !.previous_role = r.previous_role,
                          !.previous_pattern = r.previous_pattern]
<1>1. g \in Change /\ r \in Change
  BY RecordTypes DEF Change
<1>2. /\ g.event = r.event /\ g.actor = r.actor /\ g.workspace = r.workspace
      /\ g.policy_id = r.policy_id /\ g.principal = r.principal /\ g.role = r.role
      /\ g.pattern = r.pattern /\ g.bootstrap = r.bootstrap
      /\ g.previous_role = r.previous_role /\ g.previous_pattern = r.previous_pattern
  BY DEF Updated
<1> HIDE DEF g, r
<1>3. g = r
  BY <1>1, <1>2 DEF Change
<1> QED
  BY <1>3 DEF SaysOf, g, r

\* An update leaves a document its id, its place and its principal; and the
\* principal is the one that was read, so that the record says what was done.
LEMMA UpdateWriteRecords ==
  ASSUME RecordsInv, GrantsInv', NEW c \in Caller, UpdateWrite(c)
  PROVE  RecordsInv'
<1> DEFINE k == call[c]
<1>1. /\ pc[c] = "update_write" /\ UNCHANGED <<begun, audit>>
      /\ k \in Call /\ KnowsWhose(c, {})
  BY DEF UpdateWrite, RecordsInv, GrantsInv, RacingInv, CallInv, Informed
<1>2. CASE Return(c, "BackendError") /\ UNCHANGED <<store, history>>
  BY <1>1, <1>2, EndingRecords
<1>3. ASSUME NEW p \in get_policy(k.workspace, k.id),
             update_policy(k.workspace, k.id, k.role, k.pattern, k.actor),
             history' = Append(history, Updated(k, p)),
             Goto(c, "record_updated"), UNCHANGED <<call, seen>>
      PROVE  RecordsInv'
  <2> DEFINE new == [p EXCEPT !.role = k.role, !.pattern = k.pattern, !.updated_by = k.actor]
  <2>1. /\ p \in policies /\ p \in Policy /\ p.id = k.id /\ p.workspace = k.workspace
        /\ get_policy(k.workspace, k.id) = {p}
    BY <1>3 DEF get_policy, list_policies, RecordsInv, GrantsInv, RacingInv, TypeOK,
                PolicyStoreTypeOK, StoreInv
  <2>2. policies' = (policies \ {p}) \union {new}
    BY <1>3, <2>1 DEF update_policy
  <2>3. new.id = p.id /\ new.workspace = p.workspace /\ new.principal = p.principal
    BY <2>1 DEF Policy
  <2>4. p.principal = seen[c].principal /\ seen[c].id = k.id
        /\ seen[c].workspace = k.workspace
    BY <1>1, <2>1 DEF KnowsWhose, RecordsInv, RecordInv, Informed
  <2> HIDE DEF new
  <2>5. Accounted
    <3> SUFFICES ASSUME NEW q \in policies PROVE StillStored(q)'
      BY DEF Accounted
    <3>1. CASE q = p
      BY <2>2, <2>3, <3>1 DEF StillStored
    <3>2. CASE q # p
      BY <2>2, <3>2 DEF StillStored
    <3> QED
      BY <3>1, <3>2
  <2>6. Updated(k, p) \in Change
    BY <1>1, <2>1, RecordTypes
  <2>7. PastKept /\ \E n \in 1..Len(history') : history'[n] = Updated(k, p)
    BY <1>3, <2>6, PastGrows DEF RecordsInv
  <2>8. /\ pc'[c] = "record_updated" /\ call'[c] = k /\ seen'[c] = seen[c] /\ Alone(c)
    BY <1>3 DEF RecordsInv, GrantsInv, RacingInv, TypeOK, Goto, Alone
  <2>9. SaysOf(Updated(k, seen[c]), Updated(k, p))
    BY <1>1, <2>1, <2>4, SaysOfUpdated DEF KnowsWhose
  <2>10. Updated(call[c], seen[c])' = Updated(k, seen[c])
    BY <2>8 DEF Updated
  <2>11. StillStored(seen[c])'
    BY <2>1, <2>2, <2>3, <2>4, <2>8 DEF StillStored
  <2>12. RecordInv(c)'
    BY <2>4, <2>7, <2>8, <2>9, <2>10, <2>11 DEF RecordInv
  <2> QED
    BY <1>1, <2>5, <2>7, <2>8, <2>12, RecordsKept
<1> QED
  BY <1>2, <1>3 DEF UpdateWrite

\* A delete that finds the document gone repeats a deletion; one that finds it
\* deletes a document of the principal that was read.
LEMMA RevokeDeleteRecords ==
  ASSUME RecordsInv, GrantsInv', NEW c \in Caller, RevokeDelete(c)
  PROVE  RecordsInv'
<1> DEFINE k == call[c]
           s == seen[c]
<1>1. /\ pc[c] = "revoke_delete" /\ UNCHANGED <<call, seen, begun, audit>>
      /\ Goto(c, "record_deleted")
      /\ policies' = policies \ get_policy(k.workspace, k.id) /\ nextId' = nextId
  BY DEF RevokeDelete, delete_policy
<1>2. /\ k \in Call /\ KnowsWhose(c, {}) /\ s.id = k.id /\ s.workspace = k.workspace
      /\ StillStored(s) \/ Revoked(s)
  BY <1>1 DEF RecordsInv, RecordInv, GrantsInv, RacingInv, CallInv, Informed, KnowsWhose
<1>3. /\ pc'[c] = "record_deleted" /\ call'[c] = k /\ seen'[c] = s /\ Alone(c)
  BY <1>1 DEF RecordsInv, GrantsInv, RacingInv, TypeOK, Goto, Alone
<1>4. CASE get_policy(k.workspace, k.id) = {} /\ UNCHANGED history
  <2>1. UNCHANGED <<store, history>>
    BY <1>1, <1>4 DEF store
  <2>2. ~StillStored(s)
    BY <1>2, <1>4 DEF StillStored, get_policy, list_policies
  <2>3. Revoked(seen[c])'
    BY <1>2, <1>3, <2>1, <2>2 DEF Revoked
  <2>4. RecordInv(c)'
    BY <1>2, <1>3, <2>3 DEF RecordInv
  <2> QED
    BY <1>1, <1>3, <2>1, <2>4, NothingHappens, RecordsKept
<1>5. ASSUME NEW p \in get_policy(k.workspace, k.id),
             history' = Append(history, Deleted(k, p))
      PROVE  RecordsInv'
  <2>1. /\ p \in policies /\ p \in Policy /\ p.id = k.id /\ p.workspace = k.workspace
        /\ get_policy(k.workspace, k.id) = {p}
    BY <1>5 DEF get_policy, list_policies, RecordsInv, GrantsInv, RacingInv, TypeOK,
                PolicyStoreTypeOK, StoreInv
  <2>2. Deleted(k, p) \in Change
    BY <1>2, <2>1, RecordTypes
  <2>3. PastKept /\ \E n \in 1..Len(history') : history'[n] = Deleted(k, p)
    BY <1>5, <2>2, PastGrows DEF RecordsInv
  <2>4. Revoked(p)'
    BY <2>1, <2>3 DEF Revoked, Deleted
  <2>5. p.principal = s.principal
    BY <1>2, <2>1 DEF KnowsWhose
  <2>6. Revoked(seen[c])'
    BY <1>2, <1>3, <2>1, <2>4, <2>5 DEF Revoked
  <2>7. Accounted
    <3> SUFFICES ASSUME NEW q \in policies PROVE StillStored(q)' \/ Revoked(q)'
      BY DEF Accounted
    <3>1. CASE q = p
      BY <2>4, <3>1
    <3>2. CASE q # p
      BY <1>1, <2>1, <3>2 DEF StillStored
    <3> QED
      BY <3>1, <3>2
  <2>8. RecordInv(c)'
    BY <1>2, <1>3, <2>6 DEF RecordInv
  <2> QED
    BY <1>1, <1>3, <2>3, <2>7, <2>8, RecordsKept
<1> QED
  BY <1>4, <1>5 DEF RevokeDelete

\* What is recorded is what was found out before.
LEMMA RecordingRecords ==
  ASSUME RecordsInv, GrantsInv', NEW c \in Caller,
         RecordCreated(c) \/ RecordUpdated(c) \/ RecordDeleted(c)
  PROVE  RecordsInv'
<1>1. /\ call[c] \in Call /\ UNCHANGED <<store, history>>
      /\ RecordInv(c) /\ (pc[c] \in Informed => KnowsWhose(c, {}))
  BY DEF RecordCreated, RecordUpdated, RecordDeleted, RecordsInv, GrantsInv, RacingInv, CallInv
<1>2. \E r \in Change : audit' = Append(audit, r) /\ TrueOf(r, history)
  <2>1. CASE RecordCreated(c)
    <3>1. PICK n \in 1..Len(history) : history[n] = Created(call[c])
      BY <1>1, <2>1 DEF RecordCreated, RecordInv
    <3>2. SaysOf(Created(call[c]), Created(call[c]))
      BY DEF SaysOf, Created
    <3> QED
      BY <1>1, <2>1, <3>1, <3>2, RecordTypes DEF RecordCreated, TrueOf
  <2>2. CASE RecordUpdated(c)
    BY <1>1, <2>2, RecordTypes
    DEF RecordUpdated, RecordInv, TrueOf, Informed, KnowsWhose
  <2>3. CASE RecordDeleted(c)
    <3>1. /\ pc[c] \in Informed /\ Revoked(seen[c]) /\ seen[c].id = call[c].id
          /\ seen[c].workspace = call[c].workspace /\ seen[c] \in Policy
      BY <1>1, <2>3 DEF RecordDeleted, RecordInv, Informed, KnowsWhose
    <3>2. TrueOf(Deleted(call[c], seen[c]), history)
      BY <3>1 DEF Revoked, TrueOf, Deleted
    <3> QED
      BY <1>1, <2>3, <3>1, <3>2, RecordTypes DEF RecordDeleted
  <2> QED
    BY <2>1, <2>2, <2>3
<1>3. pc'[c] \in {"idle", "bootstrap_create"} /\ Alone(c)
  BY DEF RecordCreated, RecordUpdated, RecordDeleted, Goto, Return,
         RecordsInv, GrantsInv, RacingInv, TypeOK, Alone
<1>4. RecordInv(c)'
  BY <1>3 DEF RecordInv, Informed
<1> QED
  BY <1>1, <1>2, <1>3, <1>4, NothingHappens, RecordsKept

LEMMA BeginRecords ==
  ASSUME RecordsInv, GrantsInv', NEW c \in Caller, Begin(c)
  PROVE  RecordsInv'
<1>1. PICK r \in Requests : Enter(c, r)
  BY DEF Begin
<1>2. UNCHANGED <<store, audit, history>>
  BY DEF Begin
<1>3. CASE Return(c, Refusal(Normalized(r)))
  BY <1>2, <1>3, EndingRecords
<1>4. CASE Goto(c, FirstStoreCall(r.op)) /\ (\E k : call' = [call EXCEPT ![c] = k])
           /\ UNCHANGED seen
  <2>1. r.op \in {"grant", "update_grant", "revoke", "revoke_grant", "bootstrap"}
    BY GrantsAssumption DEF Call
  <2>2. FirstStoreCall(r.op) \in {"grant_authorize", "update_get", "revoke_get",
                                  "resolve_authorize", "bootstrap_vacant"}
    BY <2>1 DEF FirstStoreCall
  <2>3. pc'[c] = FirstStoreCall(r.op) /\ Alone(c)
    BY <1>4 DEF RecordsInv, GrantsInv, RacingInv, TypeOK, Goto, Alone
  <2> QED
    BY <1>2, <2>2, <2>3, QuietKeeps DEF Informed
<1> QED
  BY <1>1, <1>3, <1>4 DEF Enter

LEMMA StepRecords ==
  ASSUME RecordsInv, GrantsInv', NEW c \in Caller, Step(c)
  PROVE  RecordsInv'
<1>1. ASSUME GrantAuthorize(c) \/ UpdateAuthorize(c) \/ RevokeAuthorize(c)
             \/ ResolveAuthorize(c)
      PROVE  RecordsInv'
  BY <1>1, AuthorizeRecords
  DEF GrantAuthorize, UpdateAuthorize, RevokeAuthorize, ResolveAuthorize, Informed
<1>2. ASSUME GrantCheckConflict(c) \/ UpdateCheckConflict(c) PROVE RecordsInv'
  BY <1>2, CheckConflictRecords DEF GrantCheckConflict, UpdateCheckConflict, Informed
<1>3. ASSUME UpdateGet(c) \/ RevokeGet(c) PROVE RecordsInv'
  BY <1>3, FetchRecords DEF UpdateGet, RevokeGet
<1>4. ASSUME ResolveMatch(c) PROVE RecordsInv'
  <2>1. CASE Return(c, "NotFound")
    BY <1>4, <2>1, EndingRecords DEF ResolveMatch, ReadOnly
  <2>2. CASE \E p : /\ call' = [call EXCEPT ![c].id = p.id]
                    /\ Goto(c, "revoke_get") /\ UNCHANGED seen
    <3>1. \E k : call' = [call EXCEPT ![c] = k]
      BY <2>2
    <3> QED
      BY <1>4, <2>2, <3>1, GoingOnRecords DEF ResolveMatch, Informed
  <2> QED
    BY <1>4, <2>1, <2>2 DEF ResolveMatch
<1>5. ASSUME BootstrapCheckVacant(c) PROVE RecordsInv'
  <2>1. CASE Return(c, "AlreadyBootstrapped")
    BY <1>5, <2>1, EndingRecords DEF BootstrapCheckVacant, ReadOnly
  <2>2. CASE Goto(c, "bootstrap_create") /\ UNCHANGED <<call, seen>>
    BY <1>5, <2>2, GoingOnRecords DEF BootstrapCheckVacant, Informed
  <2> QED
    BY <1>5, <2>1, <2>2 DEF BootstrapCheckVacant
<1> QED
  BY <1>1, <1>2, <1>3, <1>4, <1>5, GrantCreateRecords, BootstrapCreateRecords,
     UpdateWriteRecords, RevokeDeleteRecords, RecordingRecords
  DEF Step

(***************************************************************************)
(* The invariant of the trail, and what follows.                           *)
(***************************************************************************)
LEMMA NextRecords == RecordsInv /\ [Next]_vars => RecordsInv'
<1> SUFFICES ASSUME RecordsInv, [Next]_vars PROVE RecordsInv'
  OBVIOUS
<1>1. GrantsInv'
  BY NextKeeps DEF RecordsInv
<1>2. CASE UNCHANGED vars
  <2>1. UNCHANGED <<store, history, audit, pc, call, seen>>
    BY <1>2 DEF vars, local
  <2>2. RecordsAreTruthful'
    BY <2>1 DEF RecordsInv, RecordsAreTruthful
  <2>3. \A d \in Caller : RecordInv(d)'
    BY <2>1, RecordInvKept, NothingHappens DEF RecordsInv
  <2> QED
    BY <1>1, <2>2, <2>3 DEF RecordsInv
<1>3. ASSUME NEW c \in Caller, Begin(c) \/ Step(c) \/ Abort(c)
      PROVE  RecordsInv'
  <2>1. CASE Abort(c)
    BY <1>1, <2>1, EndingRecords DEF Abort, ReadOnly
  <2> QED
    BY <1>1, <1>3, <2>1, BeginRecords, StepRecords
<1> QED
  BY <1>2, <1>3 DEF Next, Done

\* The invariant of the trail holds of every behaviour.
THEOREM RecordsInvHolds == Spec => []RecordsInv
<1>1. Init => RecordsInv
  <2> SUFFICES ASSUME Init PROVE RecordsInv
    OBVIOUS
  <2>1. GrantsInv
    BY InitEstablishes
  <2>2. Len(audit) = 0 /\ \A c \in Caller : pc[c] = "idle"
    BY DEF Init
  <2> QED
    BY <2>1, <2>2 DEF RecordsInv, RecordsAreTruthful, RecordInv, Informed
<1> QED
  BY <1>1, NextRecords, PTL DEF Spec

\* Nothing is recorded that did not happen: no record of a grant or an update that
\* was not made just so, and none of a revocation of a policy that is still there
\* under that principal, though calls race for the same document and die between
\* their write and their record (audit.py, record_change).
THEOREM TrailIsTruthful == Spec => []RecordsAreTruthful
<1>1. RecordsInv => RecordsAreTruthful
  BY DEF RecordsInv
<1> QED
  BY <1>1, RecordsInvHolds, PTL

(***************************************************************************)
(* What a call of bootstrap_workspace has when it begins.                  *)
(***************************************************************************)

\* A list of members that is not refused has none to refuse.
LEMMA NoBadMember ==
  ASSUME NEW k \in Call, BootstrapRefusal(k) = "none"
  PROVE  \A i \in 1..Len(k.members) : MemberRefusal(k.members, i) = "none"
<1> DEFINE bad == {i \in 1..Len(k.members) : MemberRefusal(k.members, i) # "none"}
<1> SUFFICES ASSUME bad # {} PROVE FALSE
  OBVIOUS
<1>1. Len(k.members) \in Nat
  BY DEF Call, Members
<1>2. PICK i \in bad : \A j \in bad : i <= j
  BY <1>1, SmallestIndex
<1>3. \A j \in 1..(i - 1) : MemberRefusal(k.members, j) = "none"
  BY <1>1, <1>2
<1>4. FirstBadMember(k.members) \in 1..Len(k.members)
      /\ MemberRefusal(k.members, FirstBadMember(k.members)) # "none"
  BY <1>2, <1>3 DEF FirstBadMember
<1> QED
  BY <1>4 DEF BootstrapRefusal

\* What a call is known to be once its arguments are normalised and checked.
LEMMA VettedArguments ==
  ASSUME NEW r \in Call, Refusal(Normalized(r)) = "none"
  PROVE  LET k == Normalized(r) IN
         /\ Lower[k.actor] = k.actor
         /\ k.op \in {"grant", "update_grant"} => is_valid_role(k.role)
         /\ k.op = "bootstrap" => /\ k.pattern = WholeWorkspace(k.workspace)
                                  /\ MembersValid(k.members)
                                  /\ OwnerToCome(k.members)
<1> DEFINE k == Normalized(r)
           members == NormalizedMembers(r.members)
<1>1. k \in Call /\ k.op = r.op
  BY NormalizedCall
<1>2. /\ k.actor = Lower[r.actor] /\ k.workspace = Lower[r.workspace]
      /\ k.members = members
      /\ r.op = "bootstrap" => k.pattern = WholeWorkspace(Lower[r.workspace])
  BY DEF Normalized, Call
<1>3. Lower[k.actor] = k.actor
  BY <1>2, NamesAssumption DEF Call
<1>4. k.op \in {"grant", "update_grant"} => is_valid_role(k.role)
  BY DEF Refusal, ByValueRefusal, UpdateRefusal
<1>5. ASSUME k.op = "bootstrap"
      PROVE  MembersValid(k.members) /\ OwnerToCome(k.members)
  <2>1. BootstrapRefusal(k) = "none"
    BY <1>5 DEF Refusal
  <2>2. \A i \in 1..Len(k.members) : MemberRefusal(k.members, i) = "none"
    BY <1>1, <2>1, NoBadMember
  <2>3. r.members \in Seq([principal : Name, role : STRING])
    BY DEF Call, Members
  <2>4. /\ Len(members) = Len(r.members) /\ Len(r.members) \in Nat
        /\ \A i \in 1..Len(members) :
             members[i].principal = Lower[r.members[i].principal] /\ r.members[i].principal \in Name
    <3>1. Len(r.members) \in Nat /\ \A i \in 1..Len(r.members) : r.members[i].principal \in Name
      <4>1. \A i \in 1..Len(r.members) : r.members[i] \in [principal : Name, role : STRING]
        BY <2>3, ElementOfSeq
      <4> QED
        BY <2>3, <4>1
    <3> QED
      BY <3>1 DEF NormalizedMembers
  <2>5. \A i \in 1..Len(members) : Lower[members[i].principal] = members[i].principal
    BY <2>4, NamesAssumption
  <2> HIDE DEF members, k
  <2>6. \A i \in 1..Len(members) :
          /\ is_valid_role(members[i].role)
          /\ \A j \in 1..(i - 1) : members[j].principal # members[i].principal
    BY <1>2, <2>2 DEF MemberRefusal
  <2>7. \A i, j \in 1..Len(members) : members[i].principal = members[j].principal => i = j
    BY <2>4, <2>6
  <2>8. OwnerToCome(members)
    BY <1>2, <2>1, <2>2 DEF BootstrapRefusal, OwnerToCome
  <2> QED
    BY <1>2, <2>5, <2>6, <2>7, <2>8 DEF MembersValid
<1> QED
  BY <1>1, <1>2, <1>3, <1>4, <1>5

(***************************************************************************)
(* Workspaces are born owned.                                              *)
(***************************************************************************)

\* As long as nothing is updated or revoked, documents accumulate.
LEMMA Accumulates ==
  ASSUME GrantsInv, GrantsInv', [Next]_vars, OnlyCreated'
  PROVE  OnlyCreated /\ policies \subseteq policies'
<1>1. history \in Seq(Change) /\ Len(history) \in Nat
  BY DEF GrantsInv, RacingInv, TypeOK
<1>2. CASE UNCHANGED <<history, policies>>
  BY <1>2 DEF OnlyCreated
<1>3. ASSUME NEW h \in Change, history' = Append(history, h)
      PROVE  OnlyCreated /\ h.event = "policy.created"
  <2>1. /\ Len(history') = Len(history) + 1 /\ history'[Len(history) + 1] = h
        /\ \A n \in 1..Len(history) : history'[n] = history[n]
    BY <1>3, HeldGrows, <1>1
  <2> QED
    BY <1>1, <2>1 DEF OnlyCreated
<1>4. ASSUME NEW c \in Caller,
             GrantCreate(c) \/ BootstrapCreate(c) \/ UpdateWrite(c) \/ RevokeDelete(c)
      PROVE  OnlyCreated /\ policies \subseteq policies'
  <2>1. call[c] \in Call /\ policies \subseteq Policy
    BY <1>4 DEF GrantsInv, RacingInv, TypeOK, PolicyStoreTypeOK, CallInv, GrantCreate, BootstrapCreate,
                UpdateWrite, RevokeDelete
  <2>2. CASE GrantCreate(c) \/ BootstrapCreate(c)
    <3>1. policies \subseteq policies'
      BY <2>2 DEF GrantCreate, BootstrapCreate, create_policy
    <3>2. \E h : history' = Append(history, h)
      BY <2>2 DEF GrantCreate, BootstrapCreate
    <3>3. \A n \in 1..Len(history) : n \in 1..Len(history') /\ history'[n] = history[n]
      BY <1>1, <3>2
    <3> QED
      BY <3>1, <3>3 DEF OnlyCreated
  <2>3. CASE UpdateWrite(c)
    <3>1. CASE get_policy(call[c].workspace, call[c].id) = {}
      BY <2>3, <3>1 DEF UpdateWrite, store, OnlyCreated
    <3>2. CASE get_policy(call[c].workspace, call[c].id) # {}
      <4>1. PICK q \in get_policy(call[c].workspace, call[c].id) :
              history' = Append(history, Updated(call[c], q))
        BY <2>3, <3>2 DEF UpdateWrite
      <4>2. Updated(call[c], q) \in Change
        BY <2>1, RecordTypes DEF get_policy, list_policies
      <4>3. Updated(call[c], q).event # "policy.created"
        BY DEF Updated
      <4> QED
        BY <1>3, <4>1, <4>2, <4>3
    <3> QED
      BY <3>1, <3>2
  <2>4. CASE RevokeDelete(c)
    <3>1. CASE get_policy(call[c].workspace, call[c].id) = {}
      BY <2>4, <3>1 DEF RevokeDelete, delete_policy, OnlyCreated
    <3>2. CASE get_policy(call[c].workspace, call[c].id) # {}
      <4>1. PICK q \in get_policy(call[c].workspace, call[c].id) :
              history' = Append(history, Deleted(call[c], q))
        BY <2>4, <3>2 DEF RevokeDelete
      <4>2. Deleted(call[c], q) \in Change
        BY <2>1, RecordTypes DEF get_policy, list_policies
      <4>3. Deleted(call[c], q).event # "policy.created"
        BY DEF Deleted
      <4> QED
        BY <1>3, <4>1, <4>2, <4>3
    <3> QED
      BY <3>1, <3>2
  <2> QED
    BY <1>4, <2>2, <2>3, <2>4
<1> QED
  BY <1>2, <1>4, WhatWrites


\* A step of one caller leaves the calls of the others where they are.
LEMMA OthersWait ==
  ASSUME GrantsInv, NEW c \in Caller, Begin(c) \/ Step(c), NEW d \in Caller, d # c
  PROVE  pc'[d] = pc[d] /\ call'[d] = call[d]
<1>1. DOMAIN pc = Caller /\ DOMAIN call = Caller
  BY DEF GrantsInv, RacingInv, TypeOK
<1>2. CASE Begin(c)
  BY <1>1, <1>2 DEF Begin, Enter, Return, Goto
<1>3. CASE Step(c)
  <2>1. CASE UpdateWrite(c)
    BY <1>1, <2>1 DEF UpdateWrite, Return, Goto
  <2>2. CASE BootstrapCreate(c)
    BY <1>1, <2>2 DEF BootstrapCreate, Goto
  <2>3. CASE ~UpdateWrite(c) /\ ~BootstrapCreate(c)
    BY <1>1, <1>3, <2>3
    DEF Step, GrantAuthorize, GrantCheckConflict, GrantCreate, UpdateGet, UpdateAuthorize,
        UpdateCheckConflict, RevokeGet, RevokeAuthorize, RevokeDelete,
        ResolveAuthorize, ResolveMatch, BootstrapCheckVacant, RecordCreated, RecordUpdated,
        RecordDeleted, Authorize, CheckConflict, Fetch, Return, Goto
  <2> QED
    BY <2>1, <2>2, <2>3
<1> QED
  BY <1>2, <1>3

\* A bootstrap stores an owner or still has one to come.
LEMMA BootstrapGoesOn ==
  ASSUME BirthsInv, GrantsInv', NEW c \in Caller, BootstrapCreate(c)
  PROVE  /\ Creating(c) /\ Creating(c)'
         /\ call'[c].workspace = call[c].workspace /\ call'[c].pattern = call[c].pattern
         /\ OnlyCreated => (OwnerToCome(call[c].members) \/ Owned(call[c].workspace))'
<1>old. PICK old : old = call[c]
  OBVIOUS
<1>member. PICK member : member = Head(old.members)
  OBVIOUS
<1>k. PICK k : k = [old EXCEPT !.principal = member.principal, !.role = member.role,
                               !.id = nextId, !.members = Tail(old.members)]
  OBVIOUS
<1>1. /\ pc[c] = "bootstrap_create" /\ old \in Call /\ old.op = "bootstrap"
      /\ old.members # <<>> /\ BirthInv(c)
      /\ DOMAIN pc = Caller /\ DOMAIN call = Caller
      /\ Bootstrapping(c)
  BY <1>old DEF BootstrapCreate, BirthsInv, GrantsInv, RacingInv, CallInv, Bootstrapping, Founds, TypeOK
<1>2. /\ pc'[c] = "record_created" /\ call'[c] = k
      /\ create_policy(k.workspace, k.principal, k.role, k.pattern, k.actor)
  BY <1>1, <1>old, <1>member, <1>k DEF BootstrapCreate, Goto
<1>3. /\ k.workspace = old.workspace /\ k.pattern = old.pattern /\ k.op = "bootstrap"
      /\ k.members = Tail(old.members) /\ k.role = member.role
  BY <1>1, <1>k DEF Call
<1>4. Creating(c) /\ Creating(c)'
  BY <1>1, <1>2, <1>3, <1>old DEF Creating
<1>5. ASSUME OnlyCreated
      PROVE  OwnerToCome(k.members) \/ Owned(old.workspace)'
  <2>1. OwnerToCome(old.members) \/ Owned(old.workspace)
    BY <1>1, <1>5, <1>old DEF BirthInv
  <2>2. CASE Owned(old.workspace)
    <3>1. policies \subseteq policies'
      BY <1>2 DEF create_policy
    <3> QED
      BY <2>2, <3>1 DEF Owned
  <2>3. CASE OwnerToCome(old.members)
    <3>1. old.members \in Seq([principal : Name, role : STRING])
      BY <1>1 DEF Call, Members
    <3>2. PICK i \in 1..Len(old.members) : old.members[i].role = "owner"
      BY <2>3 DEF OwnerToCome
    <3>3. /\ Len(Tail(old.members)) = Len(old.members) - 1
          /\ \A j \in 1..Len(Tail(old.members)) : Tail(old.members)[j] = old.members[j + 1]
          /\ Len(old.members) \in Nat
      BY <1>1, <3>1, HeadTailProperties
    <3>4. \A s \in Seq([principal : Name, role : STRING]) : s # <<>> => Head(s) = s[1]
      OBVIOUS
    <3>5. CASE i = 1
      <4>1. k.role = "owner"
        BY <1>1, <1>3, <1>member, <3>1, <3>2, <3>4, <3>5
      <4>2. PICK new : new = [id |-> nextId, workspace |-> k.workspace,
                              principal |-> k.principal, role |-> k.role,
                              pattern |-> k.pattern, updated_by |-> k.actor]
        OBVIOUS
      <4>3. new \in policies'
        BY <1>2, <4>2 DEF create_policy
      <4>4. k.pattern = WholeWorkspace(old.workspace)
        BY <1>1, <1>3, <1>old DEF BirthInv
      <4>5. WholeOwner(new, old.workspace)
        BY <1>3, <4>1, <4>2, <4>4 DEF WholeOwner
      <4> QED
        BY <4>3, <4>5 DEF Owned
    <3>6. CASE i # 1
      <4>1. \A n \in Nat : \A x \in 1..n : x # 1 => x - 1 \in 1..n - 1 /\ x = (x - 1) + 1
        OBVIOUS
      <4>2. i - 1 \in 1..Len(Tail(old.members)) /\ i = (i - 1) + 1
        BY <3>3, <3>6, <4>1
      <4>3. PICK j : j \in 1..Len(Tail(old.members)) /\ i = j + 1
        BY <4>2, Zenon
      <4> QED
        BY <1>3, <3>2, <3>3, <4>3 DEF OwnerToCome
    <3> QED
      BY <3>5, <3>6
  <2> QED
    BY <2>1, <2>2, <2>3
<1> QED
  BY <1>2, <1>3, <1>4, <1>5, <1>old

\* The other steps of a caller are no part of a bootstrap, begin one or end one.
LEMMA BirthKept ==
  ASSUME BirthsInv, GrantsInv', NEW c \in Caller, Begin(c) \/ Step(c),
         OnlyCreated' => OnlyCreated /\ policies \subseteq policies'
  PROVE  /\ BirthInv(c)'
         /\ \A w : OnlyCreated' /\ Creating(c) /\ call[c].workspace = w =>
              \/ Owned(w)'
              \/ Creating(c)' /\ call'[c].workspace = w
<1>1. /\ DOMAIN pc = Caller /\ DOMAIN call = Caller /\ CallInv(c, {}, {}) /\ BirthInv(c)
  BY DEF BirthsInv, GrantsInv, RacingInv, TypeOK
<1>2. \A w : OnlyCreated' /\ Owned(w) => Owned(w)'
  BY DEF Owned
<1>3. CASE Begin(c)
  <2>1. PICK r \in Requests : Enter(c, r)
    BY <1>3 DEF Begin
  <2>2. r \in Call
    BY GrantsAssumption
  <2>3. ~Creating(c)
    BY <1>3 DEF Begin, Creating
  <2>4. CASE Refusal(Normalized(r)) # "none"
    BY <1>1, <2>1, <2>3, <2>4 DEF Enter, Return, BirthInv, Bootstrapping
  <2>5. CASE Refusal(Normalized(r)) = "none"
    <3>1. /\ pc'[c] = FirstStoreCall(r.op) /\ call'[c] = Normalized(r)
          /\ Normalized(r).op = r.op
      BY <1>1, <2>1, <2>2, <2>5, NormalizedCall DEF Enter, Goto
    <3>2. Bootstrapping(c)' => r.op = "bootstrap"
      BY <3>1, <2>2 DEF Bootstrapping, FirstStoreCall, Call
    <3>3. r.op = "bootstrap" => /\ call'[c].pattern = WholeWorkspace(call'[c].workspace)
                                /\ OwnerToCome(call'[c].members)
      BY <2>2, <2>5, <3>1, VettedArguments
    <3> QED
      BY <2>3, <3>2, <3>3 DEF BirthInv
  <2> QED
    BY <2>4, <2>5
<1>4. CASE BootstrapCreate(c)
  <2>1. /\ Creating(c) /\ Creating(c)'
        /\ call'[c].workspace = call[c].workspace /\ call'[c].pattern = call[c].pattern
        /\ OnlyCreated => (OwnerToCome(call[c].members) \/ Owned(call[c].workspace))'
    BY <1>4, BootstrapGoesOn
  <2>2. Bootstrapping(c)
    BY <2>1 DEF Creating, Bootstrapping
  <2> QED
    BY <1>1, <2>1, <2>2 DEF BirthInv
<1>5. CASE BootstrapCheckVacant(c)
  <2>1. Bootstrapping(c) /\ ~Creating(c)
    BY <1>5 DEF BootstrapCheckVacant, Bootstrapping, Creating
  <2>2. CASE pc'[c] = "idle"
    BY <2>1, <2>2 DEF BirthInv, Bootstrapping
  <2>3. CASE pc'[c] # "idle"
    <3>1. call' = call
      BY <1>1, <1>5, <2>3 DEF BootstrapCheckVacant, Return
    <3> QED
      BY <1>1, <1>2, <2>1, <3>1 DEF BirthInv
  <2> QED
    BY <2>2, <2>3
<1>6. CASE RecordCreated(c)
  <2>1. CASE call[c].op = "bootstrap" /\ call[c].members # <<>>
    <3>1. /\ call' = call /\ pc'[c] = "bootstrap_create" /\ pc[c] = "record_created"
      BY <1>1, <1>6, <2>1 DEF RecordCreated, Goto
    <3>2. Bootstrapping(c) /\ Creating(c)'
      BY <2>1, <3>1 DEF Bootstrapping, Creating
    <3> QED
      BY <1>1, <1>2, <3>1, <3>2 DEF BirthInv
  <2>2. CASE ~(call[c].op = "bootstrap" /\ call[c].members # <<>>)
    <3>1. pc'[c] = "idle" /\ pc[c] = "record_created"
      BY <1>1, <1>6, <2>2 DEF RecordCreated, Return
    <3>2. BirthInv(c)'
      BY <3>1 DEF BirthInv, Bootstrapping
    <3>3. ASSUME OnlyCreated', Creating(c), NEW w, call[c].workspace = w
          PROVE  Owned(w)'
      <4>1. Bootstrapping(c) /\ call[c].members = <<>>
        BY <2>2, <3>1, <3>3 DEF Bootstrapping, Creating
      <4>2. ~OwnerToCome(call[c].members)
        BY <4>1 DEF OwnerToCome
      <4>3. Owned(call[c].workspace)
        BY <1>1, <3>3, <4>1, <4>2 DEF BirthInv
      <4> QED
        BY <1>2, <3>3, <4>3
    <3> QED
      BY <3>2, <3>3
  <2> QED
    BY <2>1, <2>2
<1>7. CASE GrantCreate(c)
  <2>1. call[c] \in Call /\ call[c].op = "grant" /\ pc[c] = "grant_create"
    BY <1>1, <1>7 DEF GrantCreate, CallInv, Granting
  <2>2. pc'[c] = "record_created" /\ call'[c].op = "grant"
    BY <1>1, <1>7, <2>1 DEF GrantCreate, Goto, Call
  <2> QED
    BY <2>1, <2>2 DEF BirthInv, Bootstrapping, Creating
<1>8. CASE Step(c) /\ ~BootstrapCreate(c) /\ ~BootstrapCheckVacant(c) /\ ~RecordCreated(c)
           /\ ~GrantCreate(c)
  <2>1. /\ pc[c] \notin {"bootstrap_create", "record_created"}
        /\ pc'[c] \notin {"bootstrap_vacant", "bootstrap_create", "record_created"}
    BY <1>1, <1>8
    DEF Step, GrantAuthorize, GrantCheckConflict, UpdateGet, UpdateAuthorize,
        UpdateCheckConflict, UpdateWrite, RevokeGet, RevokeAuthorize, RevokeDelete,
        ResolveAuthorize, ResolveMatch, RecordUpdated,
        RecordDeleted, Authorize, CheckConflict, Fetch, Return, Goto
  <2> QED
    BY <2>1 DEF BirthInv, Bootstrapping, Creating
<1> QED
  BY <1>3, <1>4, <1>5, <1>6, <1>7, <1>8

LEMMA BirthsInitially ==
  ASSUME BeginsOwned, Init
  PROVE  BirthsInv
<1>1. GrantsInv
  BY InitEstablishes
<1>2. /\ policies = Genesis /\ \A c \in Caller : pc[c] = "idle"
      /\ 1..Len(history) = {}
  BY DEF Init
<1>3. \A p \in Genesis : Owned(p.workspace)
  BY <1>2 DEF BeginsOwned, Owned
<1> QED
  BY <1>1, <1>2, <1>3 DEF BirthsInv, BirthInv, Bootstrapping

LEMMA BirthsKept ==
  ASSUME BeginsOwned, BirthsInv, [Next]_vars
  PROVE  BirthsInv'
<1>1. GrantsInv /\ GrantsInv'
  BY NextKeeps DEF BirthsInv
<1>2. OnlyCreated' => OnlyCreated /\ policies \subseteq policies'
  BY <1>1, Accumulates
<1>3. CASE UNCHANGED vars \/ Done
  BY <1>1, <1>3
  DEF vars, local, store, Done, BirthsInv, BirthInv, Bootstrapping, Creating, OnlyCreated, Owned
<1>4. ASSUME NEW c \in Caller, Begin(c) \/ Step(c)
      PROVE  BirthsInv'
  <2>1. /\ BirthInv(c)'
        /\ \A w : OnlyCreated' /\ Creating(c) /\ call[c].workspace = w =>
             \/ Owned(w)'
             \/ Creating(c)' /\ call'[c].workspace = w
    BY <1>1, <1>2, <1>4, BirthKept
  <2>2. \A d \in Caller : d # c => pc'[d] = pc[d] /\ call'[d] = call[d]
    BY <1>1, <1>4, OthersWait
  <2>3. \A w : OnlyCreated' /\ Owned(w) => Owned(w)'
    BY <1>2 DEF Owned
  <2>4. ASSUME NEW d \in Caller
        PROVE  BirthInv(d)'
    BY <1>2, <2>1, <2>2, <2>3 DEF BirthsInv, BirthInv, Bootstrapping
  <2>5. ASSUME OnlyCreated', NEW w,
               \/ Owned(w)
               \/ \E d \in Caller : Creating(d) /\ call[d].workspace = w
        PROVE  \/ Owned(w)'
               \/ \E d \in Caller : Creating(d)' /\ call'[d].workspace = w
    <3>1. CASE Owned(w)
      BY <2>3, <2>5, <3>1
    <3>2. ASSUME NEW d \in Caller, Creating(d), call[d].workspace = w
          PROVE  \/ Owned(w)'
                 \/ \E e \in Caller : Creating(e)' /\ call'[e].workspace = w
      <4>1. CASE d = c
        BY <2>1, <2>5, <3>2, <4>1
      <4>2. CASE d # c
        <5>1. Creating(d)' /\ call'[d].workspace = w
          BY <2>2, <3>2, <4>2 DEF Creating
        <5> QED
          BY <5>1
      <4> QED
        BY <4>1, <4>2
    <3> QED
      BY <2>5, <3>1, <3>2
  <2>6. ASSUME OnlyCreated'
        PROVE  \A n \in 1..Len(history) :
                 \/ Owned(history[n].workspace)
                 \/ \E d \in Caller : Creating(d) /\ call[d].workspace = history[n].workspace
    BY <1>2, <2>6 DEF BirthsInv
  <2>7. ASSUME OnlyCreated', NEW n \in 1..Len(history'), NEW w, w = history'[n].workspace
        PROVE  \/ Owned(w)'
               \/ \E d \in Caller : Creating(d)' /\ call'[d].workspace = w
    <3>1. CASE UNCHANGED history
      BY <2>5, <2>6, <2>7, <3>1
    <3>2. CASE GrantCreate(c) \/ BootstrapCreate(c)
      <4>1. history \in Seq(Change) /\ \E h : history' = Append(history, h)
        BY <1>1, <3>2 DEF GrantsInv, RacingInv, TypeOK, GrantCreate, BootstrapCreate
      <4>2. /\ Len(history') = Len(history) + 1 /\ Len(history) \in Nat
            /\ \A m \in 1..Len(history) : history'[m] = history[m]
        BY <4>1
      <4>3. CASE n \in 1..Len(history)
        BY <2>5, <2>6, <2>7, <4>2, <4>3
      <4>4. CASE n = Len(history) + 1 /\ BootstrapCreate(c)
        <5>1. Creating(c)' /\ call'[c].workspace = call[c].workspace
          BY <4>4, <1>1, BootstrapGoesOn
        <5>2. call[c] \in Call
          BY <1>1, <4>4 DEF GrantsInv, RacingInv, CallInv, BootstrapCreate
        <5>3. w = call[c].workspace
          BY <2>7, <4>1, <4>2, <4>4, <5>2 DEF BootstrapCreate, Created, Call
        <5> QED
          BY <5>1, <5>3
      <4>5. CASE n = Len(history) + 1 /\ GrantCreate(c)
        <5>1. call[c] \in Call /\ call[c].op = "grant"
          BY <1>1, <4>5 DEF GrantsInv, RacingInv, CallInv, GrantCreate, Granting
        <5>2. /\ history'[n].event = "policy.created" /\ ~history'[n].bootstrap
          <6>1. PICK k : k = [call[c] EXCEPT !.id = nextId]
            OBVIOUS
          <6>2. k.op = "grant" /\ history' = Append(history, Created(k))
            BY <4>5, <5>1, <6>1 DEF GrantCreate, Call
          <6>3. Created(k).event = "policy.created" /\ ~Created(k).bootstrap
            BY <6>2 DEF Created
          <6>4. history'[n] = Created(k)
            BY <4>1, <4>2, <4>5, <6>2
          <6> QED
            BY <6>3, <6>4
        <5>3. AuthorityIsRooted'
          BY <1>1 DEF GrantsInv, RacingInv, TrailInv, RootedIn, RootedAt, AuthorityIsRooted
        <5>4. OnceOwned(n, history[n].actor, history[n].pattern)'
          BY <5>2, <5>3, <2>7 DEF AuthorityIsRooted
        <5>5. PICK h \in HeldBefore(n)' : h.workspace = w
          BY <5>4, <2>7 DEF OnceOwned
        <5>6. CASE h \in Genesis
          <6>1. Owned(w)
            BY <1>2, <2>7, <5>5, <5>6 DEF BirthsInv
          <6> QED
            BY <2>3, <2>7, <6>1
        <5>7. CASE h \notin Genesis
          <6>1. PICK m \in 1..(n - 1) : h = history'[m]
            BY <5>5, <5>7 DEF HeldBefore
          <6>2. m \in 1..Len(history) /\ h = history[m]
            BY <4>2, <4>5, <6>1
          <6> QED
            BY <2>5, <2>6, <2>7, <5>5, <6>2
        <5> QED
          BY <5>6, <5>7
      <4> QED
        BY <2>7, <3>2, <4>2, <4>3, <4>4, <4>5
    <3>3. CASE ~UNCHANGED history /\ ~(GrantCreate(c) \/ BootstrapCreate(c))
      <4>1. UpdateWrite(c) \/ RevokeDelete(c)
        BY <1>4, <3>3
        DEF Begin, Step, GrantAuthorize, GrantCheckConflict, UpdateGet, UpdateAuthorize,
            UpdateCheckConflict, RevokeGet, RevokeAuthorize, ResolveAuthorize, ResolveMatch,
            BootstrapCheckVacant, RecordCreated, RecordUpdated, RecordDeleted, Authorize,
            CheckConflict, Fetch, ReadOnly
      <4>2. PICK q : \/ history' = Append(history, Updated(call[c], q))
                     \/ history' = Append(history, Deleted(call[c], q))
        BY <3>3, <4>1 DEF UpdateWrite, RevokeDelete
      <4>3. Updated(call[c], q).event # "policy.created"
            /\ Deleted(call[c], q).event # "policy.created"
        BY DEF Updated, Deleted
      <4>4. /\ Len(history) + 1 \in 1..Len(history')
            /\ history'[Len(history) + 1] \in {Updated(call[c], q), Deleted(call[c], q)}
        <5>1. history \in Seq(Change)
          BY <1>1 DEF GrantsInv, RacingInv, TypeOK
        <5> HIDE DEF Updated, Deleted
        <5> QED
          BY <4>2, <5>1
      <4> QED
        BY <2>7, <4>3, <4>4 DEF OnlyCreated
    <3> QED
      BY <3>1, <3>2, <3>3
  <2>8. OnlyCreated' => \A p \in Genesis : Owned(p.workspace)'
    BY <1>2, <2>3 DEF BirthsInv
  <2> QED
    BY <1>1, <2>4, <2>7, <2>8 DEF BirthsInv
<1> QED
  BY <1>3, <1>4 DEF Next, Abort, BeginsOwned

\* A workspace comes into being with an owner of the whole of it, whoever else is
\* founding or granting at the same time (bootstrap_workspace).
THEOREM WorkspacesAreBornOwned ==
  ASSUME BeginsOwned
  PROVE  Spec => []BornOwned
<1>1. BirthsInv => BornOwned
  <2>1. SUFFICES ASSUME BirthsInv, Idle, OnlyCreated, NEW n \in 1..Len(history)
                 PROVE  Owned(history[n].workspace)
    BY DEF BornOwned, OnlyCreated
  <2>2. \A c \in Caller : ~Creating(c)
    BY <2>1 DEF Idle, Creating
  <2> QED
    BY <2>1, <2>2 DEF BirthsInv
<1> QED
  BY <1>1, BirthsInitially, BirthsKept, PTL DEF Spec

-----------------------------------------------------------------------------
(***************************************************************************)
(* One caller at a time, with any requests, any bound and any store whose  *)
(* documents are spelt as the operations spell them.                       *)
(***************************************************************************)
\* There is nobody else.
LEMMA NobodyElse ==
  ASSUME Serial, NEW c \in Caller
  PROVE  \A d \in Caller : d = c
BY DEF Serial

\* A document is known by its id.
LEMMA OneById ==
  ASSUME StoreInv({}), NEW workspace, NEW id, NEW p \in get_policy(workspace, id)
  PROVE  /\ p \in policies /\ p.workspace = workspace /\ p.id = id
         /\ get_policy(workspace, id) = {p}
BY DEF StoreInv, get_policy, list_policies

\* The answers of the checks depend on the store and on the call alone.
LEMMA SameAnswers ==
  ASSUME UNCHANGED policies, NEW c, call'[c] = call[c]
  PROVE  /\ \A pattern : MayGrant(c, pattern)' <=> MayGrant(c, pattern)
         /\ \A principal, besides : Clear(c, principal, besides)' <=> Clear(c, principal, besides)
         /\ Described(c)' <=> Described(c)
<1>1. \A pattern : MayGrant(c, pattern)' <=> MayGrant(c, pattern)
  BY DEF MayGrant, list_policies_for_principal, list_policies, can_administer_pattern
<1>2. \A principal, besides : Clear(c, principal, besides)' <=> Clear(c, principal, besides)
  BY DEF Clear, list_policies_for_principal, list_policies, find_conflict
<1>3. Described(c)' <=> Described(c)
  BY DEF Described, get_policy, list_policies
<1> QED
  BY <1>1, <1>2, <1>3

(***************************************************************************)
(* Steps that leave the store as it is.                                    *)
(***************************************************************************)
LEMMA SerialUntouched ==
  ASSUME Serial, SerialInv, GrantsInv', NEW c \in Caller, UNCHANGED <<store, history>>,
         StandsInv(c)', FollowsInv(c)', FoundingInv(c)',
         Creating(c) => \/ Owned(call[c].workspace)
                        \/ Creating(c)' /\ call'[c].workspace = call[c].workspace
  PROVE  SerialInv'
<1>1. DocumentsInv'
  BY DEF SerialInv, DocumentsInv, NoDuplicatePolicy, store
<1>2. \A d \in Caller : d = c
  BY NobodyElse
<1>3. \A w : Owned(w)' <=> Owned(w)
  BY DEF Owned, WholeOwner, store
<1>4. FoundedOnce'
  BY DEF SerialInv, FoundersInv, FoundedOnce
<1>5. ASSUME NEW n \in 1..Len(history), history[n].bootstrap
      PROVE  \/ Owned(history[n].workspace)'
             \/ \E d \in Caller : Creating(d)' /\ call'[d].workspace = history[n].workspace
  <2>1. \/ Owned(history[n].workspace)
        \/ \E d \in Caller : Creating(d) /\ call[d].workspace = history[n].workspace
    BY <1>5 DEF SerialInv, FoundersInv
  <2> QED
    BY <1>2, <1>3, <2>1
<1>6. FoundersInv'
  BY <1>4, <1>5 DEF FoundersInv
<1>7. EditsAreGoverned'
  <2>1. \A n : HeldBefore(n)' = HeldBefore(n)
    BY DEF HeldBefore
  <2> QED
    BY <2>1 DEF SerialInv, EditsAreGoverned, OnceOwned
<1>8. DeletedOnce'
  BY DEF SerialInv, DeletedOnce
<1> QED
  BY <1>1, <1>2, <1>6, <1>7, <1>8 DEF SerialInv

\* A call that ends, with everything recorded.
LEMMA EndingSerial ==
  ASSUME Serial, SerialInv, GrantsInv', NEW c \in Caller, NEW result, Return(c, result),
         UNCHANGED <<store, history>>, audit' = history,
         Creating(c) => Owned(call[c].workspace)
  PROVE  SerialInv'
<1>1. pc'[c] = "idle"
  BY DEF SerialInv, GrantsInv, RacingInv, TypeOK, Return
<1>2. StandsInv(c)' /\ FollowsInv(c)' /\ FoundingInv(c)'
  BY <1>1 DEF StandsInv, FollowsInv, FoundingInv, Recording, Bootstrapping, Creating
<1> QED
  BY <1>2, SerialUntouched

\* A call that goes on, with what it must know by then.
LEMMA GoingOnSerial ==
  ASSUME Serial, SerialInv, GrantsInv', NEW c \in Caller, NEW at, Goto(c, at),
         UNCHANGED <<call, seen>>, ReadOnly, pc[c] # "idle", pc[c] \notin Recording,
         at \notin Recording, at \notin {"bootstrap_vacant", "bootstrap_create"},
         ~Creating(c),
         at \in Granting \union Updating => is_valid_role(call[c].role),
         at \in HasRead    => seen[c] \in get_policy(call[c].workspace, call[c].id),
         at \in Authorized => MayGrant(c, call[c].pattern),
         at \in {"update_conflict", "update_write", "revoke_delete"} =>
           MayGrant(c, seen[c].pattern),
         at = "grant_create" => Clear(c, call[c].principal, {}),
         at = "update_write" => Clear(c, seen[c].principal, {call[c].id}),
         at \in Revoking /\ call[c].op = "revoke_grant" => Described(c)
  PROVE  SerialInv'
<1>1. pc'[c] = at /\ call'[c] = call[c] /\ seen'[c] = seen[c]
  BY DEF SerialInv, GrantsInv, RacingInv, TypeOK, Goto
<1>2. UNCHANGED <<policies, store, history, audit>>
  BY DEF ReadOnly, store
<1>3. /\ \A pattern : MayGrant(c, pattern)' <=> MayGrant(c, pattern)
      /\ \A principal, besides : Clear(c, principal, besides)' <=> Clear(c, principal, besides)
      /\ Described(c)' <=> Described(c)
  BY <1>1, <1>2, SameAnswers
<1>4. get_policy(call[c].workspace, call[c].id)' = get_policy(call[c].workspace, call[c].id)
  BY <1>1, <1>2 DEF get_policy, list_policies
<1>5. Lower[call[c].actor] = call[c].actor /\ Lower[call[c].principal] = call[c].principal
  BY DEF SerialInv, StandsInv
<1>6. StandsInv(c)'
  BY <1>1, <1>3, <1>4, <1>5 DEF StandsInv
<1>7. FollowsInv(c)'
  BY <1>1, <1>2 DEF SerialInv, FollowsInv, Recording
<1>8. FoundingInv(c)'
  BY <1>1 DEF FoundingInv, Bootstrapping, Creating, Recording
<1> QED
  BY <1>2, <1>6, <1>7, <1>8, SerialUntouched

(***************************************************************************)
(* Steps that read.                                                        *)
(***************************************************************************)
LEMMA AuthorizeSerial ==
  ASSUME Serial, SerialInv, GrantsInv', NEW c \in Caller, NEW patterns, NEW granted,
         pc[c] # "idle", pc[c] \notin Recording, ~Creating(c),
         Authorize(c, patterns, granted),
         \/ granted = "grant_conflict" /\ pc[c] = "grant_authorize"
            /\ patterns = {call[c].pattern}
         \/ granted = "update_conflict" /\ pc[c] = "update_authorize"
            /\ patterns = {seen[c].pattern, call[c].pattern}
         \/ granted = "revoke_delete" /\ pc[c] = "revoke_authorize"
            /\ patterns = {seen[c].pattern}
         \/ granted = "resolve_match"
  PROVE  SerialInv'
<1>1. UNCHANGED <<store, history, audit>> /\ audit = history
  BY DEF Authorize, ReadOnly, SerialInv, FollowsInv
<1>2. CASE Return(c, "AccessDenied")
  BY <1>1, <1>2, EndingSerial
<1>3. CASE /\ \A pattern \in patterns : MayGrant(c, pattern)
           /\ Goto(c, granted) /\ UNCHANGED <<call, seen>>
  <2>1. ReadOnly
    BY DEF Authorize
  <2>2. StandsInv(c)
    BY DEF SerialInv
  <2>3. /\ granted \in Granting \union Updating => is_valid_role(call[c].role)
        /\ granted \in HasRead => seen[c] \in get_policy(call[c].workspace, call[c].id)
        /\ granted \in Revoking /\ call[c].op = "revoke_grant" => Described(c)
    BY <2>2 DEF StandsInv, Granting, Updating, HasRead, Revoking
  <2>4. /\ granted \in Authorized => MayGrant(c, call[c].pattern)
        /\ granted \in {"update_conflict", "update_write", "revoke_delete"} =>
             MayGrant(c, seen[c].pattern)
        /\ granted \notin Recording \union {"bootstrap_vacant", "bootstrap_create",
                                           "grant_create", "update_write"}
    BY <1>3 DEF Authorized, Recording
  <2> QED
    BY <1>3, <2>1, <2>3, <2>4, GoingOnSerial
<1> QED
  BY <1>2, <1>3 DEF Authorize, MayGrant

LEMMA CheckConflictSerial ==
  ASSUME Serial, SerialInv, GrantsInv', NEW c \in Caller, NEW principal, NEW besides, NEW clear,
         CheckConflict(c, principal, besides, clear),
         \/ /\ clear = "grant_create" /\ pc[c] = "grant_conflict"
            /\ principal = call[c].principal /\ besides = {}
         \/ /\ clear = "update_write" /\ pc[c] = "update_conflict"
            /\ principal = seen[c].principal /\ besides = {call[c].id}
  PROVE  SerialInv'
<1>1. UNCHANGED <<store, history, audit>> /\ audit = history
  BY DEF CheckConflict, ReadOnly, SerialInv, FollowsInv, Recording
<1>2. ~Creating(c)
  BY DEF Creating
<1>3. CASE Return(c, "Conflict")
  BY <1>1, <1>2, <1>3, EndingSerial
<1>4. CASE Clear(c, principal, besides) /\ Goto(c, clear) /\ UNCHANGED <<call, seen>>
  <2>1. ReadOnly
    BY DEF CheckConflict
  <2>2. StandsInv(c)
    BY DEF SerialInv
  <2>3. /\ is_valid_role(call[c].role)
        /\ clear \in HasRead => seen[c] \in get_policy(call[c].workspace, call[c].id)
        /\ MayGrant(c, call[c].pattern)
        /\ clear = "update_write" => MayGrant(c, seen[c].pattern)
    BY <2>2 DEF StandsInv, Granting, Updating, HasRead, Authorized
  <2>4. /\ clear \notin Recording \union Revoking \union {"bootstrap_vacant", "bootstrap_create"}
        /\ pc[c] \notin Recording /\ clear \notin {"update_conflict", "revoke_delete"}
        /\ pc[c] # "idle"
    BY DEF Recording, Revoking
  <2> QED
    BY <1>2, <1>4, <2>1, <2>3, <2>4, GoingOnSerial
<1> QED
  BY <1>3, <1>4 DEF CheckConflict, Clear

\* The document fetched is there, under the id of the call.
LEMMA FetchSerial ==
  ASSUME Serial, SerialInv, GrantsInv', NEW c \in Caller, NEW found_at,
         \/ found_at = "update_authorize" /\ pc[c] = "update_get"
         \/ found_at = "revoke_authorize" /\ pc[c] = "revoke_get",
         Fetch(c, found_at)
  PROVE  SerialInv'
<1>1. UNCHANGED <<store, policies, history, audit>> /\ audit = history
  BY DEF Fetch, ReadOnly, SerialInv, FollowsInv, Recording, store
<1>2. ~Creating(c)
  BY DEF Creating
<1>3. CASE Return(c, "NotFound") \/ Return(c, "SelfAccess")
  BY <1>1, <1>2, <1>3, EndingSerial
<1>4. ASSUME NEW p \in get_policy(call[c].workspace, call[c].id),
             seen' = [seen EXCEPT ![c] = p], Goto(c, found_at), UNCHANGED call
      PROVE  SerialInv'
  <2>1. pc'[c] = found_at /\ call'[c] = call[c] /\ seen'[c] = p
    BY <1>4 DEF SerialInv, GrantsInv, RacingInv, TypeOK, Goto
  <2>2. get_policy(call[c].workspace, call[c].id)' = get_policy(call[c].workspace, call[c].id)
    BY <1>1, <2>1 DEF get_policy, list_policies
  <2>3. Described(c)' <=> Described(c)
    BY <1>1, <2>1, SameAnswers
  <2>4. StandsInv(c)
    BY DEF SerialInv
  <2>5. StandsInv(c)'
    BY <2>1, <2>2, <2>3, <2>4
    DEF StandsInv, Granting, Updating, HasRead, Authorized, Revoking
  <2>6. FollowsInv(c)' /\ FoundingInv(c)'
    BY <1>1, <2>1 DEF FollowsInv, FoundingInv, Bootstrapping, Creating
  <2> QED
    BY <1>1, <1>2, <2>5, <2>6, SerialUntouched
<1> QED
  BY <1>3, <1>4 DEF Fetch

\* The document found is the one described, whatever its id.
LEMMA ResolveMatchSerial ==
  ASSUME Serial, SerialInv, GrantsInv', NEW c \in Caller, ResolveMatch(c)
  PROVE  SerialInv'
<1>1. UNCHANGED <<store, policies, history, audit>> /\ audit = history /\ pc[c] = "resolve_match"
  BY DEF ResolveMatch, ReadOnly, SerialInv, FollowsInv, Recording, store
<1>2. ~Creating(c)
  BY <1>1 DEF Creating
<1>3. CASE Return(c, "NotFound")
  BY <1>1, <1>2, <1>3, EndingSerial
<1>4. ASSUME NEW p \in list_policies_for_principal(call[c].workspace, call[c].principal),
             normalize(p.pattern) = call[c].pattern, LowerRole(p.role) = call[c].role,
             call' = [call EXCEPT ![c].id = p.id], Goto(c, "revoke_get"), UNCHANGED seen
      PROVE  SerialInv'
  <2>1. call[c] \in Call
    BY <1>1 DEF SerialInv, GrantsInv, RacingInv, CallInv
  <2>2. /\ pc'[c] = "revoke_get" /\ seen'[c] = seen[c]
        /\ call'[c] = [call[c] EXCEPT !.id = p.id]
    BY <1>4 DEF SerialInv, GrantsInv, RacingInv, TypeOK, Goto
  <2>3. /\ call'[c].id = p.id /\ call'[c].workspace = call[c].workspace
        /\ call'[c].principal = call[c].principal /\ call'[c].role = call[c].role
        /\ call'[c].pattern = call[c].pattern /\ call'[c].actor = call[c].actor
    BY <2>1, <2>2 DEF Call
  <2>4. Described(c)'
    <3>1. /\ p \in policies' /\ p.workspace = call[c].workspace
          /\ p.principal = call[c].principal
      BY <1>1 DEF list_policies_for_principal, list_policies
    <3> QED
      BY <1>4, <2>3, <3>1 DEF Described, get_policy, list_policies
  <2>5. StandsInv(c)
    BY DEF SerialInv
  <2>6. StandsInv(c)'
    BY <1>1, <2>2, <2>3, <2>4, <2>5
    DEF StandsInv, Granting, Updating, HasRead, Authorized, Revoking
  <2>7. FollowsInv(c)' /\ FoundingInv(c)'
    BY <1>1, <2>2 DEF FollowsInv, FoundingInv, Bootstrapping, Creating
  <2> QED
    BY <1>1, <1>2, <2>6, <2>7, SerialUntouched
<1> QED
  BY <1>3, <1>4 DEF ResolveMatch

(***************************************************************************)
(* Beginning.                                                              *)
(***************************************************************************)

LEMMA BeginSerial ==
  ASSUME Serial, SerialInv, GrantsInv', NEW c \in Caller, Begin(c)
  PROVE  SerialInv'
<1>1. PICK r \in Requests : Enter(c, r)
  BY DEF Begin
<1> DEFINE k == Normalized(r)
<1>2. /\ r \in Call /\ k \in Call /\ k.op = r.op /\ Lower[k.principal] = k.principal
  BY GrantsAssumption, NormalizedCall
<1>3. UNCHANGED <<store, history, audit>> /\ audit = history /\ pc[c] = "idle"
  BY DEF Begin, SerialInv, FollowsInv, Recording
<1>4. ~Creating(c)
  BY <1>3 DEF Creating
<1>5. CASE Refusal(k) # "none"
  <2>1. Return(c, Refusal(k))
    BY <1>1, <1>5 DEF Enter
  <2> QED
    BY <1>3, <1>4, <2>1, EndingSerial
<1>6. CASE Refusal(k) = "none"
  <2>1. /\ Goto(c, FirstStoreCall(r.op)) /\ call' = [call EXCEPT ![c] = k] /\ UNCHANGED seen
    BY <1>1, <1>6 DEF Enter
  <2>2. /\ Lower[k.actor] = k.actor
        /\ k.op \in {"grant", "update_grant"} => is_valid_role(k.role)
        /\ k.op = "bootstrap" => /\ k.pattern = WholeWorkspace(k.workspace)
                                 /\ MembersValid(k.members)
                                 /\ OwnerToCome(k.members)
    BY <1>2, <1>6, VettedArguments
  <2> HIDE DEF k
  <2>3. pc'[c] = FirstStoreCall(r.op) /\ call'[c] = k
    BY <2>1 DEF SerialInv, GrantsInv, RacingInv, TypeOK, Goto
  <2>4. \/ r.op = "grant" /\ FirstStoreCall(r.op) = "grant_authorize"
        \/ r.op = "update_grant" /\ FirstStoreCall(r.op) = "update_get"
        \/ r.op = "revoke" /\ FirstStoreCall(r.op) = "revoke_get"
        \/ r.op = "revoke_grant" /\ FirstStoreCall(r.op) = "resolve_authorize"
        \/ r.op = "bootstrap" /\ FirstStoreCall(r.op) = "bootstrap_vacant"
    BY <1>2 DEF Call, FirstStoreCall
  <2>5. StandsInv(c)'
    BY <1>2, <2>2, <2>3, <2>4
    DEF StandsInv, Granting, Updating, HasRead, Authorized, Revoking
  <2>6. FollowsInv(c)'
    BY <1>3, <2>3, <2>4 DEF FollowsInv
  <2>7. FoundingInv(c)'
    BY <1>2, <2>2, <2>3, <2>4 DEF FoundingInv, Bootstrapping, Creating
  <2> QED
    BY <1>3, <1>4, <2>5, <2>6, <2>7, SerialUntouched
<1> QED
  BY <1>5, <1>6

(***************************************************************************)
(* Recording.                                                              *)
(***************************************************************************)
LEMMA RecordSerial ==
  ASSUME Serial, SerialInv, GrantsInv', NEW c \in Caller, RecordUpdated(c) \/ RecordDeleted(c)
  PROVE  SerialInv'
<1>1. /\ UNCHANGED <<store, history>> /\ Return(c, "ok")
      /\ ~Creating(c)
  BY DEF RecordUpdated, RecordDeleted, Creating
<1>2. audit' = history
  BY DEF RecordUpdated, RecordDeleted, SerialInv, FollowsInv
<1> QED
  BY <1>1, <1>2, EndingSerial

LEMMA RecordCreatedSerial ==
  ASSUME Serial, SerialInv, GrantsInv', NEW c \in Caller, RecordCreated(c)
  PROVE  SerialInv'
<1>1. /\ pc[c] = "record_created" /\ UNCHANGED <<store, policies, history>>
      /\ audit' = history
  BY DEF RecordCreated, SerialInv, FollowsInv, store
<1>2. FoundingInv(c) /\ StandsInv(c)
  BY DEF SerialInv
<1>3. CASE ~(call[c].op = "bootstrap" /\ call[c].members # <<>>) /\ Return(c, "ok")
  <2>1. ASSUME Creating(c) PROVE Owned(call[c].workspace)
    <3>1. call[c].members = <<>>
      BY <1>3, <2>1 DEF Creating
    <3> QED
      BY <1>2, <2>1, <3>1 DEF FoundingInv, OwnerToCome
  <2> QED
    BY <1>1, <1>3, <2>1, EndingSerial
<1>4. CASE /\ call[c].op = "bootstrap" /\ call[c].members # <<>>
           /\ Goto(c, "bootstrap_create") /\ UNCHANGED <<call, seen>>
  <2>1. /\ pc'[c] = "bootstrap_create" /\ call'[c] = call[c]
        /\ Creating(c) /\ Creating(c)' /\ Bootstrapping(c)
    BY <1>1, <1>4 DEF SerialInv, GrantsInv, RacingInv, TypeOK, Goto, Creating, Bootstrapping
  <2>2. StandsInv(c)'
    BY <1>1, <1>2, <2>1 DEF StandsInv, Granting, Updating, HasRead, Authorized, Revoking
  <2>3. FollowsInv(c)'
    BY <1>1, <2>1 DEF FollowsInv
  <2>4. FoundingInv(c)'
    BY <1>1, <1>2, <2>1 DEF FoundingInv, list_policies, Owned, WholeOwner
  <2> QED
    BY <1>1, <2>1, <2>2, <2>3, <2>4, SerialUntouched
<1> QED
  BY <1>3, <1>4 DEF RecordCreated

\* An empty workspace has never been founded.
LEMMA BootstrapCheckVacantSerial ==
  ASSUME Serial, SerialInv, GrantsInv', NEW c \in Caller, BootstrapCheckVacant(c)
  PROVE  SerialInv'
<1>1. /\ pc[c] = "bootstrap_vacant" /\ UNCHANGED <<store, policies, history, audit>>
      /\ audit = history
  BY DEF BootstrapCheckVacant, ReadOnly, SerialInv, FollowsInv, Recording, store
<1>2. FoundingInv(c) /\ StandsInv(c) /\ Bootstrapping(c) /\ ~Creating(c)
  BY <1>1 DEF SerialInv, Bootstrapping, Creating
<1>3. CASE Return(c, "AlreadyBootstrapped")
  BY <1>1, <1>2, <1>3, EndingSerial
<1>4. CASE /\ ~has_any_policies(call[c].workspace)
           /\ Goto(c, "bootstrap_create") /\ UNCHANGED <<call, seen>>
  <2>1. pc'[c] = "bootstrap_create" /\ call'[c] = call[c] /\ call[c].op = "bootstrap"
    BY <1>1, <1>4 DEF SerialInv, GrantsInv, RacingInv, CallInv, Founds, Bootstrapping, TypeOK, Goto
  <2>2. StandsInv(c)'
    BY <1>1, <1>2, <2>1 DEF StandsInv, Granting, Updating, HasRead, Authorized, Revoking
  <2>3. FollowsInv(c)'
    BY <1>1, <2>1 DEF FollowsInv, Recording
  <2>4. list_policies(call[c].workspace) = {}
    BY <1>4 DEF has_any_policies
  <2>5. ASSUME NEW n \in 1..Len(history), history[n].bootstrap,
               history[n].workspace = call[c].workspace
        PROVE  FALSE
    <3>1. Owned(history[n].workspace)
      BY <1>2, <2>5, NobodyElse DEF SerialInv, FoundersInv
    <3> QED
      BY <2>4, <2>5, <3>1 DEF Owned, WholeOwner, list_policies
  <2>6. FoundingInv(c)'
    BY <1>1, <1>2, <2>1, <2>4, <2>5 DEF FoundingInv, list_policies, Owned, WholeOwner
  <2> QED
    BY <1>1, <1>2, <2>2, <2>3, <2>6, SerialUntouched
<1> QED
  BY <1>3, <1>4 DEF BootstrapCheckVacant

(***************************************************************************)
(* Steps that write: one change h of the store.                            *)
(***************************************************************************)
LEMMA SerialChanged ==
  ASSUME Serial, SerialInv, GrantsInv', NEW c \in Caller,
         NEW h \in Change, history' = Append(history, h),
         DocumentsInv', StandsInv(c)', FollowsInv(c)', FoundingInv(c)',
         \A w \in Name : Owned(w) => Owned(w)',
         h.event = "policy.deleted" =>
           \A n \in 1..Len(history) :
             history[n].event = "policy.deleted" => history[n].policy_id # h.policy_id,
         Creating(c) => Creating(c)' /\ call'[c].workspace = call[c].workspace,
         h.event = "policy.updated" =>
           can_administer_pattern({g \in Held : g.workspace = h.workspace},
                                  h.actor, h.previous_pattern),
         h.bootstrap =>
           /\ Creating(c)' /\ call'[c].workspace = h.workspace
           /\ \A n \in 1..Len(history) :
                history[n].bootstrap /\ history[n].workspace = h.workspace =>
                  history[n].actor = h.actor /\ history[n].principal # h.principal
  PROVE  SerialInv'
<1>1. history \in Seq(Change) /\ Len(history) \in Nat
  BY DEF SerialInv, GrantsInv, RacingInv, TypeOK
<1>2. /\ Len(history') = Len(history) + 1
      /\ history'[Len(history) + 1] = h
      /\ \A n \in 1..Len(history) : history'[n] = history[n]
      /\ \A n \in 1..(Len(history) + 1) : HeldBefore(n)' = HeldBefore(n)
  BY <1>1, HeldGrows
<1>3. \A n \in 1..Len(history') : n = Len(history) + 1 \/ n \in 1..Len(history)
  BY <1>1, <1>2
<1>4. \A d \in Caller : d = c
  BY NobodyElse
<1>5. FoundedOnce'
  BY <1>2, <1>3 DEF SerialInv, FoundersInv, FoundedOnce
<1>6. ASSUME NEW n \in 1..Len(history'), history'[n].bootstrap
      PROVE  \/ Owned(history[n].workspace)'
             \/ \E d \in Caller : Creating(d)' /\ call'[d].workspace = history'[n].workspace
  <2>1. CASE n = Len(history) + 1
    BY <1>2, <1>6, <2>1
  <2>2. CASE n \in 1..Len(history)
    <3>1. history'[n] = history[n]
      BY <1>2, <2>2
    <3>2. history[n] \in Change
      BY <1>1, <2>2, ElementOfSeq
    <3>3. history[n].workspace \in Name
      BY <3>2 DEF Change
    <3>4. \/ Owned(history[n].workspace)
          \/ \E d \in Caller : Creating(d) /\ call[d].workspace = history[n].workspace
      BY <1>6, <2>2, <3>1 DEF SerialInv, FoundersInv
    <3>5. CASE Owned(history[n].workspace)
      <4>1. PICK w \in Name : w = history[n].workspace
        BY <3>3
      <4>2. Owned(w)'
        BY <3>5, <4>1
      <4> QED
        BY <3>1, <4>1, <4>2 DEF Owned
    <3>6. CASE \E d \in Caller : Creating(d) /\ call[d].workspace = history[n].workspace
      BY <1>4, <3>1, <3>6
    <3> QED
      BY <3>4, <3>5, <3>6
  <2> QED
    BY <1>3, <2>1, <2>2
<1>7. FoundersInv'
  BY <1>5, <1>6 DEF FoundersInv
<1>8. EditsAreGoverned'
  <2> SUFFICES ASSUME NEW n \in 1..Len(history'), history'[n].event = "policy.updated"
               PROVE  OnceOwned(n, history[n].actor, history[n].previous_pattern)'
    BY DEF EditsAreGoverned
  <2>1. CASE n = Len(history) + 1
    <3>1. HeldBefore(n)' = Held
      BY <1>1, <1>2, <2>1 DEF Held
    <3>2. PICK g \in Held :
            /\ g.workspace = h.workspace
            /\ Lower[g.principal] = Lower[h.actor]
            /\ action_allowed_for_role(g.role, "GRANT")
            /\ resource_matches(h.previous_pattern, g.pattern)
      BY <1>2, <2>1 DEF can_administer_pattern
    <3> QED
      BY <1>2, <2>1, <3>1, <3>2, OnlyOwnersAdminister DEF OnceOwned
  <2>2. CASE n \in 1..Len(history)
    <3>1. HeldBefore(n)' = HeldBefore(n) /\ history'[n] = history[n]
      BY <1>1, <1>2, <2>2
    <3>2. OnceOwned(n, history[n].actor, history[n].previous_pattern)
      BY <2>2, <3>1 DEF SerialInv, EditsAreGoverned
    <3> QED
      BY <3>1, <3>2 DEF OnceOwned
  <2> QED
    BY <1>3, <2>1, <2>2
<1>9. DeletedOnce'
  BY <1>2, <1>3 DEF SerialInv, DeletedOnce
<1> QED
  BY <1>4, <1>7, <1>8, <1>9 DEF SerialInv

\* Whoever may take away or change a policy over a whole workspace owns the whole
\* workspace by another.
LEMMA AnotherOwner ==
  ASSUME SerialInv, NEW c \in Caller, NEW p \in policies, NEW w,
         WholeOwner(p, w), call[c].workspace = w, Lower[call[c].actor] = call[c].actor,
         Lower[p.principal] # call[c].actor, MayGrant(c, p.pattern)
  PROVE  \E q \in policies : q # p /\ WholeOwner(q, w)
<1>1. PICK q \in policies :
        /\ q.workspace = w /\ q.principal = call[c].actor
        /\ action_allowed_for_role(q.role, "GRANT")
        /\ resource_matches(WholeWorkspace(w), q.pattern)
  BY DEF MayGrant, can_administer_pattern, list_policies_for_principal, list_policies, WholeOwner
<1>2. q \in Policy /\ WellFiled(q)
  BY DEF SerialInv, GrantsInv, RacingInv, StoreInv, TypeOK, PolicyStoreTypeOK
<1>3. q.pattern \in Path /\ IsPattern(q.pattern) /\ q.pattern[1] = w /\ w \in Name
  BY <1>1, <1>2 DEF Policy, WellFiled
<1>4. q.pattern = WholeWorkspace(w)
  BY <1>1, <1>3, OnlyWholeCoversWhole
<1>5. q.role = "owner"
  BY <1>1, OnlyOwnersAdminister
<1>6. q # p
  BY <1>1
<1> QED
  BY <1>1, <1>4, <1>5, <1>6 DEF WholeOwner

\* A write to the document the call has read leaves every workspace its owners.
LEMMA OwnersStay ==
  ASSUME SerialInv, NEW c \in Caller, pc[c] \in {"update_write", "revoke_delete"},
         \A p \in policies : p # seen[c] => p \in policies',
         NEW w, Owned(w)
  PROVE  Owned(w)'
<1>1. PICK p \in policies : WholeOwner(p, w)
  BY DEF Owned
<1>2. StandsInv(c) /\ CallInv(c, {}, {})
  BY DEF SerialInv, GrantsInv, RacingInv
<1>3. CASE p # seen[c]
  BY <1>1, <1>3 DEF Owned, WholeOwner
<1>4. CASE p = seen[c]
  <2>1. /\ seen[c] \in get_policy(call[c].workspace, call[c].id) /\ MayGrant(c, seen[c].pattern)
        /\ Lower[call[c].actor] = call[c].actor
    BY <1>2 DEF StandsInv, HasRead
  <2>2. Lower[seen[c].principal] # call[c].actor
    BY <1>2 DEF CallInv, Informed, KnowsWhose
  <2>3. call[c].workspace = w
    BY <1>1, <1>4, <2>1 DEF get_policy, list_policies, WholeOwner
  <2>4. \E q \in policies : q # p /\ WholeOwner(q, w)
    BY <1>1, <1>4, <2>1, <2>2, <2>3, AnotherOwner
  <2> QED
    BY <1>4, <2>4 DEF Owned, WholeOwner
<1> QED
  BY <1>3, <1>4

\* A document that says something new of a principal leaves no duplicates.
LEMMA DocumentAdded ==
  ASSUME SerialInv, NEW new, NEW rest \in SUBSET policies, policies' = rest \union {new},
         Lower[new.principal] = new.principal,
         \A p \in rest : p.workspace = new.workspace /\ p.principal = new.principal =>
                           p.pattern # new.pattern
  PROVE  DocumentsInv'
<1>1. /\ \A p \in policies : Lower[p.principal] = p.principal
      /\ \A p, q \in policies :
           /\ p.workspace = q.workspace
           /\ Lower[p.principal] = Lower[q.principal]
           /\ p.pattern = q.pattern
           => p.id = q.id
  BY DEF SerialInv, DocumentsInv, NoDuplicatePolicy
<1> QED
  BY <1>1 DEF DocumentsInv, NoDuplicatePolicy

LEMMA GrantCreateSerial ==
  ASSUME Serial, SerialInv, GrantsInv', NEW c \in Caller, GrantCreate(c)
  PROVE  SerialInv'
<1>k. PICK k : k = [call[c] EXCEPT !.id = nextId]
  OBVIOUS
<1>new. PICK new : new = [id |-> nextId, workspace |-> k.workspace, principal |-> k.principal,
                          role |-> k.role, pattern |-> k.pattern, updated_by |-> k.actor]
  OBVIOUS
<1>1. /\ pc[c] = "grant_create" /\ call[c] \in Call /\ call[c].op = "grant"
      /\ StandsInv(c) /\ audit = history /\ history \in Seq(Change) /\ nextId \in Nat
  BY DEF GrantCreate, SerialInv, GrantsInv, RacingInv, CallInv, Granting, FollowsInv, Recording,
         TypeOK, PolicyStoreTypeOK
<1>2. /\ k \in Call /\ k.op = "grant" /\ k.actor = call[c].actor
      /\ k.workspace = call[c].workspace /\ k.principal = call[c].principal
      /\ k.pattern = call[c].pattern /\ k.role = call[c].role
  BY <1>1, <1>k DEF Call
<1>3. /\ policies' = policies \union {new} /\ history' = Append(history, Created(k))
      /\ call' = [call EXCEPT ![c] = k]
      /\ Goto(c, "record_created") /\ UNCHANGED <<seen, begun, audit>>
  BY <1>k, <1>new DEF GrantCreate, create_policy
<1>4. Lower[k.actor] = k.actor /\ Lower[k.principal] = k.principal /\ Clear(c, k.principal, {})
  BY <1>1, <1>2 DEF StandsInv
<1>5. /\ new.workspace = k.workspace /\ new.principal = k.principal /\ new.pattern = k.pattern
      /\ Created(k).event = "policy.created" /\ Created(k).bootstrap = FALSE
  BY <1>2, <1>new DEF Created
<1>6. \A p \in policies : p.workspace = k.workspace /\ p.principal = k.principal =>
                            p.pattern # k.pattern
  BY <1>2, <1>4 DEF Clear, find_conflict, list_policies_for_principal, list_policies
<1>7. DocumentsInv'
  <2>1. policies \in SUBSET policies /\ Lower[new.principal] = new.principal
    BY <1>4, <1>5
  <2>2. \A p \in policies : p.workspace = new.workspace /\ p.principal = new.principal =>
                              p.pattern # new.pattern
    BY <1>5, <1>6
  <2> QED
    BY <1>3, <2>1, <2>2, DocumentAdded
<1>8. pc'[c] = "record_created" /\ call'[c] = k
  BY <1>3 DEF SerialInv, GrantsInv, RacingInv, TypeOK, Goto
<1>9. StandsInv(c)'
  BY <1>4, <1>8 DEF StandsInv, Granting, Updating, HasRead, Authorized, Revoking
<1>10. FollowsInv(c)'
  BY <1>1, <1>3, <1>8 DEF FollowsInv, Recording, Created
<1>11. FoundingInv(c)'
  BY <1>2, <1>8 DEF FoundingInv, Bootstrapping, Creating
<1>12. \A w \in Name : Owned(w) => Owned(w)'
  BY <1>3 DEF Owned, WholeOwner
<1>13. Created(k) \in Change /\ ~Creating(c)
  BY <1>1, <1>2, RecordTypes DEF Creating
<1> QED
  BY <1>3, <1>5, <1>7, <1>9, <1>10, <1>11, <1>12, <1>13, SerialChanged

LEMMA BootstrapCreateSerial ==
  ASSUME Serial, SerialInv, GrantsInv', NEW c \in Caller, BootstrapCreate(c)
  PROVE  SerialInv'
<1>old. PICK old : old = call[c]
  OBVIOUS
<1>member. PICK member : member = Head(old.members)
  OBVIOUS
<1>k. PICK k : k = [old EXCEPT !.principal = member.principal, !.role = member.role,
                              !.id = nextId, !.members = Tail(old.members)]
  OBVIOUS
<1>new. PICK new : new = [id |-> nextId, workspace |-> k.workspace, principal |-> k.principal,
                          role |-> k.role, pattern |-> k.pattern, updated_by |-> k.actor]
  OBVIOUS
<1>1. /\ pc[c] = "bootstrap_create" /\ old \in Call /\ old.op = "bootstrap"
      /\ old.members # <<>> /\ Creating(c) /\ Bootstrapping(c)
      /\ StandsInv(c) /\ FoundingInv(c)
      /\ audit = history /\ history \in Seq(Change) /\ nextId \in Nat
  BY <1>old DEF BootstrapCreate, SerialInv, GrantsInv, RacingInv, CallInv, Bootstrapping, Creating, Founds,
         FollowsInv, Recording, TypeOK, PolicyStoreTypeOK
<1>2. /\ old.members \in Seq([principal : Name, role : STRING])
      /\ Len(old.members) \in Nat /\ Len(old.members) >= 1
  <2>1. old.members \in Seq([principal : Name, role : STRING])
    BY <1>1 DEF Call, Members
  <2> QED
    BY <1>1, <2>1, EmptySeq
<1>3. /\ member = old.members[1]
      /\ member \in [principal : Name, role : STRING]
      /\ Tail(old.members) \in Seq([principal : Name, role : STRING])
      /\ Len(Tail(old.members)) = Len(old.members) - 1
      /\ \A i \in 1..Len(Tail(old.members)) :
           Tail(old.members)[i] = old.members[i + 1] /\ i + 1 \in 1..Len(old.members)
  <2>1. \A s \in Seq([principal : Name, role : STRING]) : s # <<>> => Head(s) = s[1]
    OBVIOUS
  <2>2. /\ Head(old.members) \in [principal : Name, role : STRING]
        /\ Tail(old.members) \in Seq([principal : Name, role : STRING])
        /\ Len(Tail(old.members)) = Len(old.members) - 1
        /\ \A i \in 1..Len(Tail(old.members)) : Tail(old.members)[i] = old.members[i + 1]
    BY <1>1, <1>2, HeadTailProperties
  <2> QED
    BY <1>1, <1>2, <1>member, <2>1, <2>2
<1>4. member.principal \in Name /\ member.role \in STRING
  BY <1>3
<1>5. /\ k \in Call /\ k.op = "bootstrap" /\ k.actor = old.actor
      /\ k.workspace = old.workspace /\ k.pattern = old.pattern
      /\ k.principal = member.principal /\ k.role = member.role
      /\ k.members = Tail(old.members)
  BY <1>1, <1>3, <1>4, <1>k DEF Call, Members
<1>6. /\ policies' = policies \union {new} /\ history' = Append(history, Created(k))
      /\ call' = [call EXCEPT ![c] = k]
      /\ Goto(c, "record_created") /\ UNCHANGED <<seen, begun, audit>>
  BY <1>old, <1>member, <1>k, <1>new DEF BootstrapCreate, create_policy
<1>7. /\ new.workspace = k.workspace /\ new.principal = k.principal /\ new.pattern = k.pattern
      /\ new.role = k.role
      /\ Created(k).event = "policy.created" /\ Created(k).bootstrap = TRUE
      /\ Created(k).workspace = k.workspace /\ Created(k).principal = k.principal
      /\ Created(k).actor = k.actor
  BY <1>5, <1>new DEF Created
<1>8. /\ old.pattern = WholeWorkspace(old.workspace) /\ MembersValid(old.members)
      /\ \A p \in list_policies(old.workspace) :
           /\ p.pattern = old.pattern /\ is_valid_role(p.role)
           /\ \A i \in 1..Len(old.members) : p.principal # old.members[i].principal
      /\ OwnerToCome(old.members) \/ Owned(old.workspace)
      /\ \A n \in 1..Len(history) :
           history[n].bootstrap /\ history[n].workspace = old.workspace =>
             /\ history[n].actor = old.actor
             /\ \E p \in list_policies(old.workspace) : p.principal = history[n].principal
  BY <1>1, <1>old DEF FoundingInv
<1>9. /\ 1 \in 1..Len(old.members)
      /\ Lower[member.principal] = member.principal /\ is_valid_role(member.role)
      /\ \A p \in list_policies(old.workspace) : p.principal # member.principal
  BY <1>2, <1>3, <1>8 DEF MembersValid
<1>10. MembersValid(k.members)
  <2>1. \A i, j \in 1..Len(k.members) :
          old.members[i + 1].principal = old.members[j + 1].principal => i + 1 = j + 1
    BY <1>3, <1>5, <1>8 DEF MembersValid
  <2>2. \A i, j \in 1..Len(k.members) :
          k.members[i].principal = k.members[j].principal => i = j
    BY <1>2, <1>3, <1>5, <2>1
  <2>3. \A i \in 1..Len(k.members) :
          /\ is_valid_role(k.members[i].role)
          /\ Lower[k.members[i].principal] = k.members[i].principal
    <3> SUFFICES ASSUME NEW i \in 1..Len(k.members)
                 PROVE  /\ is_valid_role(k.members[i].role)
                        /\ Lower[k.members[i].principal] = k.members[i].principal
      OBVIOUS
    <3>1. PICK j \in 1..Len(old.members) : k.members[i] = old.members[j]
      BY <1>3, <1>5
    <3> QED
      BY <1>8, <3>1 DEF MembersValid
  <2> QED
    BY <2>2, <2>3 DEF MembersValid
<1>11. \A i \in 1..Len(k.members) : k.members[i].principal # k.principal
  BY <1>2, <1>3, <1>5, <1>8, <1>9 DEF MembersValid
<1>12. DocumentsInv'
  <2>1. \A p \in policies : p.workspace = new.workspace /\ p.principal = new.principal =>
                              p.pattern # new.pattern
    BY <1>5, <1>7, <1>9 DEF list_policies
  <2>2. policies \in SUBSET policies /\ Lower[new.principal] = new.principal
    BY <1>5, <1>7, <1>9
  <2> QED
    BY <1>6, <2>1, <2>2, DocumentAdded
<1>13. /\ pc'[c] = "record_created" /\ call'[c] = k /\ Creating(c)'
  BY <1>5, <1>6 DEF SerialInv, GrantsInv, RacingInv, TypeOK, Goto, Creating
<1>14. StandsInv(c)'
  <2>1. Lower[k.actor] = k.actor /\ Lower[k.principal] = k.principal
    BY <1>1, <1>5, <1>9, <1>old DEF StandsInv
  <2> QED
    BY <1>13, <2>1 DEF StandsInv, Granting, Updating, HasRead, Authorized, Revoking
<1>15. FollowsInv(c)'
  BY <1>1, <1>6, <1>13 DEF FollowsInv, Recording, Created
<1>16. \A w \in Name : Owned(w) => Owned(w)'
  BY <1>6 DEF Owned, WholeOwner
<1>17. \A p \in policies' : p.workspace = k.workspace <=> p \in list_policies(old.workspace) \/ p = new
  BY <1>5, <1>6, <1>7 DEF list_policies
<1>18. FoundingInv(c)'
  <2>1. \A p \in list_policies(k.workspace)' :
          /\ p.pattern = k.pattern /\ is_valid_role(p.role)
          /\ \A i \in 1..Len(k.members) : p.principal # k.members[i].principal
    <3>1. ASSUME NEW p \in policies', p.workspace = k.workspace
          PROVE  /\ p.pattern = k.pattern /\ is_valid_role(p.role)
                 /\ \A i \in 1..Len(k.members) : p.principal # k.members[i].principal
      <4>1. CASE p = new
        BY <1>5, <1>7, <1>9, <1>11, <4>1
      <4>2. CASE p \in list_policies(old.workspace)
        BY <1>3, <1>5, <1>8, <4>2
      <4> QED
        BY <1>17, <3>1, <4>1, <4>2
    <3> QED
      BY <1>13, <3>1 DEF list_policies
  <2>2. OwnerToCome(k.members) \/ \E p \in policies' : WholeOwner(p, k.workspace)
    <3>1. CASE Owned(old.workspace)
      BY <1>5, <1>6, <3>1 DEF Owned
    <3>2. ASSUME NEW i \in 1..Len(old.members), old.members[i].role = "owner"
          PROVE  OwnerToCome(k.members) \/ \E p \in policies' : WholeOwner(p, k.workspace)
      <4>1. CASE i = 1
        BY <1>3, <1>5, <1>6, <1>7, <1>8, <3>2, <4>1 DEF WholeOwner
      <4>2. CASE i # 1
        <5>1. i - 1 \in 1..Len(Tail(old.members))
          BY <1>2, <1>3, <4>2
        <5>2. Tail(old.members)[i - 1] = old.members[i]
          BY <1>3, <5>1
        <5> QED
          BY <1>5, <3>2, <5>1, <5>2 DEF OwnerToCome
      <4> QED
        BY <4>1, <4>2
    <3> QED
      BY <1>8, <3>1, <3>2 DEF OwnerToCome
  <2>3. /\ Len(history') = Len(history) + 1
        /\ history'[Len(history) + 1] = Created(k)
        /\ \A n \in 1..Len(history) : history'[n] = history[n]
    BY <1>1, <1>6
  <2>4. ASSUME NEW n \in 1..Len(history'), history'[n].bootstrap,
               history'[n].workspace = k.workspace
        PROVE  /\ history'[n].actor = k.actor
               /\ \E p \in policies' : /\ p.workspace = k.workspace
                                       /\ p.principal = history'[n].principal
    <3>1. CASE n = Len(history) + 1
      BY <1>6, <1>7, <2>3, <3>1
    <3>2. CASE n \in 1..Len(history)
      BY <1>5, <1>6, <1>8, <2>3, <2>4, <3>2 DEF list_policies
    <3>3. Len(history) \in Nat
      BY <1>1
    <3> QED
      BY <2>3, <3>1, <3>2, <3>3
  <2>5. k.pattern = WholeWorkspace(k.workspace)
    BY <1>5, <1>8
  <2> QED
    BY <1>10, <1>13, <2>1, <2>2, <2>4, <2>5 DEF FoundingInv, list_policies, Owned
<1>19. Created(k) \in Change
  BY <1>5, RecordTypes
<1>20. \A n \in 1..Len(history) :
         history[n].bootstrap /\ history[n].workspace = k.workspace =>
           history[n].actor = k.actor /\ history[n].principal # k.principal
  BY <1>5, <1>8, <1>9
<1> QED
  BY <1>5, <1>6, <1>7, <1>12, <1>13, <1>14, <1>15, <1>16, <1>18, <1>19, <1>20, <1>old,
     SerialChanged

\* What the call read is what is there, and it may be changed.
LEMMA ReadStands ==
  ASSUME SerialInv, NEW c \in Caller, pc[c] \in {"update_write", "revoke_delete"}
  PROVE  /\ call[c] \in Call /\ Lower[call[c].actor] = call[c].actor
         /\ Lower[call[c].principal] = call[c].principal
         /\ seen[c] \in policies /\ seen[c] \in Policy /\ WellFiled(seen[c])
         /\ seen[c].workspace = call[c].workspace /\ seen[c].id = call[c].id
         /\ get_policy(call[c].workspace, call[c].id) = {seen[c]}
         /\ Lower[seen[c].principal] = seen[c].principal
         /\ seen[c].principal # call[c].actor
         /\ MayGrant(c, seen[c].pattern)
         /\ audit = history /\ history \in Seq(Change) /\ ~Creating(c)
<1>1. /\ StandsInv(c) /\ CallInv(c, {}, {}) /\ FollowsInv(c) /\ StoreInv({}) /\ DocumentsInv
      /\ history \in Seq(Change) /\ policies \subseteq Policy
  BY DEF SerialInv, GrantsInv, RacingInv, TypeOK, PolicyStoreTypeOK
<1>2. /\ call[c] \in Call /\ Lower[call[c].actor] = call[c].actor
      /\ Lower[call[c].principal] = call[c].principal
      /\ seen[c] \in get_policy(call[c].workspace, call[c].id)
      /\ MayGrant(c, seen[c].pattern)
      /\ Lower[seen[c].principal] # call[c].actor
  BY <1>1 DEF StandsInv, CallInv, HasRead, Informed, KnowsWhose
<1>3. /\ seen[c] \in policies /\ seen[c].workspace = call[c].workspace
      /\ seen[c].id = call[c].id
      /\ get_policy(call[c].workspace, call[c].id) = {seen[c]}
  BY <1>1, <1>2, OneById
<1>4. WellFiled(seen[c]) /\ Lower[seen[c].principal] = seen[c].principal
  BY <1>1, <1>3 DEF StoreInv, DocumentsInv
<1>5. audit = history /\ ~Creating(c)
  BY <1>1 DEF FollowsInv, Recording, Creating
<1> QED
  BY <1>1, <1>2, <1>3, <1>4, <1>5

LEMMA UpdateWriteSerial ==
  ASSUME Serial, SerialInv, GrantsInv', NEW c \in Caller, UpdateWrite(c)
  PROVE  SerialInv'
<1>k. PICK k : k = call[c]
  OBVIOUS
<1>p. PICK p : p = seen[c]
  OBVIOUS
<1>new. PICK new : new = [p EXCEPT !.role = k.role, !.pattern = k.pattern, !.updated_by = k.actor]
  OBVIOUS
<1>1. pc[c] = "update_write"
  BY DEF UpdateWrite
<1>2. /\ k \in Call /\ Lower[k.actor] = k.actor /\ Lower[k.principal] = k.principal
      /\ p \in policies /\ p \in Policy /\ IsPattern(p.pattern)
      /\ p.workspace = k.workspace /\ p.id = k.id
      /\ get_policy(k.workspace, k.id) = {p}
      /\ Lower[p.principal] = p.principal
      /\ MayGrant(c, p.pattern)
      /\ audit = history /\ history \in Seq(Change) /\ ~Creating(c)
  BY <1>1, <1>k, <1>p, ReadStands DEF WellFiled
<1>3. /\ policies' = (policies \ {p}) \union {new}
      /\ history' = Append(history, Updated(k, p))
      /\ Goto(c, "record_updated") /\ UNCHANGED <<call, seen, audit>>
  <2>1. /\ update_policy(k.workspace, k.id, k.role, k.pattern, k.actor)
        /\ history' = Append(history, Updated(k, p))
        /\ Goto(c, "record_updated") /\ UNCHANGED <<call, seen, audit>>
    BY <1>2, <1>k DEF UpdateWrite
  <2>2. policies' = (policies \ {p}) \union
          {[q EXCEPT !.role = k.role, !.pattern = k.pattern, !.updated_by = k.actor] :
             q \in {p}}
    BY <1>2, <2>1 DEF update_policy
  <2> QED
    BY <1>new, <2>1, <2>2
<1>4. /\ new.workspace = p.workspace /\ new.principal = p.principal /\ new.pattern = k.pattern
  BY <1>2, <1>new DEF Policy
<1>5. Clear(c, p.principal, {k.id})
  BY <1>1, <1>k, <1>p DEF SerialInv, StandsInv
<1>6. \A q \in policies \ {p} : q.workspace = new.workspace /\ q.principal = new.principal =>
                                  q.pattern # new.pattern
  <2>1. \A q \in policies \ {p} : q.id # k.id
    BY <1>2 DEF SerialInv, GrantsInv, RacingInv, StoreInv
  <2> QED
    BY <1>2, <1>4, <1>5, <1>k, <2>1
    DEF Clear, find_conflict, list_policies_for_principal, list_policies
<1>7. DocumentsInv'
  <2>1. policies \ {p} \in SUBSET policies /\ Lower[new.principal] = new.principal
    BY <1>2, <1>4
  <2> QED
    BY <1>3, <1>6, <2>1, DocumentAdded
<1>8. pc'[c] = "record_updated" /\ call'[c] = k /\ seen'[c] = p
  BY <1>3, <1>k, <1>p DEF SerialInv, GrantsInv, RacingInv, TypeOK, Goto
<1>9. StandsInv(c)'
  BY <1>2, <1>8 DEF StandsInv, Granting, Updating, HasRead, Authorized, Revoking
<1>10. FollowsInv(c)'
  BY <1>2, <1>3, <1>8 DEF FollowsInv, Recording, Updated
<1>11. FoundingInv(c)'
  BY <1>8 DEF FoundingInv, Bootstrapping, Creating
<1>12. \A w \in Name : Owned(w) => Owned(w)'
  <2>1. \A q \in policies : q # seen[c] => q \in policies'
    BY <1>3, <1>p
  <2> QED
    BY <1>1, <2>1, OwnersStay
<1>13. /\ Updated(k, p) \in Change /\ Updated(k, p).event = "policy.updated"
       /\ Updated(k, p).bootstrap = FALSE /\ Updated(k, p).workspace = k.workspace
       /\ Updated(k, p).actor = k.actor /\ Updated(k, p).previous_pattern = p.pattern
  <2>1. Updated(k, p) \in Change
    BY <1>2, RecordTypes
  <2> QED
    BY <2>1 DEF Updated
<1>14. can_administer_pattern({g \in Held : g.workspace = k.workspace}, k.actor, p.pattern)
  <2>1. p.pattern \in Path /\ GrantsInv
    BY <1>2 DEF Policy, SerialInv
  <2>2. can_administer_pattern(list_policies_for_principal(k.workspace, k.actor),
                               k.actor, p.pattern)
    BY <1>2, <1>k DEF MayGrant
  <2>3. can_administer_pattern({g \in Held \union {} : g.workspace = k.workspace},
                               k.actor, p.pattern)
    BY <1>2, <2>1, <2>2, AuthorityIsHeld DEF GrantsInv
  <2> QED
    BY <2>3, AuthorityGrows
<1> QED
  BY <1>2, <1>3, <1>7, <1>9, <1>10, <1>11, <1>12, <1>13, <1>14, SerialChanged

LEMMA RevokeDeleteSerial ==
  ASSUME Serial, SerialInv, GrantsInv', NEW c \in Caller, RevokeDelete(c)
  PROVE  SerialInv'
<1>k. PICK k : k = call[c]
  OBVIOUS
<1>p. PICK p : p = seen[c]
  OBVIOUS
<1>1. pc[c] = "revoke_delete"
  BY DEF RevokeDelete
<1>2. /\ k \in Call /\ Lower[k.actor] = k.actor /\ Lower[k.principal] = k.principal
      /\ p \in policies /\ p \in Policy /\ p.id = k.id
      /\ get_policy(k.workspace, k.id) = {p}
      /\ audit = history /\ history \in Seq(Change) /\ ~Creating(c)
  BY <1>1, <1>k, <1>p, ReadStands
<1>3. /\ policies' = policies \ {p}
      /\ history' = Append(history, Deleted(k, p))
      /\ Goto(c, "record_deleted") /\ UNCHANGED <<call, seen, audit>>
  BY <1>2, <1>k DEF RevokeDelete, delete_policy
<1>4. DocumentsInv'
  BY <1>3 DEF SerialInv, DocumentsInv, NoDuplicatePolicy
<1>5. pc'[c] = "record_deleted" /\ call'[c] = k /\ seen'[c] = p
  BY <1>3, <1>k, <1>p DEF SerialInv, GrantsInv, RacingInv, TypeOK, Goto
<1>6. StandsInv(c)'
  BY <1>2, <1>5 DEF StandsInv, Granting, Updating, HasRead, Authorized, Revoking
<1>7. FollowsInv(c)'
  BY <1>2, <1>3, <1>5 DEF FollowsInv, Recording, Deleted
<1>8. FoundingInv(c)'
  BY <1>5 DEF FoundingInv, Bootstrapping, Creating
<1>9. \A w \in Name : Owned(w) => Owned(w)'
  <2>1. \A q \in policies : q # seen[c] => q \in policies'
    BY <1>3, <1>p
  <2> QED
    BY <1>1, <2>1, OwnersStay
<1>10. /\ Deleted(k, p) \in Change /\ Deleted(k, p).event = "policy.deleted"
       /\ Deleted(k, p).bootstrap = FALSE
  <2>1. Deleted(k, p) \in Change
    BY <1>2, RecordTypes
  <2> QED
    BY <2>1 DEF Deleted
<1>11. \A n \in 1..Len(history) :
         history[n].event = "policy.deleted" => history[n].policy_id # Deleted(k, p).policy_id
  BY <1>2 DEF Deleted, SerialInv, GrantsInv, DeletedIsGone
<1> QED
  BY <1>2, <1>3, <1>4, <1>6, <1>7, <1>8, <1>9, <1>10, <1>11, SerialChanged

(***************************************************************************)
(* The invariant, and what follows.                                        *)
(***************************************************************************)
LEMMA SerialInitially ==
  ASSUME Serial, Init
  PROVE  SerialInv
<1>1. GrantsInv
  BY InitEstablishes
<1>2. /\ policies = Genesis /\ history = <<>> /\ audit = <<>> /\ Len(history) = 0
      /\ \A c \in Caller : pc[c] = "idle"
  BY DEF Init
<1>3. DocumentsInv
  BY <1>2 DEF Serial, DocumentsInv, NoDuplicatePolicy
<1>4. \A n \in 1..Len(history) : FALSE
  BY <1>2
<1>5. FoundersInv /\ EditsAreGoverned /\ DeletedOnce
  BY <1>4 DEF FoundersInv, FoundedOnce, EditsAreGoverned, DeletedOnce
<1>6. \A c \in Caller : StandsInv(c) /\ FollowsInv(c) /\ FoundingInv(c)
  BY <1>2 DEF StandsInv, FollowsInv, FoundingInv, Bootstrapping, Creating
<1> QED
  BY <1>1, <1>3, <1>5, <1>6 DEF SerialInv

LEMMA StepSerial ==
  ASSUME Serial, SerialInv, GrantsInv', NEW c \in Caller, Step(c)
  PROVE  SerialInv'
<1>1. CASE GrantAuthorize(c)
  BY <1>1, AuthorizeSerial DEF GrantAuthorize, Creating, Recording
<1>2. CASE UpdateAuthorize(c)
  BY <1>2, AuthorizeSerial DEF UpdateAuthorize, Creating, Recording
<1>3. CASE RevokeAuthorize(c)
  BY <1>3, AuthorizeSerial DEF RevokeAuthorize, Creating, Recording
<1>4. CASE ResolveAuthorize(c)
  BY <1>4, AuthorizeSerial DEF ResolveAuthorize, Creating, Recording
<1>5. CASE GrantCheckConflict(c) \/ UpdateCheckConflict(c)
  BY <1>5, CheckConflictSerial DEF GrantCheckConflict, UpdateCheckConflict
<1>6. CASE UpdateGet(c) \/ RevokeGet(c)
  BY <1>6, FetchSerial DEF UpdateGet, RevokeGet
<1> QED
  BY <1>1, <1>2, <1>3, <1>4, <1>5, <1>6, ResolveMatchSerial, BootstrapCheckVacantSerial,
     GrantCreateSerial, BootstrapCreateSerial, UpdateWriteSerial, RevokeDeleteSerial,
     RecordSerial, RecordCreatedSerial
  DEF Step

LEMMA SerialKept ==
  ASSUME Serial, SerialInv, [Next]_vars
  PROVE  SerialInv'
<1>1. GrantsInv'
  BY NextKeeps DEF SerialInv
<1>2. CASE UNCHANGED vars
  <2>1. UNCHANGED <<policies, store, history, audit>>
    BY <1>2 DEF vars, store
  <2>2. ASSUME NEW c \in Caller
        PROVE  /\ StandsInv(c)' /\ FollowsInv(c)' /\ FoundingInv(c)'
               /\ Creating(c) => Creating(c)' /\ call'[c].workspace = call[c].workspace
    <3>1. pc'[c] = pc[c] /\ call'[c] = call[c] /\ seen'[c] = seen[c]
      BY <1>2 DEF vars, local
    <3>2. StandsInv(c) /\ FollowsInv(c) /\ FoundingInv(c)
      BY DEF SerialInv
    <3>3. /\ \A pattern : MayGrant(c, pattern)' <=> MayGrant(c, pattern)
          /\ \A principal, besides :
               Clear(c, principal, besides)' <=> Clear(c, principal, besides)
          /\ Described(c)' <=> Described(c)
      BY <2>1, <3>1, SameAnswers
    <3>4. get_policy(call[c].workspace, call[c].id)' = get_policy(call[c].workspace, call[c].id)
      BY <2>1, <3>1 DEF get_policy, list_policies
    <3>5. StandsInv(c)'
      BY <3>1, <3>2, <3>3, <3>4 DEF StandsInv
    <3>6. FollowsInv(c)'
      BY <2>1, <3>1, <3>2 DEF FollowsInv, Created, Updated, Deleted
    <3>7. FoundingInv(c)'
      BY <2>1, <3>1, <3>2
      DEF FoundingInv, Bootstrapping, Creating, list_policies, Owned, WholeOwner
    <3> QED
      BY <3>1, <3>5, <3>6, <3>7 DEF Creating
  <2>3. Caller # {}
    BY DEF Serial
  <2> QED
    BY <1>1, <2>1, <2>2, <2>3, SerialUntouched
<1>3. ASSUME NEW c \in Caller, Begin(c) \/ Step(c) \/ Abort(c)
      PROVE  SerialInv'
  <2>1. ~Abort(c)
    BY DEF Abort, Serial
  <2> QED
    BY <1>1, <1>3, <2>1, BeginSerial, StepSerial
<1> QED
  BY <1>2, <1>3 DEF Next, Done

\* What the only caller read, and what the checks told it, still stands when it
\* writes; no duplicates, no ungoverned edit, no second founding ever follow.
THEOREM SerialInvHolds ==
  ASSUME Serial
  PROVE  Spec => []SerialInv
BY SerialInitially, SerialKept, PTL DEF Spec

\* Nobody ever holds two policies on one pattern.
THEOREM NobodyHoldsTwice ==
  ASSUME Serial
  PROVE  Spec => []NoDuplicatePolicy
<1>1. SerialInv => NoDuplicatePolicy
  BY DEF SerialInv, DocumentsInv
<1> QED
  BY <1>1, SerialInvHolds, PTL

\* A workspace is founded at most once, by one actor.
THEOREM NobodyFoundsAgain ==
  ASSUME Serial
  PROVE  Spec => []FoundedOnce
<1>1. SerialInv => FoundedOnce
  BY DEF SerialInv, FoundersInv
<1> QED
  BY <1>1, SerialInvHolds, PTL

\* What an update replaces was its actor's to administer.
THEOREM EditsAreAlwaysGoverned ==
  ASSUME Serial
  PROVE  Spec => []EditsAreGoverned
<1>1. SerialInv => EditsAreGoverned
  BY DEF SerialInv
<1> QED
  BY <1>1, SerialInvHolds, PTL

\* The trail is the history, but for at most its last change.
LEMMA TrailIsPrefix ==
  ASSUME Serial, SerialInv
  PROVE  /\ Len(audit) \in Nat /\ Len(audit) <= Len(history)
         /\ audit = SubSeq(history, 1, Len(audit))
         /\ \A a \in 1..Len(audit) : a \in 1..Len(history) /\ audit[a] = history[a]
<1>1. audit \in Seq(Change) /\ history \in Seq(Change) /\ Len(audit) \in Nat
  BY DEF SerialInv, GrantsInv, RacingInv, TypeOK
<1>2. PICK c \in Caller : TRUE
  BY DEF Serial
<1>3. audit = history \/ \E h : history = Append(audit, h)
  BY <1>2 DEF SerialInv, FollowsInv, Recording
<1>4. CASE audit = history
  BY <1>1, <1>4, SubSeqFull
<1>5. ASSUME NEW h, history = Append(audit, h)
      PROVE  /\ Len(audit) <= Len(history)
             /\ audit = SubSeq(history, 1, Len(audit))
             /\ \A a \in 1..Len(audit) : a \in 1..Len(history) /\ audit[a] = history[a]
  <2>1. /\ Len(history) = Len(audit) + 1
        /\ \A a \in 1..Len(audit) : history[a] = audit[a]
    BY <1>1, <1>5
  <2>2. \A a \in 1..Len(audit) : history[a] \in Change
    BY <1>1, <2>1, ElementOfSeq
  <2>3. /\ SubSeq(history, 1, Len(audit)) \in Seq(Change)
        /\ Len(SubSeq(history, 1, Len(audit))) = Len(audit)
        /\ \A a \in 1..Len(audit) : SubSeq(history, 1, Len(audit))[a] = history[a]
    BY <1>1, <2>1
  <2>4. audit = SubSeq(history, 1, Len(audit))
    BY <1>1, <2>1, <2>3, SeqEqual
  <2> QED
    BY <1>1, <2>1, <2>4
<1> QED
  BY <1>1, <1>3, <1>4, <1>5

\* Every change is recorded, in order and as it was, before the next call begins.
THEOREM TrailIsAlwaysExact ==
  ASSUME Serial
  PROVE  Spec => []TrailIsExact
<1>1. ASSUME SerialInv, Idle PROVE audit = history
  BY <1>1 DEF Serial, SerialInv, FollowsInv, Idle, Recording
<1>2. SerialInv => TrailIsExact
  BY <1>1, TrailIsPrefix DEF TrailIsExact
<1> QED
  BY <1>2, SerialInvHolds, PTL

\* Every recorded deletion is of another document.
THEOREM RecordedDeletionsHappened ==
  ASSUME Serial
  PROVE  Spec => []DeletionsHappened
<1>1. SerialInv => DeletionsHappened
  BY TrailIsPrefix DEF SerialInv, DeletedOnce, DeletionsHappened
<1> QED
  BY <1>1, SerialInvHolds, PTL

(***************************************************************************)
(* Action properties.                                                      *)
(***************************************************************************)

\* What an update or a revocation of the only caller does to the store.
LEMMA WhatIsWritten ==
  ASSUME SerialInv, NEW c \in Caller
  PROVE  /\ UpdateWrite(c) =>
              /\ pc[c] = "update_write"
              /\ update_policy(call[c].workspace, call[c].id, call[c].role, call[c].pattern,
                               call[c].actor)
              /\ policies' = (policies \ {seen[c]}) \union
                   {[seen[c] EXCEPT !.role = call[c].role, !.pattern = call[c].pattern,
                                    !.updated_by = call[c].actor]}
              /\ Goto(c, "record_updated") /\ UNCHANGED call
         /\ RevokeDelete(c) =>
              /\ pc[c] = "revoke_delete"
              /\ policies' = policies \ {seen[c]}
              /\ Goto(c, "record_deleted") /\ UNCHANGED call
<1>1. ASSUME UpdateWrite(c)
      PROVE  /\ pc[c] = "update_write"
             /\ update_policy(call[c].workspace, call[c].id, call[c].role, call[c].pattern,
                              call[c].actor)
             /\ policies' = (policies \ {seen[c]}) \union
                  {[seen[c] EXCEPT !.role = call[c].role, !.pattern = call[c].pattern,
                                   !.updated_by = call[c].actor]}
             /\ Goto(c, "record_updated") /\ UNCHANGED call
  <2>1. get_policy(call[c].workspace, call[c].id) = {seen[c]} /\ pc[c] = "update_write"
    BY <1>1, ReadStands DEF UpdateWrite
  <2>2. /\ update_policy(call[c].workspace, call[c].id, call[c].role, call[c].pattern,
                         call[c].actor)
        /\ Goto(c, "record_updated") /\ UNCHANGED call
    BY <1>1, <2>1 DEF UpdateWrite
  <2>3. policies' = (policies \ {seen[c]}) \union
          {[q EXCEPT !.role = call[c].role, !.pattern = call[c].pattern,
                     !.updated_by = call[c].actor] : q \in {seen[c]}}
    BY <2>1, <2>2 DEF update_policy
  <2> QED
    BY <2>1, <2>2, <2>3
<1>2. ASSUME RevokeDelete(c)
      PROVE  /\ pc[c] = "revoke_delete" /\ policies' = policies \ {seen[c]}
             /\ Goto(c, "record_deleted") /\ UNCHANGED call
  BY <1>2, ReadStands DEF RevokeDelete, delete_policy
<1> QED
  BY <1>1, <1>2

\* A step leaves every owned workspace owned.
LEMMA OwnersKept ==
  ASSUME SerialInv, [Next]_vars, NEW w, Owned(w)
  PROVE  Owned(w)'
<1>1. CASE policies \subseteq policies'
  BY <1>1 DEF Owned, WholeOwner
<1>2. ASSUME NEW c \in Caller, GrantCreate(c) \/ BootstrapCreate(c)
      PROVE  policies \subseteq policies'
  BY <1>2 DEF GrantCreate, BootstrapCreate, create_policy
<1>3. ASSUME NEW c \in Caller, UpdateWrite(c) \/ RevokeDelete(c)
      PROVE  Owned(w)'
  <2>1. /\ pc[c] \in {"update_write", "revoke_delete"}
        /\ \A p \in policies : p # seen[c] => p \in policies'
    BY <1>3, WhatIsWritten
  <2> QED
    BY <2>1, OwnersStay
<1> QED
  BY <1>1, <1>2, <1>3, WhatWrites

\* The last whole-workspace owner of a workspace can be neither revoked nor demoted.
THEOREM OwnerIsNeverLost ==
  ASSUME Serial
  PROVE  Spec => OwnerRemains
<1>1. SerialInv /\ [Next]_vars => [\A w \in Name : Owned(w) => Owned(w)']_policies
  BY OwnersKept
<1> QED
  BY <1>1, SerialInvHolds, PTL DEF Spec, OwnerRemains

\* A step of a call is the one its place says.
LEMMA StepTaken ==
  ASSUME Serial, [Next]_vars, NEW c \in Caller, pc'[c] # pc[c]
  PROVE  /\ pc[c] = "revoke_delete" => RevokeDelete(c)
         /\ pc[c] = "grant_authorize" => GrantAuthorize(c)
<1>1. ~UNCHANGED vars /\ ~Done
  BY DEF vars, local, Done
<1>2. Begin(c) \/ Step(c)
  BY <1>1, NobodyElse DEF Next, Abort, Serial
<1> QED
  BY <1>2
  DEF Begin, Step, GrantAuthorize, GrantCheckConflict, GrantCreate,
      UpdateGet, UpdateAuthorize, UpdateCheckConflict, UpdateWrite,
      RevokeGet, RevokeAuthorize, RevokeDelete, ResolveAuthorize, ResolveMatch,
      BootstrapCheckVacant, BootstrapCreate, RecordCreated, RecordUpdated, RecordDeleted

\* revoke_grant never deletes anything but the policy it was given the words of.
THEOREM RevocationIsExact ==
  ASSUME Serial
  PROVE  Spec => RevokeIsExact
<1>1. ASSUME SerialInv, [Next]_vars, NEW c \in Caller,
             pc[c] = "revoke_delete", pc'[c] = "record_deleted", call[c].op = "revoke_grant",
             NEW p \in policies \ policies'
      PROVE  /\ p.principal = call[c].principal
             /\ LowerRole(p.role) = call[c].role
             /\ normalize(p.pattern) = call[c].pattern
  <2>1. RevokeDelete(c)
    BY <1>1, StepTaken
  <2>2. p = seen[c]
    BY <1>1, <2>1, WhatIsWritten
  <2>3. Described(c)
    BY <1>1 DEF SerialInv, StandsInv, Revoking
  <2> QED
    BY <1>1, <2>2, <2>3, ReadStands DEF Described
<1>2. SerialInv /\ [Next]_vars =>
        [\A c \in Caller :
           pc[c] = "revoke_delete" /\ pc'[c] = "record_deleted" /\ call[c].op = "revoke_grant" =>
             \A p \in policies \ policies' :
               /\ p.principal = call[c].principal
               /\ LowerRole(p.role) = call[c].role
               /\ normalize(p.pattern) = call[c].pattern]_vars
  BY <1>1
<1> QED
  BY <1>2, SerialInvHolds, PTL DEF Spec, RevokeIsExact

\* Nobody is refused a grant who holds, in any spelling, what allows it.
THEOREM DenialIsAlwaysDeserved ==
  ASSUME Serial
  PROVE  Spec => DenialIsDeserved
<1>1. ASSUME SerialInv, [Next]_vars, NEW c \in Caller,
             pc[c] = "grant_authorize", pc'[c] = "idle",
             can_administer_pattern(list_policies(call[c].workspace),
                                    call[c].actor, call[c].pattern)
      PROVE  FALSE
  <2>1. GrantAuthorize(c)
    BY <1>1, StepTaken
  <2>2. Lower[call[c].actor] = call[c].actor
    BY <1>1 DEF SerialInv, StandsInv
  <2>3. \A p \in policies : Lower[p.principal] = p.principal
    BY <1>1 DEF SerialInv, DocumentsInv
  <2>4. MayGrant(c, call[c].pattern)
    BY <1>1, <2>2, <2>3 DEF MayGrant, can_administer_pattern, list_policies_for_principal, list_policies
  <2>5. Goto(c, "grant_conflict")
    BY <2>1, <2>4 DEF GrantAuthorize, Authorize, MayGrant
  <2> QED
    BY <1>1, <2>5 DEF Goto, SerialInv, GrantsInv, RacingInv, TypeOK
<1>2. SerialInv /\ [Next]_vars =>
        [\A c \in Caller :
           pc[c] = "grant_authorize" /\ pc'[c] = "idle" /\ outcome'[c] = "AccessDenied" =>
             ~can_administer_pattern(list_policies(call[c].workspace),
                                     call[c].actor, call[c].pattern)]_vars
  BY <1>1
<1> QED
  BY <1>2, SerialInvHolds, PTL DEF Spec, DenialIsDeserved

(***************************************************************************)
(* The access list.  It is stated with an instance of Checks of its own,   *)
(* whose decisions are those of the program.                               *)
(***************************************************************************)
LEMMA SameMatch ==
  \A resource, pattern :
    Promise!resource_matches(resource, pattern) <=> resource_matches(resource, pattern)
BY DEF Promise!resource_matches, resource_matches, Promise!Covers, Covers,
       Promise!Aligns, Aligns, Promise!normalize, normalize

LEMMA SameAdministration ==
  \A held, identity, pattern :
    Promise!can_administer_pattern(held, identity, pattern) <=>
      can_administer_pattern(held, identity, pattern)
<1>1. \A role, action :
        Promise!action_allowed_for_role(role, action) <=> action_allowed_for_role(role, action)
  BY DEF Promise!action_allowed_for_role, action_allowed_for_role, Promise!allowed_roles,
         allowed_roles, Promise!ROLES, ROLES, Promise!WriterDataActions, WriterDataActions,
         Promise!OwnerDataActions, OwnerDataActions,
         Promise!POLICY_ADMINISTRATION_ACTIONS, POLICY_ADMINISTRATION_ACTIONS
<1>2. \A path : Promise!is_engine_private(path) <=> is_engine_private(path)
  BY DEF Promise!is_engine_private, is_engine_private
<1> QED
  BY <1>1, <1>2, SameMatch DEF Promise!can_administer_pattern, can_administer_pattern

LEMMA SameWords ==
  /\ \A role : Promise!is_valid_role(role) <=> is_valid_role(role)
  /\ \A held, other : Promise!role_outranks_or_equals(held, other) <=>
                        role_outranks_or_equals(held, other)
  /\ \A path : Promise!IsPattern(path) <=> IsPattern(path)
  /\ \A workspace : Promise!WholeWorkspace(workspace) = WholeWorkspace(workspace)
<1>1. \A role : Promise!is_valid_role(role) <=> is_valid_role(role)
  BY DEF Promise!is_valid_role, is_valid_role, Promise!ROLES, ROLES
<1>2. \A held, other : Promise!role_outranks_or_equals(held, other) <=>
                         role_outranks_or_equals(held, other)
  BY DEF Promise!role_outranks_or_equals, role_outranks_or_equals, Promise!RolePrivilege,
         RolePrivilege, Promise!ROLES, ROLES
<1>3. \A path : Promise!IsPattern(path) <=> IsPattern(path)
  BY DEF Promise!IsPattern, IsPattern, Promise!IsPatternShape, IsPatternShape,
         Promise!is_engine_private, is_engine_private
<1>4. \A workspace : Promise!WholeWorkspace(workspace) = WholeWorkspace(workspace)
  BY DEF Promise!WholeWorkspace, WholeWorkspace
<1> QED
  BY <1>1, <1>2, <1>3, <1>4

\* What a document says: the access it gives.
Says(p) == [workspace |-> p.workspace, principal |-> p.principal, role |-> p.role,
            pattern |-> p.pattern]

\* The documents that show, and the access list they make.
Shown == {p \in policies : ~Founding(p.workspace)}
List  == Access(Shown)

LEMMA ListSays ==
  /\ List = {Says(p) : p \in Shown}
  /\ List' = {Says(p) : p \in Shown'}
BY DEF List, Access, Says, Shown

\* Documents that say the same are the same.
LEMMA SaidOnce ==
  ASSUME SerialInv, NEW p \in policies, NEW q \in policies,
         p.workspace = q.workspace, p.principal = q.principal, p.pattern = q.pattern
  PROVE  p = q
BY DEF SerialInv, GrantsInv, RacingInv, StoreInv, DocumentsInv, NoDuplicatePolicy

\* A workspace is being founded by the only caller, or by nobody.
LEMMA FoundingIs ==
  ASSUME Serial, NEW c \in Caller
  PROVE  /\ \A w : Founding(w) <=> Creating(c) /\ call[c].members # <<>>
                                   /\ call[c].workspace = w
         /\ \A w : Founding(w)' <=> Creating(c)' /\ call'[c].members # <<>>
                                    /\ call'[c].workspace = w
BY NobodyElse DEF Founding, Creating

\* When nobody founds anything, every document shows.
LEMMA AllShown ==
  ASSUME Serial, NEW c \in Caller
  PROVE  /\ ~Creating(c) \/ call[c].members = <<>> => Shown = policies
         /\ ~Creating(c)' \/ call'[c].members = <<>> => Shown' = policies'
BY FoundingIs DEF Shown

LEMMA SaysEntry ==
  ASSUME NEW p \in Policy
  PROVE  Says(p) \in Promise!Entry
BY DEF Says, Policy, Promise!Entry, Path, Promise!Path

\* What the actor may do by the documents, it may do by the list.
LEMMA MayAdminister ==
  ASSUME NEW c \in Caller, Shown = policies, NEW pattern, MayGrant(c, pattern),
         Lower[call[c].actor] = call[c].actor
  PROVE  Promise!Administers(call[c].actor, call[c].workspace, pattern)
<1>1. PICK p \in policies :
        /\ p.workspace = call[c].workspace /\ p.principal = call[c].actor
        /\ action_allowed_for_role(p.role, "GRANT")
        /\ resource_matches(pattern, p.pattern)
  BY DEF MayGrant, can_administer_pattern, list_policies_for_principal, list_policies
<1>2. pattern # <<>> /\ ~is_engine_private(pattern)
  BY DEF MayGrant, can_administer_pattern
<1>3. /\ Says(p) \in List /\ Says(p).workspace = p.workspace
      /\ Says(p).principal = p.principal /\ Says(p).role = p.role
      /\ Says(p).pattern = p.pattern
  BY ListSays DEF Says
<1>4. can_administer_pattern({e \in List : e.workspace = call[c].workspace
                                           /\ e.principal = call[c].actor},
                             call[c].actor, pattern)
  BY <1>1, <1>2, <1>3 DEF can_administer_pattern
<1>5. {e \in Promise!In(call[c].workspace) : e.principal = call[c].actor} =
        {e \in List : e.workspace = call[c].workspace /\ e.principal = call[c].actor}
  BY DEF Promise!In, List, Shown
<1> QED
  BY <1>4, <1>5, SameAdministration DEF Promise!Administers

\* What conflicts with no document is needed in the list.
LEMMA ClearIsNeeded ==
  ASSUME SerialInv, NEW c \in Caller, Shown = policies, NEW e, NEW besides, NEW ids,
         Clear(c, e.principal, ids), Lower[e.principal] = e.principal,
         e.workspace = call[c].workspace, e.pattern = call[c].pattern, e.role = call[c].role,
         \A p \in policies : p.workspace = e.workspace /\ p.id \in ids => Says(p) \in besides
  PROVE  Promise!Needed(e, besides)
<1>1. SUFFICES ASSUME NEW f \in List, f.workspace = e.workspace, f \notin besides,
                      f.principal = e.principal
               PROVE  /\ f.pattern # e.pattern
                      /\ ~(resource_matches(e.pattern, f.pattern)
                           /\ role_outranks_or_equals(f.role, e.role))
  BY SameMatch, SameWords DEF Promise!Needed, Promise!In, List, Shown
<1>2. PICK p \in policies : f = Says(p)
  BY <1>1, ListSays
<1>3. /\ p.workspace = f.workspace /\ p.principal = f.principal /\ p.role = f.role
      /\ p.pattern = f.pattern
  BY <1>2 DEF Says
<1>4. /\ p \in list_policies_for_principal(call[c].workspace, Lower[e.principal])
      /\ p.id \notin ids
  BY <1>1, <1>2, <1>3 DEF list_policies_for_principal, list_policies
<1> QED
  BY <1>1, <1>3, <1>4 DEF Clear, find_conflict

\* grant adds its entry to the list.
LEMMA GrantCreateGives ==
  ASSUME Serial, SerialInv, NEW c \in Caller, GrantCreate(c)
  PROVE  Promise!Give(call[c].actor) /\ call[c].actor \in Name
<1>k. PICK k : k = call[c]
  OBVIOUS
<1>new. PICK new : new = [id |-> nextId, workspace |-> k.workspace, principal |-> k.principal,
                          role |-> k.role, pattern |-> k.pattern, updated_by |-> k.actor]
  OBVIOUS
<1>1. /\ pc[c] = "grant_create" /\ k \in Call /\ k.op = "grant"
      /\ Lower[k.principal] # k.actor /\ IsPattern(k.pattern)
      /\ StandsInv(c) /\ nextId \in Nat /\ policies \subseteq Policy
      /\ DOMAIN pc = Caller /\ DOMAIN call = Caller
  BY <1>k DEF GrantCreate, SerialInv, GrantsInv, RacingInv, CallInv, Granting, TypeOK, PolicyStoreTypeOK
<1>2. /\ Lower[k.actor] = k.actor /\ Lower[k.principal] = k.principal
      /\ is_valid_role(k.role) /\ MayGrant(c, k.pattern) /\ Clear(c, k.principal, {})
  BY <1>1, <1>k DEF StandsInv, Granting, Authorized
<1>3. /\ policies' = policies \union {new}
      /\ pc'[c] = "record_created" /\ call'[c].op = "grant"
  BY <1>1, <1>k, <1>new DEF GrantCreate, create_policy, Goto, Call
<1>4. ~Creating(c) /\ ~Creating(c)'
  BY <1>1, <1>3, <1>k DEF Creating
<1>5. Shown = policies /\ Shown' = policies'
  BY <1>4, AllShown
<1>6. List' = List \union {Says(new)}
  BY <1>3, <1>5, ListSays
<1>7. /\ Says(new).workspace = k.workspace /\ Says(new).principal = k.principal
      /\ Says(new).role = k.role /\ Says(new).pattern = k.pattern
      /\ new \in Policy
  BY <1>1, <1>new DEF Says, Call, Policy
<1>8. Promise!Needed(Says(new), {})
  BY <1>1, <1>2, <1>5, <1>7, <1>k, ClearIsNeeded
<1>9. Says(new) \notin List
  BY <1>8 DEF Promise!Needed, Promise!In, List, Shown
<1>10. Promise!Administers(k.actor, k.workspace, k.pattern)
  BY <1>2, <1>5, <1>k, MayAdminister
<1>11. Says(new) \in Promise!Appeared
  BY <1>6, <1>9 DEF Promise!Appeared, List, Shown
<1>12. List' = Access({p \in policies : ~Founding(p.workspace)})'
  BY DEF List, Shown
<1>13. List = Access({p \in policies : ~Founding(p.workspace)})
  BY DEF List, Shown
<1>14. /\ Says(new) \in Promise!Entry /\ Promise!is_valid_role(Says(new).role)
       /\ Promise!IsPattern(Says(new).pattern) /\ k.actor # Says(new).principal
       /\ Promise!Administers(k.actor, Says(new).workspace, Says(new).pattern)
  BY <1>1, <1>2, <1>7, <1>10, SaysEntry, SameWords
<1>15. k.actor \in Name
  BY <1>1 DEF Call
<1> QED
  BY <1>6, <1>8, <1>11, <1>12, <1>13, <1>14, <1>15, <1>k DEF Promise!Give

\* An update that says something new replaces the old entry by the new one.
LEMMA UpdateWriteAlters ==
  ASSUME Serial, SerialInv, NEW c \in Caller, UpdateWrite(c)
  PROVE  List' = List \/ (Promise!Alter(call[c].actor) /\ call[c].actor \in Name)
<1>k. PICK k : k = call[c]
  OBVIOUS
<1>was. PICK was : was = seen[c]
  OBVIOUS
<1>new. PICK new : new = [was EXCEPT !.role = k.role, !.pattern = k.pattern,
                                     !.updated_by = k.actor]
  OBVIOUS
<1>1. /\ pc[c] = "update_write" /\ Goto(c, "record_updated") /\ UNCHANGED call
      /\ policies' = (policies \ {was}) \union {new}
  BY <1>k, <1>was, <1>new, WhatIsWritten
<1>2. /\ k \in Call /\ was \in policies /\ was \in Policy
      /\ was.workspace = k.workspace /\ was.id = k.id
      /\ Lower[was.principal] = was.principal /\ was.principal # k.actor
      /\ Lower[k.actor] = k.actor /\ MayGrant(c, was.pattern)
  BY <1>1, <1>k, <1>was, ReadStands
<1>3. /\ is_valid_role(k.role) /\ MayGrant(c, k.pattern) /\ Clear(c, was.principal, {k.id})
      /\ IsPattern(k.pattern) /\ DOMAIN pc = Caller
  BY <1>1, <1>k, <1>was
  DEF SerialInv, GrantsInv, RacingInv, TypeOK, StandsInv, CallInv, Authorized, Updating
<1>4. pc'[c] = "record_updated"
  BY <1>1, <1>3 DEF Goto
<1>5. Shown = policies /\ Shown' = policies'
  BY <1>1, <1>4, AllShown DEF Creating
<1>6. /\ Says(new).workspace = was.workspace /\ Says(new).principal = was.principal
      /\ Says(new).role = k.role /\ Says(new).pattern = k.pattern
      /\ Says(was).workspace = was.workspace /\ Says(was).principal = was.principal
      /\ Says(was).pattern = was.pattern
      /\ new \in Policy
  BY <1>2, <1>new DEF Says, Policy, Call
<1>7. \A p \in policies : Says(p) = Says(was) => p = was
  BY <1>2, SaidOnce DEF Says
<1>8. List' = (List \ {Says(was)}) \union {Says(new)}
  BY <1>1, <1>2, <1>5, <1>7, ListSays
<1>9. Promise!Needed(Says(new), {Says(was)})
  <2>1. \A p \in policies : p.workspace = was.workspace /\ p.id \in {k.id} =>
          Says(p) \in {Says(was)}
    BY <1>2 DEF SerialInv, GrantsInv, RacingInv, StoreInv
  <2> QED
    BY <1>2, <1>3, <1>5, <1>6, <1>k, <2>1, ClearIsNeeded
<1>10. Says(was) \in List
  BY <1>2, <1>5, ListSays
<1>11. CASE Says(new) = Says(was)
  BY <1>8, <1>10, <1>11
<1>12. CASE Says(new) # Says(was)
  <2>1. Says(new) \notin List
    BY <1>9, <1>12 DEF Promise!Needed, Promise!In, List, Shown
  <2>2. /\ Says(new) \in Promise!Appeared /\ Says(was) \in Promise!Gone
    BY <1>8, <1>10, <1>12, <2>1 DEF Promise!Appeared, Promise!Gone, List, Shown
  <2>3. /\ Promise!Administers(k.actor, was.workspace, was.pattern)
        /\ Promise!Administers(k.actor, was.workspace, k.pattern)
    BY <1>2, <1>3, <1>5, <1>k, MayAdminister
  <2>4. /\ Says(new) \in Promise!Entry /\ Promise!is_valid_role(Says(new).role)
        /\ Promise!IsPattern(Says(new).pattern)
    BY <1>3, <1>6, SaysEntry, SameWords
  <2>5. /\ List' = Access({p \in policies : ~Founding(p.workspace)})'
        /\ List = Access({p \in policies : ~Founding(p.workspace)})
    BY DEF List, Shown
  <2>6. k.actor \in Name
    BY <1>2 DEF Call
  <2> QED
    BY <1>2, <1>6, <1>8, <1>9, <2>2, <2>3, <2>4, <2>5, <2>6, <1>k DEF Promise!Alter
<1> QED
  BY <1>11, <1>12

\* A revocation takes its entry away.
LEMMA RevokeDeleteTakes ==
  ASSUME Serial, SerialInv, NEW c \in Caller, RevokeDelete(c)
  PROVE  Promise!Take(call[c].actor) /\ call[c].actor \in Name
<1>k. PICK k : k = call[c]
  OBVIOUS
<1>was. PICK was : was = seen[c]
  OBVIOUS
<1>1. /\ pc[c] = "revoke_delete" /\ Goto(c, "record_deleted") /\ UNCHANGED call
      /\ policies' = policies \ {was}
  BY <1>k, <1>was, WhatIsWritten
<1>2. /\ k \in Call /\ was \in policies /\ was \in Policy
      /\ was.workspace = k.workspace /\ was.principal # k.actor
      /\ Lower[k.actor] = k.actor /\ MayGrant(c, was.pattern)
  BY <1>1, <1>k, <1>was, ReadStands
<1>3. DOMAIN pc = Caller
  BY DEF SerialInv, GrantsInv, RacingInv, TypeOK
<1>4. pc'[c] = "record_deleted"
  BY <1>1, <1>3 DEF Goto
<1>5. Shown = policies /\ Shown' = policies'
  BY <1>1, <1>4, AllShown DEF Creating
<1>6. /\ Says(was).workspace = was.workspace /\ Says(was).principal = was.principal
      /\ Says(was).pattern = was.pattern
  BY DEF Says
<1>7. \A p \in policies : Says(p) = Says(was) => p = was
  BY <1>2, SaidOnce DEF Says
<1>8. List' = List \ {Says(was)} /\ Says(was) \in List
  BY <1>1, <1>2, <1>5, <1>7, ListSays
<1>9. Says(was) \in Promise!Gone
  BY <1>8 DEF Promise!Gone, List, Shown
<1>10. Promise!Administers(k.actor, was.workspace, was.pattern)
  BY <1>2, <1>5, <1>k, MayAdminister
<1>11. /\ List' = Access({p \in policies : ~Founding(p.workspace)})'
       /\ List = Access({p \in policies : ~Founding(p.workspace)})
  BY DEF List, Shown
<1>12. k.actor \in Name
  BY <1>2 DEF Call
<1> QED
  BY <1>2, <1>6, <1>8, <1>9, <1>10, <1>11, <1>12, <1>k DEF Promise!Take

\* The documents of a bootstrap show together, with the last of them.
LEMMA BootstrapCreateFounds ==
  ASSUME Serial, SerialInv, SerialInv', NEW c \in Caller, BootstrapCreate(c)
  PROVE  List' = List \/ (Promise!Found(call[c].workspace) /\ call[c].workspace \in Name)
<1>w. PICK w : w = call[c].workspace
  OBVIOUS
<1>new. PICK new : new = [id |-> nextId, workspace |-> w,
                          principal |-> Head(call[c].members).principal,
                          role |-> Head(call[c].members).role, pattern |-> call[c].pattern,
                          updated_by |-> call[c].actor]
  OBVIOUS
<1>1. /\ pc[c] = "bootstrap_create" /\ call[c] \in Call /\ call[c].op = "bootstrap"
      /\ call[c].members # <<>> /\ IsPattern(call[c].pattern)
      /\ call[c].pattern = WholeWorkspace(w)
      /\ DOMAIN pc = Caller /\ DOMAIN call = Caller
  BY <1>w DEF BootstrapCreate, SerialInv, GrantsInv, RacingInv, TypeOK, CallInv, Bootstrapping, Founds,
              FoundingInv
<1>2. /\ policies' = policies \union {new}
      /\ pc'[c] = "record_created" /\ call'[c].op = "bootstrap" /\ call'[c].workspace = w
      /\ call'[c].pattern = call[c].pattern
  BY <1>1, <1>w, <1>new DEF BootstrapCreate, create_policy, Goto, Call
<1>3. Creating(c) /\ Creating(c)'
  BY <1>1, <1>2 DEF Creating
<1>4. /\ \A v : Founding(v) <=> v = w
      /\ \A v : Founding(v)' <=> call'[c].members # <<>> /\ v = w
  BY <1>1, <1>2, <1>3, <1>w, FoundingIs
<1>5. Shown = {p \in policies : p.workspace # w}
  BY <1>4 DEF Shown
<1>6. new.workspace = w
  BY <1>new
<1>7. CASE call'[c].members # <<>>
  <2>1. Shown' = {p \in policies' : p.workspace # w}
    BY <1>4, <1>7 DEF Shown
  <2>2. Shown' = Shown
    BY <1>2, <1>5, <1>6, <2>1
  <2> QED
    BY <2>2 DEF List
<1>8. CASE call'[c].members = <<>>
  <2>1. Shown' = policies'
    BY <1>8, AllShown
  <2>mine. PICK mine : mine = {p \in policies' : p.workspace = w}
    OBVIOUS
  <2>2. policies' = Shown \union mine
    BY <1>2, <1>5, <1>6, <2>mine
  <2>3. List' = List \union {Says(p) : p \in mine}
    BY <2>1, <2>2, ListSays
  <2>4. /\ \A e \in List : e.workspace # w
        /\ \A p \in mine : Says(p).workspace = w
    BY <1>5, <2>mine, ListSays DEF Says
  <2>5. /\ List' = Access({p \in policies : ~Founding(p.workspace)})'
        /\ List = Access({p \in policies : ~Founding(p.workspace)})
    BY DEF List, Shown
  <2>6. /\ Promise!In(w) = {} /\ Promise!Gone = {}
        /\ Promise!Appeared = {Says(p) : p \in mine}
    <3>1. Promise!In(w) = {}
      BY <2>4, <2>5 DEF Promise!In
    <3>2. Promise!Gone = {}
      BY <2>3, <2>5 DEF Promise!Gone
    <3>3. Promise!Appeared = {Says(p) : p \in mine}
      BY <2>3, <2>4, <2>5 DEF Promise!Appeared
    <3> QED
      BY <3>1, <3>2, <3>3
  <2>7. /\ policies' \subseteq Policy
        /\ \A p \in mine : p.pattern = WholeWorkspace(w) /\ is_valid_role(p.role)
        /\ OwnerToCome(call'[c].members) \/ Owned(w)'
    <3>1. FoundingInv(c)' /\ policies' \subseteq Policy
      BY DEF SerialInv, GrantsInv, RacingInv, TypeOK, PolicyStoreTypeOK
    <3>2. mine = list_policies(w)'
      BY <2>mine DEF list_policies
    <3> QED
      BY <1>1, <1>2, <1>3, <3>1, <3>2 DEF FoundingInv
  <2>8. ~OwnerToCome(call'[c].members)
    BY <1>8 DEF OwnerToCome
  <2>9. PICK p \in mine : p.role = "owner"
    BY <2>7, <2>8, <2>mine DEF Owned, WholeOwner
  <2>10. \E e \in {Says(q) : q \in mine} : e.role = "owner"
    <3>1. Says(p).role = "owner" /\ Says(p) \in {Says(q) : q \in mine}
      BY <2>9 DEF Says
    <3> QED
      BY <3>1
  <2>11. \A p1, q \in mine : Says(p1).principal = Says(q).principal => Says(p1) = Says(q)
    <3>1. \A p1, q \in mine : p1.principal = q.principal => p1 = q
      BY <2>7, <2>mine DEF SerialInv, GrantsInv, RacingInv, StoreInv, DocumentsInv, NoDuplicatePolicy
    <3> QED
      BY <3>1 DEF Says
  <2>12. Promise!OneEntryEach({Says(q) : q \in mine})
    BY <2>11 DEF Promise!OneEntryEach
  <2>13. \A q \in mine : /\ Says(q) \in Promise!Entry /\ Says(q).workspace = w
                         /\ Says(q).pattern = WholeWorkspace(w) /\ is_valid_role(Says(q).role)
    <3>1. \A q \in mine : /\ Says(q).pattern = q.pattern /\ Says(q).role = q.role
                          /\ q \in Policy
      BY <2>7, <2>mine DEF Says
    <3> QED
      BY <2>4, <2>7, <3>1, SaysEntry
  <2>14. IsPattern(WholeWorkspace(w)) /\ w \in Name
    BY <1>1, <1>w DEF Call
  <2>15. /\ {Says(q) : q \in mine} \subseteq Promise!Entry
         /\ \A e \in {Says(q) : q \in mine} :
              /\ e.workspace = w
              /\ e.pattern = Promise!WholeWorkspace(w)
              /\ Promise!is_valid_role(e.role)
         /\ Promise!IsPattern(Promise!WholeWorkspace(w))
    BY <2>13, <2>14, SameWords
  <2> QED
    BY <2>6, <2>10, <2>12, <2>14, <2>15, <1>w DEF Promise!Found
<1> QED
  BY <1>7, <1>8

\* What leaves the documents alone leaves the list alone: a workspace is empty
\* when its bootstrap begins, and complete when it ends.
LEMMA OtherStepsStutter ==
  ASSUME Serial, SerialInv, [Next]_vars, UNCHANGED policies
  PROVE  List' = List
<1>1. CASE UNCHANGED vars \/ Done
  BY <1>1 DEF vars, local, store, Done, List, Shown, Founding
<1>2. ASSUME NEW c \in Caller, Begin(c) \/ Step(c)
      PROVE  List' = List
  <2>1. /\ DOMAIN pc = Caller /\ DOMAIN call = Caller /\ CallInv(c, {}, {}) /\ NoCall \notin Call
    BY GrantsAssumption DEF SerialInv, GrantsInv, RacingInv, TypeOK
  <2>2. CASE BootstrapCheckVacant(c) /\ ~has_any_policies(call[c].workspace)
    <3>1. /\ ~Creating(c) /\ call' = call
          /\ \A p \in policies : p.workspace # call[c].workspace
      BY <2>2 DEF BootstrapCheckVacant, Creating, has_any_policies, list_policies
    <3>2. Shown = policies
      BY <3>1, AllShown
    <3>3. \A p \in policies' : ~Founding(p.workspace)'
      BY <3>1, FoundingIs
    <3>4. Shown' = policies'
      BY <3>3 DEF Shown
    <3> QED
      BY <3>2, <3>4 DEF List
  <2>3. CASE RecordCreated(c) /\ call[c].op = "bootstrap" /\ call[c].members # <<>>
    <3>1. /\ Creating(c) /\ Creating(c)' /\ call' = call
      BY <2>1, <2>3 DEF RecordCreated, Creating, Goto
    <3>2. \A v : Founding(v)' <=> Founding(v)
      BY <3>1, FoundingIs
    <3>3. Shown' = Shown
      BY <3>2 DEF Shown
    <3> QED
      BY <3>3 DEF List
  <2>4. CASE ~(BootstrapCheckVacant(c) /\ ~has_any_policies(call[c].workspace))
             /\ ~(RecordCreated(c) /\ call[c].op = "bootstrap" /\ call[c].members # <<>>)
             /\ ~BootstrapCreate(c) /\ ~GrantCreate(c)
    <3>1. ~Creating(c) \/ call[c].members = <<>>
      <4>1. CASE pc[c] = "bootstrap_create"
        BY <4>1, <1>2, <2>4
        DEF Begin, Step, GrantAuthorize, GrantCheckConflict, GrantCreate,
            UpdateGet, UpdateAuthorize, UpdateCheckConflict, UpdateWrite,
            RevokeGet, RevokeAuthorize, RevokeDelete, ResolveAuthorize, ResolveMatch,
            BootstrapCheckVacant, RecordCreated, RecordUpdated, RecordDeleted
      <4>2. CASE pc[c] = "record_created"
        <5>1. RecordCreated(c)
          BY <4>2, <1>2, <2>4
          DEF Begin, Step, GrantAuthorize, GrantCheckConflict, GrantCreate,
              UpdateGet, UpdateAuthorize, UpdateCheckConflict, UpdateWrite,
              RevokeGet, RevokeAuthorize, RevokeDelete, ResolveAuthorize, ResolveMatch,
              BootstrapCheckVacant, RecordUpdated, RecordDeleted
        <5> QED
          BY <5>1, <2>4 DEF Creating
      <4> QED
        BY <4>1, <4>2 DEF Creating
    <3>2. pc'[c] \notin {"bootstrap_create", "record_created"}
      <4>1. CASE Begin(c)
        <5>1. PICK r \in Call : Enter(c, r)
          BY <4>1, GrantsAssumption DEF Begin
        <5>2. FirstStoreCall(r.op) \notin {"bootstrap_create", "record_created"}
          BY DEF FirstStoreCall, Call
        <5> HIDE DEF FirstStoreCall
        <5> QED
          BY <5>1, <5>2, <2>1 DEF Enter, Return, Goto
      <4>2. CASE Step(c)
        BY <4>2, <2>1, <2>4
        DEF Step, GrantAuthorize, GrantCheckConflict, UpdateGet, UpdateAuthorize,
            UpdateCheckConflict, UpdateWrite, RevokeGet, RevokeAuthorize, RevokeDelete,
            ResolveAuthorize, ResolveMatch, BootstrapCheckVacant, RecordCreated, RecordUpdated,
            RecordDeleted, Authorize, CheckConflict, Fetch, Return, Goto
      <4> QED
        BY <1>2, <4>1, <4>2
    <3>3. Shown = policies /\ Shown' = policies'
      BY <3>1, <3>2, AllShown DEF Creating
    <3> QED
      BY <3>3 DEF List
  <2>5. ~BootstrapCreate(c) /\ ~GrantCreate(c)
    <3>1. policies \subseteq Policy /\ nextId \in Nat /\ \A p \in policies : p.id # nextId
      BY DEF SerialInv, GrantsInv, RacingInv, TypeOK, PolicyStoreTypeOK, StoreInv, Policy
    <3>2. ASSUME BootstrapCreate(c) \/ GrantCreate(c)
          PROVE  \E new \in policies' : new.id = nextId
      <4>1. PICK workspace, principal, role, pattern, actor :
              create_policy(workspace, principal, role, pattern, actor)
        BY <3>2 DEF BootstrapCreate, GrantCreate
      <4>2. PICK new : new = [id |-> nextId, workspace |-> workspace, principal |-> principal,
                              role |-> role, pattern |-> pattern, updated_by |-> actor]
        OBVIOUS
      <4>3. new \in policies'
        BY <4>1, <4>2 DEF create_policy
      <4> QED
        BY <4>2, <4>3
    <3> QED
      BY <3>1, <3>2
  <2> QED
    BY <2>2, <2>3, <2>4, <2>5
<1> QED
  BY <1>1, <1>2 DEF Next, Abort, Serial

\* The list begins with the documents there are.
LEMMA ListInitially ==
  ASSUME Init
  PROVE  List = Access(Genesis)
<1>1. \A w : ~Founding(w)
  BY DEF Init, Founding
<1>2. Shown = Genesis
  BY <1>1 DEF Init, Shown
<1> QED
  BY <1>2 DEF List

\* One caller at a time, the operations implement the access list: every behaviour
\* of the program, seen through the documents that show, is one of the list.
THEOREM ListImplemented ==
  ASSUME Serial
  PROVE  Spec => ImplementsAccessList
<1>1. Init => Promise!Init
  BY ListInitially DEF Promise!Init, List, Shown
<1>2. SerialInv /\ SerialInv' /\ [Next]_vars =>
        [Promise!Next]_(Access({p \in policies : ~Founding(p.workspace)}))
  <2>1. SUFFICES ASSUME SerialInv, SerialInv', [Next]_vars
                 PROVE  Promise!Next \/ List' = List
    BY DEF List, Shown
  <2>2. CASE UNCHANGED policies
    BY <2>1, <2>2, OtherStepsStutter
  <2>3. ASSUME NEW c \in Caller,
               GrantCreate(c) \/ BootstrapCreate(c) \/ UpdateWrite(c) \/ RevokeDelete(c)
        PROVE  Promise!Next \/ List' = List
    BY <2>1, <2>3, GrantCreateGives, UpdateWriteAlters, RevokeDeleteTakes, BootstrapCreateFounds
    DEF Promise!Next
  <2> QED
    BY <2>1, <2>2, <2>3, WhatWrites
<1> QED
  BY <1>1, <1>2, SerialInvHolds, PTL DEF Spec, ImplementsAccessList, Promise!Spec
===========================================================================
