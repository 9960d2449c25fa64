------------------------- MODULE CapabilityProofs -------------------------
(***************************************************************************)
(* The inductive invariant of Capability, for any sessions, statements and *)
(* sequence of compactors, and what the listings agree on.                 *)
(***************************************************************************)
EXTENDS CapabilityInvariant, GrantsProofs, AccessProofs

(***************************************************************************)
(* How a step of Grants moves the call it is a step of.                    *)
(***************************************************************************)
\* The call asks for what it asked for.
SameCall(c) ==
  /\ call'[c].op = call[c].op
  /\ call'[c].principal = call[c].principal
  /\ call'[c].role = call[c].role
  /\ call'[c].pattern = call[c].pattern
  /\ call'[c].workspace = call[c].workspace

Moves(c) ==
  /\ Alone(c)
  /\ pc'[c] # "idle" => SameCall(c)
  /\ pc'[c] \in Granting => pc[c] \in Granting

LEMMA ReturnMoves ==
  ASSUME TypeOK, NEW c \in Caller, NEW result, Return(c, result)
  PROVE  Moves(c) /\ pc'[c] = "idle"
<1>1. Alone(c)
  BY DEF TypeOK, Return, Alone
<1>2. pc'[c] = "idle"
  BY DEF TypeOK, Return
<1> QED
  BY <1>1, <1>2 DEF Moves, Granting

LEMMA GotoMoves ==
  ASSUME TypeOK, NEW c \in Caller, NEW at, Goto(c, at), UNCHANGED <<call, seen>>,
         at \in Granting => pc[c] \in Granting
  PROVE  Moves(c)
<1>1. Alone(c) /\ SameCall(c) /\ pc'[c] = at
  BY DEF TypeOK, Goto, Alone, SameCall
<1> QED
  BY <1>1 DEF Moves

\* The steps that read move the call and leave history alone.
LEMMA ReadingMoves ==
  ASSUME GrantsInv, NEW c \in Caller,
         \/ GrantAuthorize(c) \/ GrantCheckConflict(c)
         \/ UpdateGet(c) \/ UpdateAuthorize(c) \/ UpdateCheckConflict(c)
         \/ RevokeGet(c) \/ RevokeAuthorize(c) \/ ResolveAuthorize(c) \/ ResolveMatch(c)
         \/ BootstrapCheckVacant(c)
  PROVE  Moves(c) /\ UNCHANGED history
<1>1. TypeOK
  BY DEF GrantsInv, RacingInv
<1>2. ASSUME NEW patterns, NEW granted, Authorize(c, patterns, granted),
             granted \in Granting => pc[c] \in Granting
      PROVE  Moves(c) /\ UNCHANGED history
  BY <1>1, <1>2, ReturnMoves, GotoMoves DEF Authorize, ReadOnly
<1>3. ASSUME NEW principal, NEW besides, NEW clear, CheckConflict(c, principal, besides, clear),
             clear \in Granting => pc[c] \in Granting
      PROVE  Moves(c) /\ UNCHANGED history
  BY <1>1, <1>3, ReturnMoves, GotoMoves DEF CheckConflict, ReadOnly
<1>4. ASSUME NEW found_at, Fetch(c, found_at), found_at \notin Granting
      PROVE  Moves(c) /\ UNCHANGED history
  <2>1. ASSUME NEW p, seen' = [seen EXCEPT ![c] = p], Goto(c, found_at), UNCHANGED call
        PROVE  Moves(c)
    <3>1. Alone(c) /\ SameCall(c) /\ pc'[c] = found_at
      BY <1>1, <2>1 DEF TypeOK, Goto, Alone, SameCall
    <3> QED
      BY <1>4, <3>1 DEF Moves
  <2> QED
    BY <1>1, <1>4, <2>1, ReturnMoves DEF Fetch, ReadOnly
<1>5. ASSUME GrantAuthorize(c) PROVE Moves(c) /\ UNCHANGED history
  BY <1>2, <1>5 DEF GrantAuthorize, Granting
<1>6. ASSUME UpdateAuthorize(c) PROVE Moves(c) /\ UNCHANGED history
  BY <1>2, <1>6 DEF UpdateAuthorize, Granting
<1>7. ASSUME RevokeAuthorize(c) PROVE Moves(c) /\ UNCHANGED history
  BY <1>2, <1>7 DEF RevokeAuthorize, Granting
<1>8. ASSUME ResolveAuthorize(c) PROVE Moves(c) /\ UNCHANGED history
  BY <1>2, <1>8 DEF ResolveAuthorize, Granting
<1>9. ASSUME GrantCheckConflict(c) \/ UpdateCheckConflict(c)
      PROVE  Moves(c) /\ UNCHANGED history
  BY <1>3, <1>9 DEF GrantCheckConflict, UpdateCheckConflict, Granting
<1>10. ASSUME UpdateGet(c) \/ RevokeGet(c) PROVE Moves(c) /\ UNCHANGED history
  BY <1>4, <1>10 DEF UpdateGet, RevokeGet, Granting
<1>11. ASSUME ResolveMatch(c) PROVE Moves(c) /\ UNCHANGED history
  <2>1. ASSUME NEW p, call' = [call EXCEPT ![c].id = p.id], Goto(c, "revoke_get"), UNCHANGED seen
        PROVE  Moves(c)
    <3>1. call[c] \in Call
      BY <1>11 DEF ResolveMatch, GrantsInv, RacingInv, CallInv
    <3>2. call'[c] = [call[c] EXCEPT !.id = p.id]
      BY <1>1, <2>1 DEF TypeOK
    <3>3. SameCall(c)
      BY <3>1, <3>2 DEF SameCall, Call
    <3>4. Alone(c) /\ pc'[c] = "revoke_get"
      BY <1>1, <2>1 DEF TypeOK, Goto, Alone
    <3> QED
      BY <3>3, <3>4 DEF Moves, Granting
  <2> QED
    BY <1>1, <1>11, <2>1, ReturnMoves DEF ResolveMatch, ReadOnly
<1>12. ASSUME BootstrapCheckVacant(c) PROVE Moves(c) /\ UNCHANGED history
  BY <1>1, <1>12, ReturnMoves, GotoMoves DEF BootstrapCheckVacant, ReadOnly, Granting
<1> QED
  BY <1>5, <1>6, <1>7, <1>8, <1>9, <1>10, <1>11, <1>12

\* What a write has to do with the call that makes it.
Tells(c, h) ==
  /\ h.event # "policy.deleted" => HasAuthority(c, {}) /\ h.pattern = call[c].pattern
  /\ h.event = "policy.created" =>
       /\ pc[c] \in Granting
       /\ h.principal = call[c].principal
       /\ h.role = call[c].role
       /\ h.workspace = call[c].workspace

Writes(c) == UNCHANGED history \/ \E h \in Change : history' = Append(history, h) /\ Tells(c, h)

LEMMA GrantCreateMoves ==
  ASSUME GrantsInv, NEW c \in Caller, GrantCreate(c)
  PROVE  Moves(c) /\ Writes(c)
<1> DEFINE k == [call[c] EXCEPT !.id = nextId]
           h == Created(k)
<1>1. /\ TypeOK /\ pc[c] = "grant_create" /\ history' = Append(history, h)
      /\ call' = [call EXCEPT ![c] = k] /\ Goto(c, "record_created") /\ UNCHANGED seen
  BY DEF GrantCreate, GrantsInv, RacingInv
<1>2. call[c] \in Call /\ HasAuthority(c, {}) /\ nextId \in Nat
  BY <1>1 DEF GrantsInv, RacingInv, CallInv, Authorized, TypeOK, PolicyStoreTypeOK
<1>3. /\ k \in Call /\ k.op = call[c].op /\ k.principal = call[c].principal
      /\ k.role = call[c].role /\ k.pattern = call[c].pattern
      /\ k.workspace = call[c].workspace
  BY <1>2 DEF Call
<1>4. h \in Change
  BY <1>3, RecordTypes
<1>5. h.pattern = k.pattern /\ h.principal = k.principal /\ h.role = k.role
      /\ h.workspace = k.workspace
  BY DEF Created
<1> HIDE DEF k, h
<1>6. call'[c] = k /\ pc'[c] = "record_created" /\ Alone(c)
  BY <1>1 DEF TypeOK, Goto, Alone
<1>7. Moves(c)
  BY <1>3, <1>6 DEF Moves, SameCall, Granting
<1>8. Tells(c, h)
  BY <1>1, <1>2, <1>3, <1>5 DEF Tells, Granting
<1> QED
  BY <1>1, <1>4, <1>7, <1>8 DEF Writes

LEMMA UpdateWriteMoves ==
  ASSUME GrantsInv, NEW c \in Caller, UpdateWrite(c)
  PROVE  Moves(c) /\ Writes(c)
<1>1. TypeOK /\ pc[c] = "update_write"
  BY DEF UpdateWrite, GrantsInv, RacingInv
<1>2. call[c] \in Call /\ HasAuthority(c, {})
  BY <1>1 DEF GrantsInv, RacingInv, CallInv, Authorized
<1>3. CASE Return(c, "BackendError") /\ UNCHANGED <<store, history>>
  BY <1>1, <1>3, ReturnMoves DEF Writes
<1>4. ASSUME NEW p \in get_policy(call[c].workspace, call[c].id),
             history' = Append(history, Updated(call[c], p)),
             Goto(c, "record_updated"), UNCHANGED <<call, seen>>
      PROVE  Moves(c) /\ Writes(c)
  <2>1. p \in Policy
    BY <1>1 DEF get_policy, list_policies, TypeOK, PolicyStoreTypeOK
  <2>2. Updated(call[c], p) \in Change
    BY <1>2, <2>1, RecordTypes
  <2>3. Tells(c, Updated(call[c], p))
    BY <1>2 DEF Tells, Updated
  <2>4. Moves(c)
    BY <1>1, <1>4, GotoMoves DEF Granting
  <2> QED
    BY <1>4, <2>2, <2>3, <2>4 DEF Writes
<1> QED
  BY <1>3, <1>4 DEF UpdateWrite

LEMMA RevokeDeleteMoves ==
  ASSUME GrantsInv, NEW c \in Caller, RevokeDelete(c)
  PROVE  Moves(c) /\ Writes(c)
<1>1. TypeOK /\ call[c] \in Call
  BY DEF RevokeDelete, GrantsInv, RacingInv, CallInv
<1>2. Moves(c)
  BY <1>1, GotoMoves DEF RevokeDelete, Granting
<1>3. ASSUME NEW p \in get_policy(call[c].workspace, call[c].id),
             history' = Append(history, Deleted(call[c], p))
      PROVE  Writes(c)
  <2>1. p \in Policy
    BY <1>1 DEF get_policy, list_policies, TypeOK, PolicyStoreTypeOK
  <2>2. Deleted(call[c], p) \in Change
    BY <1>1, <2>1, RecordTypes
  <2>3. Tells(c, Deleted(call[c], p))
    BY DEF Tells, Deleted
  <2> QED
    BY <1>3, <2>2, <2>3 DEF Writes
<1> QED
  BY <1>2, <1>3 DEF RevokeDelete, Writes

LEMMA RecordMoves ==
  ASSUME GrantsInv, NEW c \in Caller, RecordCreated(c) \/ RecordUpdated(c) \/ RecordDeleted(c)
  PROVE  Moves(c) /\ UNCHANGED history
<1>1. TypeOK
  BY DEF GrantsInv, RacingInv
<1>2. CASE RecordCreated(c)
  BY <1>1, <1>2, ReturnMoves, GotoMoves DEF RecordCreated, Granting
<1>3. CASE RecordUpdated(c) \/ RecordDeleted(c)
  BY <1>1, <1>3, ReturnMoves DEF RecordUpdated, RecordDeleted
<1> QED
  BY <1>2, <1>3

\* Any step of a call that is not a bootstrap.
LEMMA StepMoves ==
  ASSUME GrantsInv, NEW c \in Caller, Step(c), call[c].op # "bootstrap"
  PROVE  Moves(c) /\ Writes(c)
<1>1. ~BootstrapCreate(c)
  BY DEF BootstrapCreate, GrantsInv, RacingInv, CallInv, Bootstrapping, Founds
<1> QED
  BY <1>1, ReadingMoves, GrantCreateMoves, UpdateWriteMoves, RevokeDeleteMoves, RecordMoves
  DEF Step, Writes

(***************************************************************************)
(* Beginning a call.                                                       *)
(***************************************************************************)
LEMMA NormalizedParts ==
  ASSUME NEW r \in Call, r.op # "bootstrap"
  PROVE  /\ Normalized(r).op = r.op
         /\ Normalized(r).principal = Lower[r.principal]
         /\ Normalized(r).role = r.role
         /\ Normalized(r).workspace = Lower[r.workspace]
         /\ Normalized(r).pattern = normalize(r.pattern)
BY DEF Normalized, Call

LEMMA EnterMoves ==
  ASSUME TypeOK, NEW c \in Caller, NEW r, Enter(c, r)
  PROVE  Alone(c) /\ (pc'[c] # "idle" => call'[c] = Normalized(r))
<1>1. CASE Return(c, Refusal(Normalized(r)))
  BY <1>1, ReturnMoves DEF Moves
<1>2. CASE /\ Goto(c, FirstStoreCall(r.op))
           /\ call' = [call EXCEPT ![c] = Normalized(r)]
           /\ UNCHANGED seen
  BY <1>2 DEF TypeOK, Goto, Alone
<1> QED
  BY <1>1, <1>2 DEF Enter

(***************************************************************************)
(* What a step does to the trail, and to the statements of the others.     *)
(***************************************************************************)
LEMMA CompactedOnce ==
  ASSUME era \in Nat, era' \in Nat, era <= era', NEW principal, HasCompacted(principal, era)
  PROVE  HasCompacted(principal, era')
BY DEF HasCompacted

\* Whoever has authority over the bare name of a workspace has a policy on one.
LEMMA BareAuthority ==
  ASSUME GrantsInv, NEW c \in Caller, call[c] \in Call, HasAuthority(c, {}), NoBareName(Held)
  PROVE  Len(call[c].pattern) > 1
<1> DEFINE q == call[c].pattern
<1>1. q \in Path /\ Len(q) \in Nat
  BY DEF Call, Path
<1>2. q # <<>> /\ \E h \in Held : resource_matches(q, h.pattern)
  BY DEF HasAuthority, can_administer_pattern
<1>3. PICK h \in Held : resource_matches(q, h.pattern)
  BY <1>2
<1>4. h.pattern \in Path
  <2>1. CASE h \in Genesis
    BY <2>1, GenesisAssumption DEF Policy
  <2>2. CASE h \notin Genesis
    <3>1. PICK m \in 1..Len(history) : h = history[m]
      BY <2>2 DEF Held, HeldBefore, GrantsInv, RacingInv, TypeOK
    <3>2. h \in Change
      BY <3>1, ElementOfSeq DEF GrantsInv, RacingInv, TypeOK
    <3> QED
      BY <3>2 DEF Change
  <2> QED
    BY <2>1, <2>2
<1>5. Len(h.pattern) > 1
  BY DEF NoBareName
<1> SUFFICES ASSUME Len(q) = 1 PROVE FALSE
  <2>1. \A k \in Nat : k # 0 /\ k # 1 => k > 1
    OBVIOUS
  <2>2. Len(q) # 0
    BY <1>1, <1>2 DEF Path
  <2> QED
    BY <1>1, <2>1, <2>2
<1>6. /\ normalize(q) \in Path /\ Len(normalize(q)) = 1
      /\ normalize(h.pattern) \in Path /\ Len(normalize(h.pattern)) = Len(h.pattern)
  BY <1>1, <1>4, NormalizeSegments
<1>7. Covers(normalize(h.pattern), normalize(q))
  BY <1>3 DEF resource_matches
<1>8. Len(h.pattern) = 1
  BY <1>6, <1>7, CoversOneSegment
<1> QED
  BY <1>5, <1>8

LEMMA TrailKept ==
  ASSUME CapabilityInv, NEW c \in Caller, Writes(c), pc[c] # "idle" \/ UNCHANGED history,
         era' \in Nat, era <= era'
  PROVE  PlatformAccessIsTheSetting' /\ (NoBareName(Genesis) => NoBareName(Held)')
<1>1. /\ GrantsInv /\ history \in Seq(Change) /\ era \in Nat
      /\ PlatformAccessIsTheSetting /\ (NoBareName(Genesis) => NoBareName(Held))
  BY DEF CapabilityInv, GrantsInv, RacingInv, TypeOK, CapabilityTypeOK
<1>2. CASE UNCHANGED history
  <2>1. PlatformAccessIsTheSetting'
    BY <1>1, <1>2, CompactedOnce DEF PlatformAccessIsTheSetting, HasCompacted
  <2> QED
    BY <1>1, <1>2, <2>1, HeldStays
<1>3. ASSUME NEW h \in Change, history' = Append(history, h), Tells(c, h), pc[c] # "idle"
      PROVE  PlatformAccessIsTheSetting' /\ (NoBareName(Genesis) => NoBareName(Held)')
  <2>1. /\ Len(history) \in Nat
        /\ Len(history') = Len(history) + 1
        /\ history'[Len(history) + 1] = h
        /\ \A n \in 1..Len(history) : history'[n] = history[n]
    BY <1>1, <1>3
  <2>2. \A n \in 1..Len(history') : n = Len(history) + 1 \/ n \in 1..Len(history)
    BY <2>1
  <2>3. ASSUME NEW n \in 1..Len(history'), history'[n].event = "policy.created",
               Lower[history'[n].principal] \in PLATFORM_IDENTITIES
        PROVE  /\ HasCompacted(history'[n].principal, era')
               /\ history'[n].role = MAINTENANCE_ROLE
               /\ history'[n].pattern = WholeWorkspace(history'[n].workspace)
    <3>1. CASE n \in 1..Len(history)
      <4>1. /\ HasCompacted(history[n].principal, era)
            /\ history[n].role = MAINTENANCE_ROLE
            /\ history[n].pattern = WholeWorkspace(history[n].workspace)
        BY <1>1, <2>1, <2>3, <3>1 DEF PlatformAccessIsTheSetting, HasCompacted
      <4>2. \A x : HasCompacted(x, era) => HasCompacted(x, era')
        BY <1>1, CompactedOnce
      <4>3. history'[n] = history[n]
        BY <2>1, <3>1
      <4>4. HasCompacted(history'[n].principal, era')
        BY <4>1, <4>2, <4>3 DEF HasCompacted
      <4> QED
        BY <4>1, <4>3, <4>4
    <3>2. CASE n = Len(history) + 1
      <4>1. /\ pc[c] \in Granting /\ h.principal = call[c].principal
            /\ h.role = call[c].role /\ h.workspace = call[c].workspace
            /\ h.pattern = call[c].pattern
        BY <1>3, <2>1, <2>3, <3>2 DEF Tells
      <4>2. IsTheSetting(call[c])
        BY <2>1, <2>3, <3>2, <4>1 DEF CapabilityInv, SurfaceInv
      <4>3. \A x : HasCompacted(x, era) => HasCompacted(x, era')
        BY <1>1, CompactedOnce
      <4>4. history'[n] = h
        BY <2>1, <3>2
      <4>5. HasCompacted(h.principal, era')
        BY <4>1, <4>2, <4>3 DEF IsTheSetting, HasCompacted
      <4>6. HasCompacted(history'[n].principal, era')
        BY <4>4, <4>5 DEF HasCompacted
      <4> QED
        BY <4>1, <4>2, <4>4, <4>6 DEF IsTheSetting
    <3> QED
      BY <2>2, <3>1, <3>2
  <2>4. PlatformAccessIsTheSetting'
    BY <2>3 DEF PlatformAccessIsTheSetting, HasCompacted
  <2>5. ASSUME NoBareName(Genesis), NEW g \in Held' PROVE Len(g.pattern) > 1
    <3>1. NoBareName(Held)
      BY <1>1, <2>5
    <3>2. g \in Held \/ (g = h /\ h.event # "policy.deleted")
      <4>1. CASE g \in Genesis
        BY <4>1 DEF Held, HeldBefore
      <4>2. CASE g \notin Genesis
        <5>1. PICK m \in 1..Len(history') : g = history'[m] /\ history'[m].event # "policy.deleted"
          BY <2>1, <2>5, <4>2 DEF Held, HeldBefore
        <5>2. CASE m = Len(history) + 1
          BY <2>1, <5>1, <5>2
        <5>3. CASE m \in 1..Len(history)
          BY <2>1, <5>1, <5>3 DEF Held, HeldBefore
        <5> QED
          BY <2>2, <5>2, <5>3
      <4> QED
        BY <4>1, <4>2
    <3>3. CASE g = h /\ h.event # "policy.deleted"
      <4>1. call[c] \in Call /\ HasAuthority(c, {}) /\ h.pattern = call[c].pattern
        BY <1>1, <1>3, <3>3 DEF Tells, GrantsInv, RacingInv, CallInv
      <4> QED
        BY <1>1, <3>1, <3>3, <4>1, BareAuthority
    <3> QED
      BY <3>1, <3>2, <3>3 DEF NoBareName
  <2> QED
    BY <2>4, <2>5 DEF NoBareName
<1> QED
  BY <1>2, <1>3 DEF Writes

\* A step of one session leaves the statements of the others alone.
LEMMA OtherSurfacesKept ==
  ASSUME CapabilityInv, NEW c \in Caller, Alone(c), era' \in Nat, era <= era',
         \A d \in Caller \ {c} : setting'[d] = setting[d] /\ reading'[d] = reading[d]
  PROVE  \A d \in Caller \ {c} : SurfaceInv(d)'
<1> SUFFICES ASSUME NEW d \in Caller \ {c} PROVE SurfaceInv(d)'
  OBVIOUS
<1>1. /\ pc'[d] = pc[d] /\ call'[d] = call[d]
      /\ setting'[d] = setting[d] /\ reading'[d] = reading[d]
  BY DEF Alone
<1>2. SurfaceInv(d) /\ era \in Nat
  BY DEF CapabilityInv, CapabilityTypeOK
<1>3. \A x : HasCompacted(x, era) => HasCompacted(x, era')
  BY <1>2, CompactedOnce
<1> QED
  BY <1>1, <1>2, <1>3 DEF SurfaceInv, IsTheSetting, HasCompacted

LEMMA StatementKeeps ==
  ASSUME CapabilityInv, NEW c \in Caller, GrantsInv', UNCHANGED era,
         setting' \in [Caller -> Setting \union {NoSetting}], reading' \in [Caller -> BOOLEAN],
         \A d \in Caller \ {c} : setting'[d] = setting[d] /\ reading'[d] = reading[d],
         Alone(c), Writes(c), pc[c] # "idle" \/ UNCHANGED history, SurfaceInv(c)'
  PROVE  CapabilityInv'
<1>1. CapabilityTypeOK'
  BY DEF CapabilityInv, CapabilityTypeOK, GrantsInv, RacingInv
<1>2. era' \in Nat /\ era <= era'
  BY DEF CapabilityInv, CapabilityTypeOK
<1>3. PlatformAccessIsTheSetting' /\ (NoBareName(Genesis) => NoBareName(Held)')
  BY <1>2, TrailKept
<1>4. \A d \in Caller : SurfaceInv(d)'
  BY <1>2, OtherSurfacesKept
<1> QED
  BY <1>1, <1>3, <1>4 DEF CapabilityInv, NoBareName

(***************************************************************************)
(* The steps of the surface.                                               *)
(***************************************************************************)
\* What a call that is under way does, or its end, is what Grants does.
LEMMA CallGoesOn ==
  ASSUME CapabilityInv, NEW c \in Caller, Step(c) \/ Abort(c), UNCHANGED surface
  PROVE  CapabilityInv'
<1>1. GrantsInv /\ TypeOK /\ SurfaceInv(c) /\ UNCHANGED <<setting, reading, era>>
      /\ setting \in [Caller -> Setting \union {NoSetting}] /\ reading \in [Caller -> BOOLEAN]
  BY DEF CapabilityInv, CapabilityTypeOK, surface
<1>2. GrantsInv'
  BY <1>1, NextKeeps DEF Next
<1>3. pc[c] # "idle"
  BY DEF Step, Abort, GrantAuthorize, GrantCheckConflict, GrantCreate, UpdateGet,
         UpdateAuthorize, UpdateCheckConflict, UpdateWrite, RevokeGet, RevokeAuthorize,
         RevokeDelete, ResolveAuthorize, ResolveMatch, BootstrapCheckVacant, BootstrapCreate,
         RecordCreated, RecordUpdated, RecordDeleted
<1>4. call[c].op \in {"grant", "revoke_grant"}
  BY <1>1, <1>3 DEF SurfaceInv
<1>5. Moves(c) /\ Writes(c)
  <2>1. CASE Step(c)
    BY <1>1, <1>4, <2>1, StepMoves
  <2>2. CASE Abort(c)
    BY <1>1, <2>2, ReturnMoves DEF Abort, ReadOnly, Writes
  <2> QED
    BY <2>1, <2>2
<1>6. SurfaceInv(c)'
  BY <1>1, <1>3, <1>4, <1>5 DEF SurfaceInv, Moves, SameCall, IsTheSetting, Granting
<1> QED
  BY <1>1, <1>2, <1>3, <1>5, <1>6, StatementKeeps DEF Moves

\* A statement that ends, or whose call begins.
LEMMA ReadyKeeps ==
  ASSUME CapabilityInv, NEW c \in Caller, UNCHANGED <<store, history, era>>,
         begun' \in Nat, audit' = audit,
         setting' \in [Caller -> Setting \union {NoSetting}], reading' \in [Caller -> BOOLEAN],
         \A d \in Caller \ {c} : setting'[d] = setting[d] /\ reading'[d] = reading[d],
         ~reading'[c], setting'[c] # NoSetting => HasCompacted(setting'[c].principal, era),
         \/ \E result \in Outcome : Return(c, result)
         \/ \E r \in Call :
              /\ Enter(c, r) /\ r.op \in {"grant", "revoke_grant"}
              /\ Lower[r.principal] \in PLATFORM_IDENTITIES => IsTheSetting(Normalized(r))
  PROVE  CapabilityInv'
<1>1. GrantsInv /\ TypeOK /\ Writes(c) /\ audit' \in Seq(Change)
      /\ UNCHANGED <<store, history>>
  BY DEF CapabilityInv, GrantsInv, RacingInv, TypeOK, Writes
<1>2. CASE \E result \in Outcome : Return(c, result)
  <2>1. GrantsInv'
    BY <1>1, <1>2, EndingKeeps, UntouchedStaysGone DEF GrantsInv
  <2>2. Alone(c) /\ pc'[c] = "idle"
    BY <1>1, <1>2, ReturnMoves DEF Moves
  <2>3. SurfaceInv(c)'
    BY <2>2 DEF SurfaceInv, Granting, HasCompacted
  <2> QED
    BY <1>1, <2>1, <2>2, <2>3, StatementKeeps
<1>3. ASSUME NEW r \in Call, Enter(c, r), r.op \in {"grant", "revoke_grant"},
             Lower[r.principal] \in PLATFORM_IDENTITIES => IsTheSetting(Normalized(r))
      PROVE  CapabilityInv'
  <2>1. GrantsInv'
    BY <1>1, <1>3, EnterKeeps, UntouchedStaysGone DEF GrantsInv
  <2>2. Alone(c) /\ (pc'[c] # "idle" => call'[c] = Normalized(r))
    BY <1>1, <1>3, EnterMoves
  <2>3. Normalized(r).op = r.op /\ Normalized(r).principal = Lower[r.principal]
    BY <1>3, NormalizedParts
  <2>4. Lower[Lower[r.principal]] = Lower[r.principal]
    BY NamesAssumption DEF Call
  <2>5. ASSUME pc'[c] \in Granting, Lower[call'[c].principal] \in PLATFORM_IDENTITIES
        PROVE  IsTheSetting(call[c])'
    <3>1. call'[c] = Normalized(r) /\ IsTheSetting(Normalized(r))
      BY <1>3, <2>2, <2>3, <2>4, <2>5 DEF Granting
    <3> QED
      BY <3>1 DEF IsTheSetting
  <2>6. SurfaceInv(c)'
    BY <1>3, <2>2, <2>3, <2>5 DEF SurfaceInv, HasCompacted
  <2> QED
    BY <1>1, <2>1, <2>2, <2>6, StatementKeeps
<1> QED
  BY <1>2, <1>3

LEMMA SurfaceTypes ==
  ASSUME CapabilityInv
  PROVE  /\ setting \in [Caller -> Setting \union {NoSetting}]
         /\ reading \in [Caller -> BOOLEAN]
         /\ era \in 1..Len(COMPACTION_IDENTITY) /\ begun \in Nat
         /\ pc \in [Caller -> Control]
         /\ maintenance_identity \in Name /\ HasCompacted(maintenance_identity, era)
<1>1. era \in 1..Len(COMPACTION_IDENTITY)
  BY DEF CapabilityInv, CapabilityTypeOK
<1>2. COMPACTION_IDENTITY[era] \in Name
  BY <1>1, CapabilityAssumption, ElementOfSeq
<1>3. maintenance_identity \in Name
  BY <1>2, NamesAssumption DEF maintenance_identity
<1>4. era \in 1..era
  BY <1>1
<1> QED
  BY <1>1, <1>3, <1>4
  DEF CapabilityInv, CapabilityTypeOK, TypeOK, maintenance_identity, HasCompacted

\* GRANT and REVOKE: what is asked about a platform identity goes no further.
LEMMA ApplyKeeps ==
  ASSUME CapabilityInv, NEW c \in Caller, NEW s \in Statements, Apply(c, s)
  PROVE  CapabilityInv'
<1>1. s \in Call /\ s.op \in {"grant", "revoke_grant"}
  BY CapabilityAssumption
<1>2. /\ UNCHANGED <<store, history, era>> /\ audit' = audit /\ begun' \in Nat
      /\ setting' = [setting EXCEPT ![c] = NoSetting] /\ reading' = reading /\ ~reading[c]
  BY SurfaceTypes DEF Apply, Ready
<1>3. /\ setting' \in [Caller -> Setting \union {NoSetting}] /\ reading' \in [Caller -> BOOLEAN]
      /\ \A d \in Caller \ {c} : setting'[d] = setting[d] /\ reading'[d] = reading[d]
      /\ ~reading'[c] /\ setting'[c] = NoSetting
  BY <1>2, SurfaceTypes
<1>4. CASE Return(c, "AccessDenied") \/ Return(c, "InvalidPattern")
  BY <1>2, <1>3, <1>4, ReadyKeeps DEF Outcome
<1>5. CASE /\ Lower[s.principal] \notin PLATFORM_IDENTITIES
           /\ IsPattern(normalize(s.pattern))
           /\ Enter(c, [s EXCEPT !.workspace = normalize(s.pattern)[1]])
  <2> DEFINE r == [s EXCEPT !.workspace = normalize(s.pattern)[1]]
  <2>1. normalize(s.pattern)[1] \in Name
    BY <1>1, <1>5, NormalizeSegments, PatternHead DEF Call
  <2>2. r \in Call /\ r.op = s.op /\ r.principal = s.principal
    BY <1>1, <2>1 DEF Call
  <2>3. Enter(c, r)
    BY <1>5
  <2> HIDE DEF r
  <2> QED
    BY <1>1, <1>2, <1>3, <1>5, <2>2, <2>3, ReadyKeeps
<1> QED
  BY <1>4, <1>5 DEF Apply, _refuse_platform_identity

LEMMA SetMaintenanceKeeps ==
  ASSUME CapabilityInv, NEW c \in Caller, SetMaintenance(c)
  PROVE  CapabilityInv'
<1>1. /\ UNCHANGED <<store, history, era>> /\ audit' = audit /\ begun' \in Nat
      /\ pc[c] = "idle" /\ ~reading[c]
  BY SurfaceTypes DEF SetMaintenance, Ready
<1>2. ASSUME Return(c, "AccessDenied") \/ Return(c, "InvalidPattern"), UNCHANGED reading,
             setting' = [setting EXCEPT ![c] = NoSetting]
      PROVE  CapabilityInv'
  <2>1. /\ setting' \in [Caller -> Setting \union {NoSetting}] /\ reading' \in [Caller -> BOOLEAN]
        /\ \A d \in Caller \ {c} : setting'[d] = setting[d] /\ reading'[d] = reading[d]
        /\ ~reading'[c] /\ setting'[c] = NoSetting
    BY <1>1, <1>2, SurfaceTypes
  <2> QED
    BY <1>1, <1>2, <2>1, ReadyKeeps DEF Outcome
<1>3. ASSUME NEW s \in Settings, UNCHANGED local,
             setting' = [setting EXCEPT ![c] =
               [actor |-> s.actor, workspace |-> Lower[s.workspace], enabled |-> s.enabled,
                principal |-> maintenance_identity]],
             reading' = [reading EXCEPT ![c] = TRUE]
      PROVE  CapabilityInv'
  <2> DEFINE t == [actor |-> s.actor, workspace |-> Lower[s.workspace], enabled |-> s.enabled,
                   principal |-> maintenance_identity]
  <2>1. t \in Setting /\ t # NoSetting
    BY <1>3, SurfaceTypes, CapabilityAssumption, NamesAssumption DEF Wish, Setting
  <2>2. t.principal = maintenance_identity
    OBVIOUS
  <2>3. setting' = [setting EXCEPT ![c] = t]
    BY <1>3
  <2> HIDE DEF t
  <2>4. /\ setting' \in [Caller -> Setting \union {NoSetting}] /\ reading' \in [Caller -> BOOLEAN]
        /\ \A d \in Caller \ {c} : setting'[d] = setting[d] /\ reading'[d] = reading[d]
        /\ setting'[c] = t
    BY <1>3, <2>1, <2>3, SurfaceTypes
  <2>5. UNCHANGED <<pc, call, seen, outcome, store, history, audit>>
    BY <1>1, <1>3 DEF local
  <2>6. GrantsInv'
    <3>1. TypeOK' /\ GrantsInv
      BY <1>1, <2>5 DEF CapabilityInv, GrantsInv, RacingInv, TypeOK, PolicyStoreTypeOK, store
    <3>2. Alone(c)
      BY <2>5 DEF Alone
    <3>3. CallInv(c, {}, {})'
      <4>1. pc'[c] = "idle"
        BY <1>1, <2>5
      <4> QED
        BY <4>1 DEF CallInv
    <3> QED
      BY <1>1, <3>1, <3>2, <3>3, StoreUntouched, UntouchedStaysGone DEF GrantsInv
  <2>7. Alone(c) /\ Writes(c)
    BY <2>5 DEF Alone, Writes
  <2>8. SurfaceInv(c)'
    <3>1. pc'[c] = "idle" /\ era' = era
      BY <1>1, <2>5
    <3> QED
      BY <2>1, <2>2, <2>4, <3>1, SurfaceTypes DEF SurfaceInv, Granting, HasCompacted
  <2> QED
    BY <1>1, <2>4, <2>6, <2>7, <2>8, StatementKeeps
<1> QED
  BY <1>2, <1>3 DEF SetMaintenance

\* The call a SET maintenance makes is about the setting's own policy.
LEMMA MaintenanceCalls ==
  ASSUME NEW s \in Setting, HasCompacted(s.principal, era), era \in 1..Len(COMPACTION_IDENTITY)
  PROVE  /\ MaintenanceCall(s) \in Call
         /\ MaintenanceCall(s).op \in {"grant", "revoke_grant"}
         /\ IsTheSetting(Normalized(MaintenanceCall(s)))
<1> DEFINE r == MaintenanceCall(s)
           p == WholeWorkspace(s.workspace)
<1>1. s.actor \in Name /\ s.workspace \in Name /\ s.principal \in Name
  BY DEF Setting
<1>2. p \in Path /\ <<>> \in Members
  BY <1>1, NormalizeWhole DEF Members
<1>3. /\ r \in Call
      /\ r.op \in {"grant", "revoke_grant"} /\ r.principal = s.principal
      /\ r.role = MAINTENANCE_ROLE /\ r.workspace = s.workspace /\ r.pattern = p
  <2> DEFINE op == IF s.enabled THEN "grant" ELSE "revoke_grant"
  <2>1. r = [op |-> op, actor |-> s.actor, workspace |-> s.workspace, principal |-> s.principal,
             role |-> MAINTENANCE_ROLE, pattern |-> p, id |-> 0, members |-> <<>>]
    BY DEF MaintenanceCall
  <2>2. op = "grant" \/ op = "revoke_grant"
    <3>1. CASE s.enabled
      BY <3>1
    <3>2. CASE ~s.enabled
      BY <3>2
    <3> QED
      BY <3>1, <3>2
  <2>3. MAINTENANCE_ROLE \in STRING
    BY MaintenanceAssumption
  <2> HIDE DEF r, p, op
  <2>4. r \in Call
    BY <1>1, <1>2, <2>1, <2>2, <2>3 DEF Call
  <2> QED
    BY <2>1, <2>2, <2>4
<1> HIDE DEF r, p
<1>4. /\ Normalized(r).principal = Lower[s.principal]
      /\ Normalized(r).role = MAINTENANCE_ROLE
      /\ Normalized(r).workspace = Lower[s.workspace]
      /\ Normalized(r).pattern = normalize(p)
  BY <1>3, NormalizedParts
<1>5. normalize(p) = WholeWorkspace(Lower[s.workspace])
  BY <1>1, NormalizeWhole DEF p
<1>6. HasCompacted(Lower[s.principal], era)
  <2>1. PICK e \in 1..era : s.principal = Lower[COMPACTION_IDENTITY[e]]
    BY DEF HasCompacted
  <2>2. e \in 1..Len(COMPACTION_IDENTITY)
    BY <2>1
  <2>3. COMPACTION_IDENTITY[e] \in Name
    BY <2>2, CapabilityAssumption, ElementOfSeq
  <2>4. Lower[s.principal] = s.principal
    BY <2>1, <2>3, NamesAssumption
  <2> QED
    BY <2>4
<1> QED
  BY <1>3, <1>4, <1>5, <1>6 DEF IsTheSetting, r

LEMMA ReadingKeeps ==
  ASSUME CapabilityInv, NEW c \in Caller, ReadMaintenance(c) \/ AbortReading(c)
  PROVE  CapabilityInv'
<1>1. /\ UNCHANGED <<store, history, era>> /\ audit' = audit /\ begun' \in Nat
      /\ setting' = setting /\ reading[c] /\ reading' = [reading EXCEPT ![c] = FALSE]
  BY SurfaceTypes DEF ReadMaintenance, AbortReading, ReadOnly
<1>2. /\ setting' \in [Caller -> Setting \union {NoSetting}] /\ reading' \in [Caller -> BOOLEAN]
      /\ \A d \in Caller \ {c} : setting'[d] = setting[d] /\ reading'[d] = reading[d]
      /\ ~reading'[c] /\ setting'[c] = setting[c]
  BY <1>1, SurfaceTypes
<1>3. setting[c] \in Setting /\ HasCompacted(setting[c].principal, era)
  BY <1>1, SurfaceTypes DEF CapabilityInv, SurfaceInv
<1>4. CASE Return(c, "ok") \/ Return(c, "Aborted")
  BY <1>1, <1>2, <1>3, <1>4, ReadyKeeps DEF Outcome
<1>5. CASE Enter(c, MaintenanceCall(setting[c]))
  <2>1. /\ MaintenanceCall(setting[c]) \in Call
        /\ MaintenanceCall(setting[c]).op \in {"grant", "revoke_grant"}
        /\ IsTheSetting(Normalized(MaintenanceCall(setting[c])))
    BY <1>3, SurfaceTypes, MaintenanceCalls
  <2> QED
    BY <1>1, <1>2, <1>3, <1>5, <2>1, ReadyKeeps
<1> QED
  BY <1>4, <1>5 DEF ReadMaintenance, AbortReading

\* The compactor may move in the middle of any statement.
LEMMA MoveIdentityKeeps ==
  ASSUME CapabilityInv, MoveIdentity
  PROVE  CapabilityInv'
<1>1. era \in Nat /\ era' \in Nat /\ era <= era' /\ UNCHANGED <<vars, setting, reading>>
  BY DEF CapabilityInv, CapabilityTypeOK, MoveIdentity
<1>2. \A x : HasCompacted(x, era) => HasCompacted(x, era')
  BY <1>1, CompactedOnce
<1>3. GrantsInv' /\ UNCHANGED <<pc, call, history>>
  BY <1>1, NextKeeps DEF CapabilityInv, vars, local
<1>4. CapabilityTypeOK'
  BY <1>1, <1>3 DEF CapabilityInv, CapabilityTypeOK, MoveIdentity, GrantsInv, RacingInv
<1>5. PlatformAccessIsTheSetting'
  BY <1>2, <1>3 DEF CapabilityInv, PlatformAccessIsTheSetting, HasCompacted
<1>6. NoBareName(Genesis) => NoBareName(Held')
  BY <1>3, HeldStays DEF CapabilityInv
<1>7. ASSUME NEW c \in Caller PROVE SurfaceInv(c)'
  BY <1>1, <1>2, <1>3 DEF CapabilityInv, SurfaceInv, IsTheSetting, HasCompacted
<1> QED
  BY <1>3, <1>4, <1>5, <1>6, <1>7 DEF CapabilityInv, NoBareName

LEMMA CapabilityInitEstablishes == CapabilityInit => CapabilityInv
<1> SUFFICES ASSUME CapabilityInit PROVE CapabilityInv
  OBVIOUS
<1>1. GrantsInv /\ history = <<>>
  BY InitEstablishes DEF CapabilityInit, Init
<1>2. Len(COMPACTION_IDENTITY) \in Nat \ {0}
  BY CapabilityAssumption
<1>3. CapabilityTypeOK
  BY <1>1, <1>2 DEF CapabilityInit, CapabilityTypeOK, GrantsInv, RacingInv
<1>4. \A n \in 1..Len(history) : FALSE
  BY <1>1
<1>5. PlatformAccessIsTheSetting
  BY <1>4 DEF PlatformAccessIsTheSetting
<1>6. NoBareName(Genesis) => NoBareName(Held)
  <2>1. Held = Genesis
    BY <1>1 DEF Held, HeldBefore
  <2> QED
    BY <2>1
<1>7. ASSUME NEW c \in Caller PROVE SurfaceInv(c)
  BY DEF CapabilityInit, Init, SurfaceInv, Granting
<1> QED
  BY <1>1, <1>3, <1>5, <1>6, <1>7 DEF CapabilityInv

LEMMA CapabilityNextKeeps == CapabilityInv /\ [CapabilityNext]_capvars => CapabilityInv'
<1> SUFFICES ASSUME CapabilityInv, [CapabilityNext]_capvars PROVE CapabilityInv'
  OBVIOUS
<1>1. CASE UNCHANGED capvars
  <2>1. UNCHANGED <<vars, setting, reading, era, pc, call, history>>
    BY <1>1 DEF capvars, surface, vars, local
  <2>2. GrantsInv'
    BY <2>1, NextKeeps DEF CapabilityInv
  <2>3. CapabilityTypeOK' /\ PlatformAccessIsTheSetting'
    BY <2>1, <2>2
    DEF CapabilityInv, CapabilityTypeOK, GrantsInv, RacingInv, PlatformAccessIsTheSetting
  <2>4. NoBareName(Genesis) => NoBareName(Held')
    BY <2>1, HeldStays DEF CapabilityInv
  <2>5. ASSUME NEW c \in Caller PROVE SurfaceInv(c)'
    BY <2>1 DEF CapabilityInv, SurfaceInv, IsTheSetting, HasCompacted
  <2> QED
    BY <2>2, <2>3, <2>4, <2>5 DEF CapabilityInv, NoBareName
<1>2. CASE CapabilityDone
  BY <1>1, <1>2 DEF CapabilityDone, Done, capvars
<1>3. CASE MoveIdentity
  BY <1>3, MoveIdentityKeeps
<1>4. ASSUME NEW c \in Caller, CapabilityStep(c) PROVE CapabilityInv'
  <2>1. CASE ApplyGrant(c) \/ ApplyRevoke(c)
    BY <2>1, ApplyKeeps DEF ApplyGrant, ApplyRevoke
  <2>2. CASE SetMaintenance(c)
    BY <2>2, SetMaintenanceKeeps
  <2>3. CASE ReadMaintenance(c) \/ AbortReading(c)
    BY <2>3, ReadingKeeps
  <2>4. CASE (Step(c) \/ Abort(c)) /\ UNCHANGED surface
    BY <2>4, CallGoesOn
  <2> QED
    BY <1>4, <2>1, <2>2, <2>3, <2>4 DEF CapabilityStep
<1> QED
  BY <1>1, <1>2, <1>3, <1>4 DEF CapabilityNext

(***************************************************************************)
(* The invariant, and what follows.                                        *)
(***************************************************************************)
\* The invariant holds whatever sessions state at once, on top of that of the calls
\* they make, and however often the compactor moves.
THEOREM CapabilityInvHolds == CapabilitySpec => []CapabilityInv
BY CapabilityInitEstablishes, CapabilityNextKeeps, PTL DEF CapabilitySpec

\* A statement's place and what it set are always well formed, and so is all that
\* the calls under it keep.
THEOREM CapabilityTypeCorrect == CapabilitySpec => []CapabilityTypeOK
<1>1. CapabilityInv => CapabilityTypeOK
  BY DEF CapabilityInv
<1> QED
  BY <1>1, CapabilityInvHolds, PTL

\* No interleaving of statements, of their calls and of moves of the compactor gives
\* a platform identity any access but the setting's own (_refuse_platform_identity).
THEOREM PlatformAccessIsOnlyTheSetting == CapabilitySpec => []PlatformAccessIsTheSetting
<1>1. CapabilityInv => PlatformAccessIsTheSetting
  BY DEF CapabilityInv
<1> QED
  BY <1>1, CapabilityInvHolds, PTL

(***************************************************************************)
(* What the listings say of any state of the store.                        *)
(***************************************************************************)
\* Objects of the catalog, as they are looked up.
LEMMA ObjectParts ==
  ASSUME NEW o \in Objects
  PROVE  /\ o \in Path /\ Len(o) \in Nat /\ Len(o) >= 1
         /\ o[1] \in Name /\ Lower[o[1]] \in Name
         /\ normalize(o) \in Path /\ Len(normalize(o)) = Len(o)
         /\ normalize(o)[1] = Lower[o[1]]
<1>1. o \in Path /\ Len(o) \in Nat /\ Len(o) >= 1 /\ o[1] \in Name
  BY ListingsAssumption DEF Path
<1> QED
  BY <1>1, NormalizeSegments, NamesAssumption

\* Outside the three shared workspaces no grant that everybody holds decides.
LEMMA NotReserved ==
  ASSUME NEW u \in Name, NEW o \in Path, Len(o) > 1,
         normalize(o)[1] \notin RESERVED_WORKSPACES
  PROVE  Matching(u, o) = {}
<1>1. RESERVED_WORKSPACES = {"public", "personal", "samples"}
  BY AccessAssumption
<1> QED
  BY <1>1, MatchingIsCapped, OwnIsPersonal

\* The live check of somebody else, of an object that is nobody's by default.
LEMMA LiveCheck ==
  ASSUME NEW u \in Name, NEW o \in Objects, Len(o) > 1,
         Lower[o[1]] \notin RESERVED_WORKSPACES, NEW action
  PROVE  can_principal_perform_action(u, o, action) <=>
           /\ ~is_engine_private(o)
           /\ \E d \in policies : /\ d.workspace = Lower[o[1]] /\ d.principal = Lower[u]
                                  /\ action_allowed_for_role(d.role, action)
                                  /\ resource_matches(o, d.pattern)
<1> DEFINE held == grants_for_principal(o[1], u)
<1>1. Matching(u, o) = {}
  BY ObjectParts, NotReserved
<1>2. Len(o) # 1
  <2>1. \A k \in Nat : k > 1 => k # 1
    OBVIOUS
  <2> QED
    BY <2>1, ObjectParts, Zenon
<1>4. can_perform_action(held, o, action, u, {}) <=>
        ~is_engine_private(o) /\ ByIssued(held, o, action)
  <2>1. {i \in 1..Len(implicit_grants(u)) : matches_implicit(o, implicit_grants(u)[i])} = {}
    BY <1>1 DEF Matching
  <2> HIDE DEF held
  <2> QED
    BY <1>2, <2>1 DEF can_perform_action, ByIssued
<1>3. ByIssued(held, o, action) <=>
        \E d \in policies : /\ d.workspace = Lower[o[1]] /\ d.principal = Lower[u]
                            /\ action_allowed_for_role(d.role, action)
                            /\ resource_matches(o, d.pattern)
  <2>1. ASSUME NEW g \in held,
               action_allowed_for_role(g.role, action) /\ resource_matches(o, g.pattern)
        PROVE  \E d \in policies : /\ d.workspace = Lower[o[1]] /\ d.principal = Lower[u]
                                   /\ action_allowed_for_role(d.role, action)
                                   /\ resource_matches(o, d.pattern)
    <3>1. PICK d \in list_policies_for_principal(Lower[o[1]], Lower[u]) :
            g = [role |-> d.role, pattern |-> d.pattern]
      BY DEF grants_for_principal
    <3> QED
      BY <2>1, <3>1 DEF list_policies_for_principal, list_policies
  <2>2. ASSUME NEW d \in policies, d.workspace = Lower[o[1]], d.principal = Lower[u],
               action_allowed_for_role(d.role, action), resource_matches(o, d.pattern)
        PROVE  ByIssued(held, o, action)
    <3> DEFINE g == [role |-> d.role, pattern |-> d.pattern]
    <3>1. g \in held
      BY <2>2 DEF grants_for_principal, list_policies_for_principal, list_policies
    <3>2. g.role = d.role /\ g.pattern = d.pattern
      OBVIOUS
    <3> HIDE DEF g, held
    <3> QED
      BY <2>2, <3>1, <3>2 DEF ByIssued
  <2> QED
    BY <2>1, <2>2 DEF ByIssued
<1> QED
  BY <1>2, <1>3, <1>4 DEF can_principal_perform_action

LEMMA ListedIsTrue == EffectiveIsTheTruth
<1> SUFFICES ASSUME NEW o \in Objects, Grantable(o), NEW u \in Users, NEW action \in Asked
    PROVE  can_principal_perform_action(u, o, action) <=>
             \E d \in effective_grants_on(o) : /\ d.principal = Lower[u]
                                               /\ action_allowed_for_role(d.role, action)
  BY DEF EffectiveIsTheTruth
<1> DEFINE p == normalize(o)
<1>1. /\ p \in Path /\ p[1] = Lower[o[1]] /\ Len(o) > 1
      /\ IsPattern(p) /\ p # WholeWorkspace(p[1])
  BY ObjectParts DEF Grantable
<1>2. p[1] \notin RESERVED_WORKSPACES /\ ~is_engine_private(o)
  BY <1>1, ObjectParts, MatchNormalized DEF IsPattern, IsPatternShape
<1>3. effective_grants_on(o) =
        {d \in policies : d.workspace = Lower[o[1]] /\ resource_matches(o, d.pattern)}
  <2>1. \A pattern : resource_matches(p, pattern) <=> resource_matches(o, pattern)
    BY ObjectParts, MatchNormalized
  <2>2. effective_grants_on(o) =
          {d \in list_policies(p[1]) : \/ p = WholeWorkspace(p[1])
                                       \/ TRUE /\ resource_matches(p, d.pattern)
                                       \/ ~TRUE /\ normalize(d.pattern) = p}
    BY Zenon DEF effective_grants_on, _policy_rows
  <2> HIDE DEF p
  <2> QED
    BY <1>1, <2>1, <2>2 DEF list_policies
<1>4. can_principal_perform_action(u, o, action) <=>
        \E d \in policies : /\ d.workspace = Lower[o[1]] /\ d.principal = Lower[u]
                            /\ action_allowed_for_role(d.role, action)
                            /\ resource_matches(o, d.pattern)
  <2>1. u \in Name
    BY ListingsAssumption
  <2> QED
    BY <1>1, <1>2, <2>1, LiveCheck
<1> QED
  BY <1>3, <1>4

LEMMA LeavingIsWarned == OffboardingIsWarned
<1> SUFFICES ASSUME NEW u \in Users, NEW d \in policies,
                    can_administer_pattern(
                      list_policies_for_principal(d.workspace, Lower[u]), u, d.pattern)
    PROVE  \E p \in owned_by(u) : p.workspace = d.workspace
                                  /\ resource_matches(d.pattern, p.pattern)
  BY DEF OffboardingIsWarned
<1>1. PICK p \in list_policies_for_principal(d.workspace, Lower[u]) :
        action_allowed_for_role(p.role, "GRANT") /\ resource_matches(d.pattern, p.pattern)
  BY DEF can_administer_pattern
<1>2. p \in policies /\ p.workspace = d.workspace /\ p.principal = Lower[u]
  BY <1>1 DEF list_policies_for_principal, list_policies
<1> QED
  BY <1>1, <1>2 DEF owned_by, list_owner_policies

LEMMA ReportIsAccess ==
  ASSUME CapabilityInv
  PROVE  ReportedMaintenanceIsAccess
<1> SUFFICES ASSUME NEW o \in Objects, workspace_maintenance(o[1]), Len(o) > 1,
                    ~is_engine_private(o)
    PROVE  can_principal_perform_action(maintenance_identity, o, "WRITE")
  BY DEF ReportedMaintenanceIsAccess
<1> DEFINE w == Lower[o[1]]
<1>1. PICK d \in policies :
        /\ d.workspace = w /\ d.principal = maintenance_identity
        /\ normalize(d.pattern) = WholeWorkspace(w) /\ d.role = MAINTENANCE_ROLE
  BY DEF workspace_maintenance, _maintenance_policy, list_policies_for_principal, list_policies
<1>2. /\ w \in Name /\ Lower[w] = w /\ normalize(o) \in Path /\ normalize(o)[1] = w
      /\ Len(normalize(o)) > 1
  BY ObjectParts, NamesAssumption
<1>3. w \notin RESERVED_WORKSPACES
  BY <1>1 DEF CapabilityInv, GrantsInv, RacingInv, StoreInv, WellFiled, IsPattern
<1>4. resource_matches(o, d.pattern)
  <2>1. Covers(WholeWorkspace(w), normalize(o))
    BY <1>2, NormalizeWhole, CoversWholeWorkspace
  <2> QED
    BY <1>1, <2>1 DEF resource_matches
<1>5. Lower[maintenance_identity] = maintenance_identity /\ maintenance_identity \in Name
  <2>1. COMPACTION_IDENTITY[era] \in Name
    BY SurfaceTypes, CapabilityAssumption, ElementOfSeq
  <2> QED
    BY <2>1, NamesAssumption DEF maintenance_identity
<1>6. action_allowed_for_role(d.role, "WRITE")
  <2>1. action_allowed_for_role("writer", "WRITE")
    BY DEF action_allowed_for_role, allowed_roles, WriterDataActions, OwnerDataActions,
           POLICY_ADMINISTRATION_ACTIONS, ROLES
  <2> QED
    BY <1>1, <2>1 DEF MAINTENANCE_ROLE
<1> HIDE DEF w
<1> QED
  BY <1>1, <1>3, <1>4, <1>5, <1>6, LiveCheck DEF w

\* What is stored is filed under the workspace its pattern opens with, and is not on
\* the bare name of one if nothing was to begin with.
LEMMA StoredPatterns ==
  ASSUME CapabilityInv, NEW d \in policies
  PROVE  LET p == normalize(d.pattern) IN
         /\ d.pattern \in Path /\ p \in Path /\ p # <<>> /\ p[1] = d.workspace
         /\ ~is_engine_private(p)
         /\ NoBareName(Genesis) => Len(p) > 1
<1>1. d \in Policy /\ WellFiled(d)
  BY DEF CapabilityInv, GrantsInv, RacingInv, TypeOK, PolicyStoreTypeOK, StoreInv
<1>2. d.pattern \in Path /\ IsPattern(d.pattern) /\ d.pattern[1] = d.workspace
  BY <1>1 DEF Policy, WellFiled
<1>3. /\ Len(d.pattern) \in Nat /\ Len(d.pattern) >= 1
      /\ Lower[d.pattern[1]] = d.pattern[1]
  BY <1>2, PatternHead DEF Path
<1>4. /\ normalize(d.pattern) \in Path /\ Len(normalize(d.pattern)) = Len(d.pattern)
      /\ normalize(d.pattern)[1] = d.pattern[1]
  BY <1>2, <1>3, NormalizeSegments
<1>5. ~is_engine_private(normalize(d.pattern))
  BY <1>2, MatchNormalized DEF IsPattern, IsPatternShape
<1>6. ASSUME NoBareName(Genesis) PROVE Len(d.pattern) > 1
  <2>1. NoBareName(Held)
    BY <1>6 DEF CapabilityInv
  <2>2. PICK h \in Held : h.pattern = d.pattern
    BY DEF CapabilityInv, GrantsInv, RacingInv, TrailInv
  <2> QED
    BY <2>1, <2>2 DEF NoBareName
<1> QED
  BY <1>2, <1>3, <1>4, <1>5, <1>6 DEF Path

\* A row of the workspace's table is an object and a policy that matches it.
LEMMA TableRows ==
  ASSUME CapabilityInv, NEW u \in Users, NEW w \in Name, Lower[w] = w,
         NEW objects \in SUBSET {o \in Objects : Lower[o[1]] = w}
  PROVE  LET asked == {normalize(o) : o \in objects}
                        \union {normalize(d.pattern) : d \in list_policies(w)}
         IN  /\ \A x \in asked : x \in Path /\ x # <<>> /\ normalize(x) = x /\ x[1] = w
             /\ \A r \in effective_grants_in(u, w, objects) :
                  /\ r.object \in asked /\ r.policy \in list_policies(w)
                  /\ resource_matches(r.object, r.policy.pattern)
                  /\ r.explicit <=> normalize(r.policy.pattern) = r.object
                  /\ u # Anonymous /\ ~is_engine_private(r.object)
                  /\ can_administer_pattern(list_policies_for_principal(w, Lower[u]),
                                            Lower[u], r.object)
             /\ \A x \in asked, d \in list_policies(w) :
                  /\ u # Anonymous /\ ~is_engine_private(x)
                  /\ can_administer_pattern(list_policies_for_principal(w, Lower[u]),
                                            Lower[u], x)
                  /\ resource_matches(x, d.pattern)
                  => \E r \in effective_grants_in(u, w, objects) :
                       /\ r.object = x /\ r.policy = d
                       /\ r.explicit <=> normalize(d.pattern) = x
<1> DEFINE asked == {normalize(o) : o \in objects}
                      \union {normalize(d.pattern) : d \in list_policies(w)}
           held == list_policies_for_principal(w, Lower[u])
           rows == effective_grants_in(u, w, objects)
           RowOf(x) == [object |-> x[1], policy |-> x[2],
                        explicit |-> normalize(x[2].pattern) = x[1]]
           pairs == {x \in {o \in asked : ~is_engine_private(o)} \X list_policies(w) :
                       /\ u # Anonymous
                       /\ can_administer_pattern(held, Lower[u], x[1])
                       /\ resource_matches(x[1], x[2].pattern)}
<1>1. rows = {RowOf(x) : x \in pairs}
  BY DEF effective_grants_in
<1>2. ASSUME NEW x \in asked PROVE x \in Path /\ x # <<>> /\ normalize(x) = x /\ x[1] = w
  <2>1. ASSUME NEW o \in objects, x = normalize(o)
        PROVE  x \in Path /\ x # <<>> /\ normalize(x) = x /\ x[1] = w
    <3>1. o \in Objects /\ Lower[o[1]] = w
      OBVIOUS
    <3> QED
      BY <2>1, <3>1, ObjectParts, NormalizeTwice DEF Path
  <2>2. ASSUME NEW d \in list_policies(w), x = normalize(d.pattern)
        PROVE  x \in Path /\ x # <<>> /\ normalize(x) = x /\ x[1] = w
    <3>1. d \in policies /\ d.workspace = w
      BY DEF list_policies
    <3> QED
      BY <2>2, <3>1, StoredPatterns, NormalizeTwice
  <2> QED
    BY <2>1, <2>2
<1>3. ASSUME NEW r \in rows
      PROVE  /\ r.object \in asked /\ r.policy \in list_policies(w)
             /\ resource_matches(r.object, r.policy.pattern)
             /\ r.explicit <=> normalize(r.policy.pattern) = r.object
             /\ u # Anonymous /\ ~is_engine_private(r.object)
             /\ can_administer_pattern(held, Lower[u], r.object)
  <2>1. PICK x \in pairs : r = RowOf(x)
    BY <1>1
  <2>2. r.object = x[1] /\ r.policy = x[2]
        /\ (r.explicit <=> normalize(x[2].pattern) = x[1])
    BY <2>1
  <2>3. /\ x[1] \in asked /\ ~is_engine_private(x[1]) /\ x[2] \in list_policies(w)
        /\ u # Anonymous /\ can_administer_pattern(held, Lower[u], x[1])
        /\ resource_matches(x[1], x[2].pattern)
    OBVIOUS
  <2> HIDE DEF asked, held, rows, pairs, RowOf
  <2> QED
    BY <2>2, <2>3
<1>4. ASSUME NEW x \in asked, NEW d \in list_policies(w), u # Anonymous,
             ~is_engine_private(x), can_administer_pattern(held, Lower[u], x),
             resource_matches(x, d.pattern)
      PROVE  \E r \in rows : /\ r.object = x /\ r.policy = d
                             /\ r.explicit <=> normalize(d.pattern) = x
  <2>1. <<x, d>> \in pairs
    BY <1>4
  <2>2. RowOf(<<x, d>>) \in rows
    BY <1>1, <2>1
  <2>3. /\ RowOf(<<x, d>>).object = x /\ RowOf(<<x, d>>).policy = d
        /\ RowOf(<<x, d>>).explicit <=> normalize(d.pattern) = x
    OBVIOUS
  <2> HIDE DEF RowOf, rows
  <2> QED
    BY <2>2, <2>3
<1> HIDE DEF asked, held, rows, pairs, RowOf
<1> QED
  BY <1>2, <1>3, <1>4 DEF asked, held, rows

LEMMA TableAgrees ==
  ASSUME CapabilityInv, NoBareName(Genesis)
  PROVE  ListingsAgree
<1> SUFFICES ASSUME NEW u \in Users, NEW w \in {Lower[o[1]] : o \in Objects}
    PROVE  LET rows == effective_grants_in(u, w, {o \in Objects : Lower[o[1]] = w})
               At(o) == {r \in rows : r.object = o}
           IN  /\ \A o \in {r.object : r \in rows} :
                    o # WholeWorkspace(o[1]) /\ Listable(u, o) =>
                      /\ {r.policy : r \in At(o)} = effective_grants_on(o)
                      /\ {r.policy : r \in {r \in At(o) : r.explicit}} = grants_on(o)
               /\ Listable(u, WholeWorkspace(w)) =>
                    {r.policy : r \in {r \in rows : r.explicit}} = grants_on(WholeWorkspace(w))
  BY DEF ListingsAgree
<1> DEFINE objects == {o \in Objects : Lower[o[1]] = w}
           asked == {normalize(o) : o \in objects}
                      \union {normalize(d.pattern) : d \in list_policies(w)}
           held == list_policies_for_principal(w, Lower[u])
           rows == effective_grants_in(u, w, objects)
           At(o) == {r \in rows : r.object = o}
<1>1. w \in Name /\ Lower[w] = w
  BY ObjectParts, NamesAssumption
<1>2. /\ \A x \in asked : x \in Path /\ x # <<>> /\ normalize(x) = x /\ x[1] = w
      /\ \A r \in rows : /\ r.object \in asked /\ r.policy \in list_policies(w)
                         /\ resource_matches(r.object, r.policy.pattern)
                         /\ r.explicit <=> normalize(r.policy.pattern) = r.object
                         /\ u # Anonymous /\ ~is_engine_private(r.object)
                         /\ can_administer_pattern(held, Lower[u], r.object)
      /\ \A x \in asked, d \in list_policies(w) :
           /\ u # Anonymous /\ ~is_engine_private(x)
           /\ can_administer_pattern(held, Lower[u], x)
           /\ resource_matches(x, d.pattern)
           => \E r \in rows : /\ r.object = x /\ r.policy = d
                              /\ r.explicit <=> normalize(d.pattern) = x
  <2>1. objects \in SUBSET {o \in Objects : Lower[o[1]] = w}
    OBVIOUS
  <2> HIDE DEF objects
  <2> QED
    BY <1>1, <2>1, TableRows
<1>3. \A d \in list_policies(w) :
        LET p == normalize(d.pattern) IN
        /\ d.pattern \in Path /\ p \in Path /\ p # <<>> /\ p[1] = w
        /\ ~is_engine_private(p) /\ Len(p) > 1 /\ p \in asked /\ normalize(p) = p
        /\ resource_matches(p, d.pattern)
  <2> SUFFICES ASSUME NEW d \in list_policies(w)
      PROVE  LET p == normalize(d.pattern) IN
             /\ d.pattern \in Path /\ p \in Path /\ p # <<>> /\ p[1] = w
             /\ ~is_engine_private(p) /\ Len(p) > 1 /\ p \in asked /\ normalize(p) = p
             /\ resource_matches(p, d.pattern)
    OBVIOUS
  <2> DEFINE p == normalize(d.pattern)
  <2>1. d \in policies /\ d.workspace = w
    BY DEF list_policies
  <2>2. /\ d.pattern \in Path /\ p \in Path /\ p # <<>> /\ p[1] = w
        /\ ~is_engine_private(p) /\ Len(p) > 1
    BY <2>1, StoredPatterns
  <2>3. p \in asked
    OBVIOUS
  <2> HIDE DEF asked
  <2>4. normalize(p) = p
    BY <2>2, NormalizeTwice
  <2>5. Covers(p, p)
    BY <2>2, CoversReflexive
  <2> QED
    BY <2>2, <2>3, <2>4, <2>5 DEF resource_matches
<1> HIDE DEF objects, asked, held, rows
<1>4. ASSUME NEW o \in {r.object : r \in rows}, o # WholeWorkspace(o[1])
      PROVE  /\ {r.policy : r \in At(o)} = effective_grants_on(o)
             /\ {r.policy : r \in {r \in At(o) : r.explicit}} = grants_on(o)
  <2>1. /\ o \in asked /\ u # Anonymous /\ ~is_engine_private(o)
        /\ can_administer_pattern(held, Lower[u], o)
        /\ normalize(o) = o /\ o[1] = w
    BY <1>2
  <2>2. effective_grants_on(o) = {d \in list_policies(w) : resource_matches(o, d.pattern)}
    <3>1. effective_grants_on(o) =
            {d \in list_policies(normalize(o)[1]) :
               \/ normalize(o) = WholeWorkspace(normalize(o)[1])
               \/ TRUE /\ resource_matches(normalize(o), d.pattern)
               \/ ~TRUE /\ normalize(d.pattern) = normalize(o)}
      BY Zenon DEF effective_grants_on, _policy_rows
    <3> QED
      BY <1>4, <2>1, <3>1
  <2>3. grants_on(o) = {d \in list_policies(w) : normalize(d.pattern) = o}
    <3>1. grants_on(o) =
            {d \in list_policies(normalize(o)[1]) :
               \/ normalize(o) = WholeWorkspace(normalize(o)[1])
               \/ FALSE /\ resource_matches(normalize(o), d.pattern)
               \/ ~FALSE /\ normalize(d.pattern) = normalize(o)}
      BY Zenon DEF grants_on, _policy_rows
    <3> QED
      BY <1>4, <2>1, <3>1
  <2>4. \A d \in list_policies(w) : resource_matches(o, d.pattern) =>
          \E r \in At(o) : r.policy = d /\ (r.explicit <=> normalize(d.pattern) = o)
    BY <1>2, <2>1
  <2>5. \A r \in At(o) : /\ r.policy \in list_policies(w)
                         /\ resource_matches(o, r.policy.pattern)
                         /\ r.explicit <=> normalize(r.policy.pattern) = o
    BY <1>2
  <2>6. \A d \in list_policies(w) : normalize(d.pattern) = o => resource_matches(o, d.pattern)
    BY <1>3
  <2> HIDE DEF At
  <2> QED
    BY <2>2, <2>3, <2>4, <2>5, <2>6
<1>5. ASSUME Listable(u, WholeWorkspace(w))
      PROVE  {r.policy : r \in {r \in rows : r.explicit}} = grants_on(WholeWorkspace(w))
  <2> DEFINE p == WholeWorkspace(w)
  <2>1. p \in Path /\ Len(p) = 2 /\ p[1] = w /\ p[2] = WILDCARD_SEGMENT /\ normalize(p) = p
    BY <1>1, NormalizeWhole
  <2>2. grants_on(p) = list_policies(w)
    <3>1. grants_on(p) =
            {d \in list_policies(normalize(p)[1]) :
               \/ normalize(p) = WholeWorkspace(normalize(p)[1])
               \/ FALSE /\ resource_matches(normalize(p), d.pattern)
               \/ ~FALSE /\ normalize(d.pattern) = normalize(p)}
      BY Zenon DEF grants_on, _policy_rows
    <3> QED
      BY <2>1, <3>1
  <2>3. u # Anonymous /\ can_administer_pattern(held, Lower[u], p)
    BY <1>5, <2>1 DEF Listable, held
  <2>4. ASSUME NEW d \in list_policies(w)
        PROVE  can_administer_pattern(held, Lower[u], normalize(d.pattern))
    <3> DEFINE q == normalize(d.pattern)
    <3>1. q \in Path /\ q # <<>> /\ q[1] = w /\ ~is_engine_private(q) /\ Len(q) > 1
          /\ normalize(q) = q
      BY <1>3
    <3>2. resource_matches(q, p)
      <4>1. Covers(p, q)
        BY <2>1, <3>1, CoversWholeWorkspace
      <4> QED
        BY <2>1, <3>1, <4>1 DEF resource_matches
    <3>3. \A h \in held : h.pattern \in Path
      <4>1. held \subseteq list_policies(w)
        BY DEF held, list_policies_for_principal
      <4> QED
        BY <1>3, <4>1
    <3> HIDE DEF p, q
    <3> QED
      BY <2>1, <2>3, <3>1, <3>2, <3>3, AuthorityReachesDown DEF q
  <2>5. \A d \in list_policies(w) : \E r \in rows : r.policy = d /\ r.explicit
    BY <1>2, <1>3, <2>3, <2>4
  <2>6. \A r \in rows : r.policy \in list_policies(w)
    BY <1>2
  <2> QED
    BY <2>2, <2>5, <2>6
<1> QED
  BY <1>4, <1>5 DEF rows, objects

\* At every moment an object's listing is what the checks decide by.
THEOREM ListingIsTheTruth == CapabilitySpec => []EffectiveIsTheTruth
BY ListedIsTrue, PTL

\* At every moment what an identity is the only one to administer is under a policy
\* that is listed as its own.
THEOREM OffboardingAlwaysWarned == CapabilitySpec => []OffboardingIsWarned
BY LeavingIsWarned, PTL

\* At every moment a reported setting is access of the compactor of that moment to
\* everything in the workspace: the setting's policy cannot have been filed under a
\* workspace that everybody's grants decide about.
THEOREM ReportedIsAccess == CapabilitySpec => []ReportedMaintenanceIsAccess
BY CapabilityInvHolds, ReportIsAccess, PTL

\* At every moment the workspace's table and the listings of its objects agree, if
\* the store did not begin with a policy on the bare name of a workspace: the table
\* leaves such a policy out, for an owner of all that is in the workspace has no
\* authority over its name, and no statement creates one.
THEOREM TableAlwaysAgrees ==
  ASSUME NoBareName(Genesis)
  PROVE  CapabilitySpec => []ListingsAgree
<1>1. CapabilityInv => ListingsAgree
  BY TableAgrees
<1> QED
  BY <1>1, CapabilityInvHolds, PTL

(***************************************************************************)
(* One session at a time: what a setting finds and does is so at its end.  *)
(***************************************************************************)
\* What a statement that has ended says.
Lasts(c) ==
  Settled(c) =>
    /\ outcome[c] \notin {"Conflict", "NotFound"}
    /\ outcome[c] = "ok" =>
         (Maintained(setting[c].workspace, setting[c].principal) <=> setting[c].enabled)

LEMMA SettingsParts ==
  ASSUME SettingsInv, NEW c \in Caller
  PROVE  /\ CapabilityInv /\ GrantsInv /\ TypeOK /\ CapabilityTypeOK
         /\ SettingsAreOne(policies) /\ SettingInv(c) /\ SurfaceInv(c) /\ Lasts(c)
         /\ policies \subseteq Policy
         /\ pc[c] # "idle" => call[c] \in Call /\ call[c].op \in {"grant", "revoke_grant"}
BY DEF SettingsInv, CapabilityInv, GrantsInv, RacingInv, CallInv, TypeOK, PolicyStoreTypeOK,
       SurfaceInv, Lasts, SettingTakesEffect, MaintenanceIsIdempotent

LEMMA SettingsJoined ==
  ASSUME OneSession, NEW c \in Caller, CapabilityInv', SettingsAreOne(policies'),
         SettingInv(c)', Lasts(c)'
  PROVE  SettingsInv'
<1>1. \A d \in Caller : d = c
  BY DEF OneSession
<1>2. SettingsAreOne(policies)'
  BY DEF SettingsAreOne
<1>3. SettingTakesEffect'
  BY <1>1 DEF SettingTakesEffect, Lasts
<1>4. MaintenanceIsIdempotent'
  BY <1>1 DEF MaintenanceIsIdempotent, Lasts
<1>5. \A d \in Caller : SettingInv(d)'
  BY <1>1
<1> QED
  BY <1>2, <1>3, <1>4, <1>5 DEF SettingsInv

\* Setting c asks for what the store says.
AsAsked(c) == Maintained(setting[c].workspace, setting[c].principal) <=> setting[c].enabled

LEMMA EndingSettles ==
  ASSUME SettingsInv, NEW c \in Caller, NEW result, Return(c, result),
         UNCHANGED <<policies, setting>>,
         setting[c] # NoSetting =>
           result \notin {"Conflict", "NotFound"} /\ (result = "ok" => AsAsked(c))
  PROVE  SettingInv(c)' /\ Lasts(c)'
<1>1. pc'[c] = "idle" /\ outcome'[c] = result
  BY SettingsParts DEF Return, TypeOK
<1>2. \A w, x : Maintained(w, x)' <=> Maintained(w, x)
  BY DEF Maintained
<1>3. SettingInv(c)'
  <2>1. setting[c] # NoSetting => Lower[setting[c].workspace] = setting[c].workspace
    BY SettingsParts DEF SettingInv
  <2> QED
    BY <1>1, <2>1 DEF SettingInv, Granting, Resolving, Removing
<1>4. Lasts(c)'
  BY <1>1, <1>2 DEF Lasts, Settled, AsAsked
<1> QED
  BY <1>3, <1>4

LEMMA GoingOnSettles ==
  ASSUME SettingsInv, NEW c \in Caller, NEW at, Goto(c, at),
         UNCHANGED <<policies, setting, call>>,
         \/ pc[c] \in Granting /\ at \in Granting
         \/ pc[c] \in Resolving /\ at \in Resolving
         \/ pc[c] \in Removing /\ at \in Removing
  PROVE  SettingInv(c)' /\ Lasts(c)'
<1>1. pc'[c] = at
  BY SettingsParts DEF Goto, TypeOK
<1>2. \A w, x : Maintained(w, x)' <=> Maintained(w, x)
  BY DEF Maintained
<1>3. \A s : CallsFor(c, s)' <=> CallsFor(c, s)
  BY DEF CallsFor
<1>4. \A s : Pinned(c, s)' <=> Pinned(c, s)
  BY DEF Pinned, get_policy, list_policies
<1>5. at # "idle" /\ pc[c] # "idle"
  BY DEF Granting, Resolving, Removing
<1>6. SettingInv(c)'
  <2> DEFINE s == setting[c]
  <2>1. SettingInv(c)
    BY SettingsParts
  <2> QED
    BY <1>1, <1>2, <1>3, <1>4, <1>5, <2>1 DEF SettingInv, Granting, Resolving, Removing
<1>7. Lasts(c)'
  BY <1>1, <1>5 DEF Lasts, Settled
<1> QED
  BY <1>6, <1>7

\* What is stored is spelt as the lookups compare it.
LEMMA StoredAsCompared ==
  ASSUME GrantsInv, NEW p \in policies
  PROVE  normalize(p.pattern) = p.pattern /\ IsPattern(p.pattern) /\ p.pattern[1] = p.workspace
         /\ p.pattern \in Path
<1>1. p.pattern \in Path /\ IsPattern(p.pattern) /\ p.pattern[1] = p.workspace
  BY DEF GrantsInv, RacingInv, StoreInv, WellFiled, TypeOK, PolicyStoreTypeOK, Policy
<1>2. /\ normalize(p.pattern) \in Path /\ Len(normalize(p.pattern)) = Len(p.pattern)
      /\ \A i \in 1..Len(p.pattern) : normalize(p.pattern)[i] = p.pattern[i]
  BY <1>1, NormalizeSegments, NamesAssumption DEF IsPattern, IsPatternShape
<1>3. normalize(p.pattern) = p.pattern
  BY <1>1, <1>2, SeqEqual DEF Path
<1> QED
  BY <1>1, <1>3

\* The setting that is read is the policy that says so.
LEMMA ReadAsStored ==
  ASSUME GrantsInv, NEW w \in Name, NEW x
  PROVE  _maintenance_policy(w, x) # {} <=> Maintained(w, x)
<1>1. \A p \in policies : normalize(p.pattern) = p.pattern
  BY StoredAsCompared
<1> QED
  BY <1>1 DEF _maintenance_policy, Maintained, list_policies_for_principal, list_policies
\* The compactor a setting is about is a platform identity, as it is spelt in the store.
LEMMA SettingsCompactor ==
  ASSUME OneSession, SettingsInv, NEW c \in Caller, setting[c] # NoSetting
  PROVE  /\ setting[c] \in Setting
         /\ setting[c].principal \in PLATFORM_IDENTITIES
         /\ Lower[setting[c].principal] = setting[c].principal
<1>1. setting[c] \in Setting /\ era \in 1..Len(COMPACTION_IDENTITY)
  BY SettingsParts DEF CapabilityTypeOK
<1>2. PICK e \in 1..era : setting[c].principal = Lower[COMPACTION_IDENTITY[e]]
  BY SettingsParts DEF SurfaceInv, HasCompacted
<1>3. e \in 1..Len(COMPACTION_IDENTITY)
  BY <1>1, <1>2, CapabilityAssumption
<1>4. setting[c].principal \in PLATFORM_IDENTITIES
  BY <1>2, <1>3 DEF OneSession
<1> QED
  BY <1>1, <1>4, AccessAssumption

\* There is nothing for a setting to conflict with but itself.
LEMMA NothingConflicts ==
  ASSUME OneSession, SettingsInv, NEW c \in Caller, setting[c] # NoSetting,
         pc[c] = "grant_conflict",
         NEW p \in list_policies_for_principal(call[c].workspace, Lower[call[c].principal]),
         p.pattern = call[c].pattern \/ resource_matches(call[c].pattern, p.pattern)
  PROVE  FALSE
<1> DEFINE s == setting[c]
<1>1. /\ s.workspace \in Name /\ s.principal \in PLATFORM_IDENTITIES
      /\ Lower[s.principal] = s.principal
  BY SettingsCompactor DEF Setting
<1>2. CallsFor(c, s) /\ ~Maintained(s.workspace, s.principal)
  BY SettingsParts DEF SettingInv, Granting
<1>3. p \in policies /\ p.workspace = s.workspace /\ p.principal = s.principal
  BY <1>1, <1>2 DEF CallsFor, list_policies_for_principal, list_policies
<1>4. p.pattern \in Path /\ IsPattern(p.pattern) /\ p.pattern[1] = s.workspace
  BY <1>3, StoredAsCompared, SettingsParts
<1>5. p.pattern = WholeWorkspace(s.workspace)
  BY <1>1, <1>2, <1>4, OnlyWholeCoversWhole DEF CallsFor
<1>6. p.role = MAINTENANCE_ROLE
  BY <1>1, <1>3, <1>5, SettingsParts DEF SettingsAreOne
<1> QED
  BY <1>2, <1>3, <1>5, <1>6 DEF Maintained

\* The steps that read.
LEMMA AuthorizeSettles ==
  ASSUME SettingsInv, NEW c \in Caller, NEW patterns, NEW granted,
         Authorize(c, patterns, granted), UNCHANGED setting,
         \/ pc[c] \in Granting /\ granted \in Granting
         \/ pc[c] \in Resolving /\ granted \in Resolving
         \/ pc[c] \in Removing /\ granted \in Removing
  PROVE  SettingInv(c)' /\ Lasts(c)'
<1>1. UNCHANGED policies
  BY DEF Authorize, ReadOnly, store
<1>2. CASE Goto(c, granted) /\ UNCHANGED <<call, seen>>
  BY <1>1, <1>2, GoingOnSettles
<1>3. CASE Return(c, "AccessDenied")
  BY <1>1, <1>3, EndingSettles
<1> QED
  BY <1>2, <1>3 DEF Authorize

LEMMA CheckConflictSettles ==
  ASSUME OneSession, SettingsInv, NEW c \in Caller, GrantCheckConflict(c), UNCHANGED setting
  PROVE  SettingInv(c)' /\ Lasts(c)'
<1>1. UNCHANGED policies /\ pc[c] = "grant_conflict"
  BY DEF GrantCheckConflict, CheckConflict, ReadOnly, store
<1>2. CASE Goto(c, "grant_create") /\ UNCHANGED <<call, seen>>
  BY <1>1, <1>2, GoingOnSettles DEF Granting
<1>3. ASSUME Return(c, "Conflict"),
             NEW p \in list_policies_for_principal(call[c].workspace, Lower[call[c].principal]),
             p.pattern = call[c].pattern \/ resource_matches(call[c].pattern, p.pattern)
      PROVE  SettingInv(c)' /\ Lasts(c)'
  <2>1. setting[c] = NoSetting
    BY <1>1, <1>3, NothingConflicts
  <2> QED
    BY <1>1, <1>3, <2>1, EndingSettles
<1> QED
  BY <1>2, <1>3 DEF GrantCheckConflict, CheckConflict, find_conflict

LEMMA RevokeGetSettles ==
  ASSUME SettingsInv, NEW c \in Caller, RevokeGet(c), UNCHANGED setting
  PROVE  SettingInv(c)' /\ Lasts(c)'
<1>1. UNCHANGED policies /\ pc[c] = "revoke_get"
  BY DEF RevokeGet, Fetch, ReadOnly, store
<1>2. CASE Goto(c, "revoke_authorize") /\ UNCHANGED call
  BY <1>1, <1>2, GoingOnSettles DEF Removing
<1>3. CASE Return(c, "SelfAccess")
  BY <1>1, <1>3, EndingSettles
<1>4. CASE Return(c, "NotFound") /\ get_policy(call[c].workspace, call[c].id) = {}
  <2>1. setting[c] = NoSetting
    BY <1>1, <1>4, SettingsParts DEF SettingInv, Removing, Pinned, CallsFor
  <2> QED
    BY <1>1, <1>4, <2>1, EndingSettles
<1> QED
  BY <1>2, <1>3, <1>4 DEF RevokeGet, Fetch

\* The role of a setting is spelt as roles are.
LEMMA MaintenanceRoleIsOne == LowerRole(MAINTENANCE_ROLE) = MAINTENANCE_ROLE
BY GrantsAssumption DEF MAINTENANCE_ROLE, ROLES

LEMMA ResolveMatchSettles ==
  ASSUME OneSession, SettingsInv, NEW c \in Caller, ResolveMatch(c), UNCHANGED setting
  PROVE  SettingInv(c)' /\ Lasts(c)'
<1> DEFINE s == setting[c]
<1>1. /\ UNCHANGED policies /\ pc[c] = "resolve_match" /\ call[c] \in Call
      /\ TypeOK /\ GrantsInv
  BY SettingsParts DEF ResolveMatch, ReadOnly, store
<1>2. s # NoSetting => /\ CallsFor(c, s) /\ ~s.enabled /\ Maintained(s.workspace, s.principal)
                       /\ Lower[s.workspace] = s.workspace
  BY <1>1, SettingsParts DEF SettingInv, Resolving
<1>3. CASE /\ Return(c, "NotFound")
           /\ {p \in list_policies_for_principal(call[c].workspace, call[c].principal) :
                 normalize(p.pattern) = call[c].pattern /\ LowerRole(p.role) = call[c].role} = {}
  <2>1. \A p \in policies : normalize(p.pattern) = p.pattern
    BY <1>1, StoredAsCompared
  <2>2. s = NoSetting
    BY <1>2, <1>3, <2>1, MaintenanceRoleIsOne
    DEF CallsFor, Maintained, list_policies_for_principal, list_policies
  <2> QED
    BY <1>1, <1>3, <2>2, EndingSettles
<1>4. ASSUME NEW p \in list_policies_for_principal(call[c].workspace, call[c].principal),
             normalize(p.pattern) = call[c].pattern, LowerRole(p.role) = call[c].role,
             call' = [call EXCEPT ![c].id = p.id], Goto(c, "revoke_get")
      PROVE  SettingInv(c)' /\ Lasts(c)'
  <2>1. pc'[c] = "revoke_get"
    BY <1>1, <1>4 DEF Goto, TypeOK
  <2>2. call'[c] = [call[c] EXCEPT !.id = p.id]
    BY <1>1, <1>4 DEF TypeOK
  <2>3. /\ call'[c].id = p.id /\ call'[c].workspace = call[c].workspace
        /\ call'[c].principal = call[c].principal /\ call'[c].role = call[c].role
        /\ call'[c].pattern = call[c].pattern
    BY <1>1, <2>2 DEF Call
  <2>4. /\ p \in policies /\ p.workspace = call[c].workspace
        /\ p.principal = call[c].principal /\ p.pattern = call[c].pattern
    BY <1>1, <1>4, StoredAsCompared DEF list_policies_for_principal, list_policies
  <2>5. ASSUME s # NoSetting PROVE CallsFor(c, s)' /\ Pinned(c, s)'
    <3>1. s.principal \in PLATFORM_IDENTITIES
      BY <2>5, SettingsCompactor
    <3>2. p.role = MAINTENANCE_ROLE
      BY <1>2, <2>4, <2>5, <3>1, SettingsParts DEF CallsFor, SettingsAreOne
    <3> QED
      BY <1>1, <1>2, <2>3, <2>4, <2>5, <3>2 DEF CallsFor, Pinned, get_policy, list_policies
  <2>6. \A w, x : Maintained(w, x)' <=> Maintained(w, x)
    BY <1>1 DEF Maintained
  <2>7. SettingInv(c)'
    BY <1>2, <2>1, <2>5, <2>6 DEF SettingInv, Granting, Resolving, Removing
  <2> QED
    BY <2>1, <2>7 DEF Lasts, Settled
<1> QED
  BY <1>3, <1>4 DEF ResolveMatch

\* What is recorded is the end of it.
LEMMA RecordSettles ==
  ASSUME SettingsInv, NEW c \in Caller, RecordCreated(c) \/ RecordDeleted(c), UNCHANGED setting
  PROVE  SettingInv(c)' /\ Lasts(c)'
<1>1. UNCHANGED policies /\ pc[c] \in {"record_created", "record_deleted"}
  BY DEF RecordCreated, RecordDeleted, store
<1>2. Return(c, "ok")
  <2>1. call[c].op # "bootstrap"
    BY <1>1, SettingsParts
  <2> QED
    BY <2>1 DEF RecordCreated, RecordDeleted
<1>3. setting[c] # NoSetting => AsAsked(c)
  BY <1>1, SettingsParts DEF SettingInv, AsAsked
<1> QED
  BY <1>1, <1>2, <1>3, EndingSettles
\* The writes: a policy of a platform identity is created only by a setting that found
\* none, and a setting deletes the one there is.
LEMMA GrantCreateSettles ==
  ASSUME OneSession, SettingsInv, NEW c \in Caller, GrantCreate(c), UNCHANGED setting
  PROVE  SettingInv(c)' /\ Lasts(c)' /\ SettingsAreOne(policies')
<1> DEFINE k == [call[c] EXCEPT !.id = nextId]
           s == setting[c]
           new == [id |-> nextId, workspace |-> call[c].workspace, principal |-> call[c].principal,
                   role |-> call[c].role, pattern |-> call[c].pattern,
                   updated_by |-> call[c].actor]
<1>1. /\ pc[c] = "grant_create" /\ call[c] \in Call /\ TypeOK
      /\ call' = [call EXCEPT ![c] = k] /\ Goto(c, "record_created")
      /\ create_policy(k.workspace, k.principal, k.role, k.pattern, k.actor)
  BY SettingsParts DEF GrantCreate
<1>2. /\ k.workspace = call[c].workspace /\ k.principal = call[c].principal
      /\ k.role = call[c].role /\ k.pattern = call[c].pattern /\ k.actor = call[c].actor
  BY <1>1 DEF Call
<1>3. policies' = policies \union {new}
  BY <1>1, <1>2 DEF create_policy
<1>4. /\ new.workspace = call[c].workspace /\ new.principal = call[c].principal
      /\ new.role = call[c].role /\ new.pattern = call[c].pattern
  OBVIOUS
<1> HIDE DEF k, new
<1>5. call'[c] = k /\ pc'[c] = "record_created"
  BY <1>1 DEF TypeOK, Goto
<1>6. SettingInv(c) /\ SettingsAreOne(policies)
  BY SettingsParts
<1>7. s # NoSetting => /\ CallsFor(c, s) /\ s.enabled /\ ~Maintained(s.workspace, s.principal)
                       /\ Lower[s.workspace] = s.workspace
  BY <1>1, <1>6 DEF SettingInv, Granting
<1>8. SettingInv(c)'
  <2>1. ASSUME s # NoSetting PROVE CallsFor(c, s)' /\ Maintained(s.workspace, s.principal)'
    BY <1>2, <1>3, <1>4, <1>5, <1>7, <2>1 DEF CallsFor, Maintained
  <2> QED
    BY <1>5, <1>7, <2>1 DEF SettingInv, Granting, Resolving, Removing
<1>9. Lasts(c)'
  BY <1>5 DEF Lasts, Settled
<1>10. SettingsAreOne(policies')
  <2>1. ASSUME new.principal \in PLATFORM_IDENTITIES,
               new.pattern = WholeWorkspace(new.workspace)
        PROVE  /\ new.role = MAINTENANCE_ROLE
               /\ \A q \in policies : ~(q.workspace = new.workspace /\ q.principal = new.principal
                                          /\ q.pattern = new.pattern)
    <3>1. s # NoSetting
      BY <1>1, <1>4, <1>6, <2>1 DEF SettingInv, Granting
    <3>2. new.role = MAINTENANCE_ROLE /\ new.workspace = s.workspace /\ new.principal = s.principal
          /\ new.pattern = WholeWorkspace(s.workspace)
      BY <1>4, <1>7, <3>1 DEF CallsFor
    <3>3. ASSUME NEW q \in policies, q.workspace = new.workspace, q.principal = new.principal,
                 q.pattern = new.pattern
          PROVE  FALSE
      <4>1. q.role = MAINTENANCE_ROLE
        BY <1>6, <2>1, <3>3 DEF SettingsAreOne
      <4> QED
        BY <1>7, <3>1, <3>2, <3>3, <4>1 DEF Maintained
    <3> QED
      BY <3>2, <3>3
  <2> QED
    BY <1>3, <1>6, <2>1 DEF SettingsAreOne
<1> QED
  BY <1>8, <1>9, <1>10

LEMMA RevokeDeleteSettles ==
  ASSUME OneSession, SettingsInv, NEW c \in Caller, RevokeDelete(c), UNCHANGED setting
  PROVE  SettingInv(c)' /\ Lasts(c)' /\ SettingsAreOne(policies')
<1> DEFINE s == setting[c]
<1>1. /\ pc[c] = "revoke_delete" /\ TypeOK /\ UNCHANGED call /\ Goto(c, "record_deleted")
      /\ policies' = policies \ get_policy(call[c].workspace, call[c].id)
  BY SettingsParts DEF RevokeDelete, delete_policy
<1>2. pc'[c] = "record_deleted"
  BY <1>1 DEF TypeOK, Goto
<1>3. SettingsAreOne(policies) /\ SettingsAreOne(policies')
  BY <1>1, SettingsParts DEF SettingsAreOne
<1>4. ASSUME s # NoSetting
      PROVE  /\ CallsFor(c, s)' /\ ~s.enabled /\ ~Maintained(s.workspace, s.principal)'
             /\ Lower[s.workspace] = s.workspace
  <2>1. /\ CallsFor(c, s) /\ Pinned(c, s) /\ ~s.enabled /\ Lower[s.workspace] = s.workspace
    BY <1>1, <1>4, SettingsParts DEF SettingInv, Removing
  <2>2. PICK p \in get_policy(s.workspace, call[c].id) :
          p.principal = s.principal /\ p.pattern = WholeWorkspace(s.workspace)
    BY <2>1 DEF Pinned
  <2>3. p \in policies /\ p.workspace = s.workspace /\ p \notin policies'
    BY <1>1, <2>1, <2>2 DEF get_policy, list_policies, CallsFor
  <2>4. s.principal \in PLATFORM_IDENTITIES
    BY <1>4, SettingsCompactor
  <2>5. ~Maintained(s.workspace, s.principal)'
    BY <1>1, <1>3, <2>2, <2>3, <2>4 DEF SettingsAreOne, Maintained
  <2> QED
    BY <1>1, <2>1, <2>5 DEF CallsFor
<1>5. SettingInv(c)'
  BY <1>2, <1>4 DEF SettingInv, Granting, Resolving, Removing
<1>6. Lasts(c)'
  BY <1>2 DEF Lasts, Settled
<1> QED
  BY <1>3, <1>5, <1>6

\* A call under way, or its end.
LEMMA CallSettles ==
  ASSUME OneSession, SettingsInv, NEW c \in Caller, Step(c) \/ Abort(c), UNCHANGED surface
  PROVE  SettingsInv'
<1>1. CapabilityInv' /\ UNCHANGED setting
  BY CallGoesOn, SettingsParts DEF surface
<1>2. /\ pc[c] \in {"idle", "record_created", "record_deleted"}
                     \union Granting \union Resolving \union Removing
      /\ SettingsAreOne(policies)
  BY SettingsParts DEF SettingInv
<1>3. CASE GrantAuthorize(c)
  <2>1. SettingInv(c)' /\ Lasts(c)'
    BY <1>1, <1>3, AuthorizeSettles DEF GrantAuthorize, Granting
  <2> QED
    BY <1>1, <1>2, <1>3, <2>1, SettingsJoined DEF GrantAuthorize, Authorize, ReadOnly, store
<1>4. CASE GrantCheckConflict(c)
  BY <1>1, <1>2, <1>4, CheckConflictSettles, SettingsJoined
  DEF GrantCheckConflict, CheckConflict, ReadOnly, store
<1>5. CASE GrantCreate(c)
  BY <1>1, <1>5, GrantCreateSettles, SettingsJoined
<1>6. CASE RevokeGet(c)
  BY <1>1, <1>2, <1>6, RevokeGetSettles, SettingsJoined DEF RevokeGet, Fetch, ReadOnly, store
<1>7. CASE RevokeAuthorize(c)
  <2>1. SettingInv(c)' /\ Lasts(c)'
    BY <1>1, <1>7, AuthorizeSettles DEF RevokeAuthorize, Removing
  <2> QED
    BY <1>1, <1>2, <1>7, <2>1, SettingsJoined DEF RevokeAuthorize, Authorize, ReadOnly, store
<1>8. CASE RevokeDelete(c)
  BY <1>1, <1>8, RevokeDeleteSettles, SettingsJoined
<1>9. CASE ResolveAuthorize(c)
  <2>1. SettingInv(c)' /\ Lasts(c)'
    BY <1>1, <1>9, AuthorizeSettles DEF ResolveAuthorize, Resolving
  <2> QED
    BY <1>1, <1>2, <1>9, <2>1, SettingsJoined DEF ResolveAuthorize, Authorize, ReadOnly, store
<1>10. CASE ResolveMatch(c)
  BY <1>1, <1>2, <1>10, ResolveMatchSettles, SettingsJoined DEF ResolveMatch, ReadOnly, store
<1>11. CASE RecordCreated(c) \/ RecordDeleted(c)
  BY <1>1, <1>2, <1>11, RecordSettles, SettingsJoined DEF RecordCreated, RecordDeleted, store
<1>12. CASE Abort(c)
  <2>1. UNCHANGED policies /\ Return(c, "Aborted")
    BY <1>12 DEF Abort, ReadOnly, store
  <2> QED
    BY <1>1, <1>2, <2>1, EndingSettles, SettingsJoined
<1>13. ~(\/ UpdateGet(c) \/ UpdateAuthorize(c) \/ UpdateCheckConflict(c) \/ UpdateWrite(c)
         \/ BootstrapCheckVacant(c) \/ BootstrapCreate(c) \/ RecordUpdated(c))
  BY <1>2 DEF UpdateGet, UpdateAuthorize, UpdateCheckConflict, UpdateWrite, BootstrapCheckVacant,
              BootstrapCreate, RecordUpdated, Granting, Resolving, Removing
<1> QED
  BY <1>3, <1>4, <1>5, <1>6, <1>7, <1>8, <1>9, <1>10, <1>11, <1>12, <1>13 DEF Step
\* Where the call of a statement begins, if it does.
LEMMA EnterSettles ==
  ASSUME TypeOK, NEW c \in Caller, NEW r \in Call, Enter(c, r), r.op \in {"grant", "revoke_grant"}
  PROVE  \/ \E result \in Outcome \ {"ok", "Conflict", "NotFound"} : Return(c, result)
         \/ /\ pc'[c] = IF r.op = "grant" THEN "grant_authorize" ELSE "resolve_authorize"
            /\ call'[c] = Normalized(r)
<1>1. Normalized(r).op = r.op
  BY NormalizedCall
<1>2. Refusal(Normalized(r)) \in {"none", "InvalidRole", "InvalidPattern", "SelfAccess"}
  BY <1>1 DEF Refusal, ByValueRefusal
<1>3. CASE Refusal(Normalized(r)) # "none"
  BY <1>2, <1>3 DEF Enter, Outcome
<1>4. CASE Refusal(Normalized(r)) = "none"
  BY <1>4 DEF Enter, Goto, TypeOK, FirstStoreCall
<1> QED
  BY <1>3, <1>4

\* A statement that sets nothing.
LEMMA ApplySettles ==
  ASSUME OneSession, SettingsInv, NEW c \in Caller, NEW s \in Statements, Apply(c, s)
  PROVE  SettingsInv'
<1>1. CapabilityInv'
  BY ApplyKeeps, SettingsParts
<1>2. UNCHANGED policies /\ SettingsAreOne(policies) /\ TypeOK
  BY SettingsParts DEF Apply, store
<1>3. setting'[c] = NoSetting
  BY SettingsParts DEF Apply, CapabilityTypeOK
<1>4. Lasts(c)'
  BY <1>3 DEF Lasts, Settled
<1>5. CASE pc'[c] = "idle"
  <2>1. SettingInv(c)'
    BY <1>3, <1>5 DEF SettingInv, Granting
  <2> QED
    BY <1>1, <1>2, <1>4, <2>1, SettingsJoined
<1>6. CASE Return(c, "AccessDenied") \/ Return(c, "InvalidPattern")
  BY <1>2, <1>5, <1>6 DEF Return, TypeOK
<1>7. CASE /\ Lower[s.principal] \notin PLATFORM_IDENTITIES
           /\ IsPattern(normalize(s.pattern))
           /\ Enter(c, [s EXCEPT !.workspace = normalize(s.pattern)[1]])
  <2> DEFINE r == [s EXCEPT !.workspace = normalize(s.pattern)[1]]
  <2>1. s \in Call /\ s.op \in {"grant", "revoke_grant"}
    BY CapabilityAssumption
  <2>2. normalize(s.pattern)[1] \in Name
    BY <1>7, <2>1, NormalizeSegments, PatternHead DEF Call
  <2>3. r \in Call /\ r.op = s.op /\ r.principal = s.principal
    BY <2>1, <2>2 DEF Call
  <2>4. Enter(c, r)
    BY <1>7
  <2> HIDE DEF r
  <2>5. CASE \E result \in Outcome : Return(c, result)
    BY <1>2, <1>5, <2>5 DEF Return, TypeOK
  <2>6. CASE /\ pc'[c] \in {"grant_authorize", "resolve_authorize"}
             /\ call'[c] = Normalized(r)
    <3>1. call'[c].principal \notin PLATFORM_IDENTITIES
      BY <1>7, <2>1, <2>3, <2>6, NormalizedParts
    <3>2. SettingInv(c)'
      BY <1>3, <2>6, <3>1 DEF SettingInv, Granting, Resolving
    <3> QED
      BY <1>1, <1>2, <1>4, <3>2, SettingsJoined
  <2> QED
    BY <1>2, <2>1, <2>3, <2>4, <2>5, <2>6, EnterSettles
<1> QED
  BY <1>6, <1>7 DEF Apply, _refuse_platform_identity

\* SET maintenance is refused, or goes on to read.
LEMMA SetMaintenanceSettles ==
  ASSUME OneSession, SettingsInv, NEW c \in Caller, SetMaintenance(c)
  PROVE  SettingsInv'
<1>1. /\ CapabilityInv' /\ SettingsAreOne(policies) /\ TypeOK
      /\ UNCHANGED policies /\ pc[c] = "idle"
      /\ setting \in [Caller -> Setting \union {NoSetting}] /\ reading \in [Caller -> BOOLEAN]
  BY SetMaintenanceKeeps, SettingsParts DEF SetMaintenance, Ready, store, CapabilityTypeOK
<1>2. ASSUME Return(c, "AccessDenied") \/ Return(c, "InvalidPattern"),
             setting' = [setting EXCEPT ![c] = NoSetting]
      PROVE  SettingsInv'
  <2>1. pc'[c] = "idle" /\ setting'[c] = NoSetting
    BY <1>1, <1>2 DEF Return, TypeOK
  <2>2. SettingInv(c)' /\ Lasts(c)'
    BY <2>1 DEF SettingInv, Granting, Lasts, Settled
  <2> QED
    BY <1>1, <2>2, SettingsJoined
<1>3. ASSUME NEW s \in Settings, UNCHANGED local,
             setting' = [setting EXCEPT ![c] =
               [actor |-> s.actor, workspace |-> Lower[s.workspace], enabled |-> s.enabled,
                principal |-> maintenance_identity]],
             reading' = [reading EXCEPT ![c] = TRUE]
      PROVE  SettingsInv'
  <2>1. pc'[c] = "idle" /\ reading'[c] /\ setting'[c].workspace = Lower[s.workspace]
    BY <1>1, <1>3 DEF local
  <2>2. Lower[Lower[s.workspace]] = Lower[s.workspace]
    BY CapabilityAssumption, NamesAssumption DEF Wish
  <2>3. SettingInv(c)' /\ Lasts(c)'
    BY <2>1, <2>2 DEF SettingInv, Granting, Resolving, Removing, Lasts, Settled
  <2> QED
    BY <1>1, <2>3, SettingsJoined
<1> QED
  BY <1>2, <1>3 DEF SetMaintenance

\* The setting is read; either it is so already, or the call begins that makes it so.
LEMMA ReadingSettles ==
  ASSUME OneSession, SettingsInv, NEW c \in Caller, ReadMaintenance(c) \/ AbortReading(c)
  PROVE  SettingsInv'
<1> DEFINE s == setting[c]
           current == _maintenance_policy(s.workspace, s.principal) # {}
           r == MaintenanceCall(s)
<1>1. /\ CapabilityInv' /\ SettingsAreOne(policies) /\ TypeOK /\ GrantsInv /\ SettingInv(c)
      /\ UNCHANGED <<policies, setting>> /\ reading[c]
      /\ era \in 1..Len(COMPACTION_IDENTITY)
  BY ReadingKeeps, SettingsParts DEF ReadMaintenance, AbortReading, ReadOnly, store, CapabilityTypeOK
<1>2. s # NoSetting /\ HasCompacted(s.principal, era)
  BY <1>1, SettingsParts DEF SurfaceInv
<1>3. /\ s \in Setting /\ s.workspace \in Name /\ s.enabled \in BOOLEAN
      /\ Lower[s.principal] = s.principal /\ Lower[s.workspace] = s.workspace
  BY <1>1, <1>2, SettingsCompactor DEF Setting, SettingInv
<1>4. current <=> Maintained(s.workspace, s.principal)
  BY <1>1, <1>3, ReadAsStored
<1>5. ASSUME NEW result, Return(c, result), result \notin {"Conflict", "NotFound"},
             result = "ok" => (s.enabled <=> current)
      PROVE  SettingsInv'
  <2>1. SettingInv(c)' /\ Lasts(c)'
    BY <1>1, <1>4, <1>5, EndingSettles DEF AsAsked
  <2> QED
    BY <1>1, <2>1, SettingsJoined
<1>6. CASE Enter(c, r) /\ s.enabled # current
  <2>1. r \in Call /\ r.op \in {"grant", "revoke_grant"}
    BY <1>1, <1>2, <1>3, MaintenanceCalls
  <2>2. /\ r.op = (IF s.enabled THEN "grant" ELSE "revoke_grant")
        /\ r.workspace = s.workspace /\ r.principal = s.principal
        /\ r.role = MAINTENANCE_ROLE /\ r.pattern = WholeWorkspace(s.workspace)
    BY DEF MaintenanceCall
  <2>3. /\ Normalized(r).workspace = s.workspace /\ Normalized(r).principal = s.principal
        /\ Normalized(r).role = MAINTENANCE_ROLE
        /\ Normalized(r).pattern = WholeWorkspace(s.workspace)
    BY <1>3, <2>1, <2>2, NormalizedParts, NormalizeWhole
  <2>4. /\ s.enabled => r.op = "grant" /\ ~Maintained(s.workspace, s.principal)
        /\ ~s.enabled => r.op = "revoke_grant" /\ Maintained(s.workspace, s.principal)
    <3>1. current \in BOOLEAN
      OBVIOUS
    <3>2. s.enabled => ~current
      BY <1>6, <3>1
    <3>3. ~s.enabled => current
      BY <1>3, <1>6, <3>1
    <3> HIDE DEF r, current
    <3> QED
      BY <1>4, <2>2, <3>2, <3>3
  <2> HIDE DEF r, current
  <2>5. CASE \E result \in Outcome \ {"ok", "Conflict", "NotFound"} : Return(c, result)
    BY <1>5, <2>5
  <2>6. CASE /\ pc'[c] = (IF r.op = "grant" THEN "grant_authorize" ELSE "resolve_authorize")
             /\ call'[c] = Normalized(r)
    <3>1. CallsFor(c, s)'
      BY <1>1, <2>3, <2>6 DEF CallsFor
    <3>2. Maintained(s.workspace, s.principal)' <=> Maintained(s.workspace, s.principal)
      BY <1>1 DEF Maintained
    <3>3. \/ s.enabled /\ ~Maintained(s.workspace, s.principal)' /\ pc'[c] = "grant_authorize"
          \/ ~s.enabled /\ Maintained(s.workspace, s.principal)' /\ pc'[c] = "resolve_authorize"
      BY <2>4, <2>6, <3>2
    <3>4. SettingInv(c)'
      BY <1>1, <1>2, <1>3, <3>1, <3>3 DEF SettingInv, Granting, Resolving, Removing
    <3>5. Lasts(c)'
      BY <3>3 DEF Lasts, Settled
    <3> QED
      BY <1>1, <3>4, <3>5, SettingsJoined
  <2> QED
    BY <1>1, <1>6, <2>1, <2>5, <2>6, EnterSettles
<1> QED
  BY <1>3, <1>5, <1>6 DEF ReadMaintenance, AbortReading

LEMMA NothingSettles ==
  ASSUME OneSession, SettingsInv, CapabilityInv',
         UNCHANGED <<policies, pc, call, outcome, setting, reading>>
  PROVE  SettingsInv'
<1>1. SettingsAreOne(policies)' /\ \A w, x : Maintained(w, x)' <=> Maintained(w, x)
  BY DEF SettingsInv, SettingsAreOne, Maintained
<1>2. SettingTakesEffect' /\ MaintenanceIsIdempotent'
  BY <1>1 DEF SettingsInv, SettingTakesEffect, MaintenanceIsIdempotent, Settled
<1>3. ASSUME NEW c \in Caller PROVE SettingInv(c)'
  <2>1. \A s : (CallsFor(c, s)' <=> CallsFor(c, s)) /\ (Pinned(c, s)' <=> Pinned(c, s))
    BY DEF CallsFor, Pinned, get_policy, list_policies
  <2> QED
    BY <1>1, <2>1, SettingsParts DEF SettingInv
<1> QED
  BY <1>1, <1>2, <1>3 DEF SettingsInv

LEMMA SettingsInitially ==
  ASSUME OneSession, CapabilityInit
  PROVE  SettingsInv
<1>1. CapabilityInv
  BY CapabilityInitEstablishes
<1>2. /\ policies = Genesis
      /\ \A c \in Caller : setting[c] = NoSetting /\ pc[c] = "idle"
  BY DEF CapabilityInit, Init
<1>3. SettingTakesEffect /\ MaintenanceIsIdempotent
  BY <1>2 DEF SettingTakesEffect, MaintenanceIsIdempotent, Settled
<1>4. \A c \in Caller : SettingInv(c)
  BY <1>2 DEF SettingInv, Granting
<1> QED
  BY <1>1, <1>2, <1>3, <1>4 DEF SettingsInv, OneSession

LEMMA SettingsKept ==
  ASSUME OneSession, SettingsInv, [CapabilityNext]_capvars
  PROVE  SettingsInv'
<1>1. CapabilityInv'
  BY CapabilityNextKeeps DEF SettingsInv
<1>2. CASE CapabilityDone \/ MoveIdentity \/ UNCHANGED capvars
  <2>1. UNCHANGED <<policies, pc, call, outcome, setting, reading>>
    BY <1>2 DEF CapabilityDone, Done, MoveIdentity, capvars, vars, local, store, surface
  <2> QED
    BY <1>1, <2>1, NothingSettles
<1>3. ASSUME NEW c \in Caller, CapabilityStep(c) PROVE SettingsInv'
  <2>1. CASE ApplyGrant(c) \/ ApplyRevoke(c)
    BY <2>1, ApplySettles DEF ApplyGrant, ApplyRevoke
  <2>2. CASE (Step(c) \/ Abort(c)) /\ UNCHANGED surface
    BY <2>2, CallSettles
  <2> QED
    BY <1>3, <2>1, <2>2, SetMaintenanceSettles, ReadingSettles DEF CapabilityStep
<1> QED
  BY <1>2, <1>3 DEF CapabilityNext

\* The invariant of settings, for any sequence of statements of one session, any of
\* which may die at any step, and of compactors, who may move at any.
THEOREM SettingsInvHolds ==
  ASSUME OneSession
  PROVE  CapabilitySpec => []SettingsInv
<1>1. CapabilityInit => SettingsInv
  BY SettingsInitially
<1>2. SettingsInv /\ [CapabilityNext]_capvars => SettingsInv'
  BY SettingsKept
<1> QED
  BY <1>1, <1>2, PTL DEF CapabilitySpec

\* What was set is so, for the compactor of the time, when SET maintenance ends well
\* (set_workspace_maintenance).
THEOREM SettingsTakeEffect ==
  ASSUME OneSession
  PROVE  CapabilitySpec => []SettingTakesEffect
<1>1. SettingsInv => SettingTakesEffect
  BY DEF SettingsInv
<1> QED
  BY <1>1, SettingsInvHolds, PTL

\* Setting what is so already never ends in the Conflict of grant or the NotFound of
\* revoke_grant (set_workspace_maintenance: "Idempotent in both directions").
THEOREM SettingsAreIdempotent ==
  ASSUME OneSession
  PROVE  CapabilitySpec => []MaintenanceIsIdempotent
<1>1. SettingsInv => MaintenanceIsIdempotent
  BY DEF SettingsInv
<1> QED
  BY <1>1, SettingsInvHolds, PTL
===========================================================================
