-------------------------- MODULE DatabasesProofs --------------------------
(***************************************************************************)
(* What holds of Databases, for any two databases whose common documents   *)
(* are of the same principals and however often they are exchanged: the    *)
(* inductive invariant, the properties that follow from it, and that a     *)
(* token decides as the live check does.                                   *)
(***************************************************************************)
EXTENDS DatabasesInvariant, GrantsProofs, AccessProofs

LEMMA DatabasesInitially == DatabasesInit => DatabasesInv
<1> SUFFICES ASSUME DatabasesInit PROVE DatabasesInv
  OBVIOUS
<1>1. Init /\ elsewhere = OtherGenesis /\ switches = 0
  BY DEF DatabasesInit
<1>2. RacingInv(OtherGenesis, OtherGenesis)
  BY <1>1, RacingInitially, DatabasesAssumption
<1>3. RacingInv(elsewhere, OtherGenesis)
  BY <1>1, <1>2
<1>4. NothingCrosses
  <2>1. switches % 2 = 0
    BY <1>1
  <2> QED
    BY <1>1, <2>1 DEF Init, NothingCrosses, First, Second, Ids
<1>5. FirstId <= nextId
  BY <1>1, GrantsAssumption DEF Init
<1> QED
  BY <1>1, <1>3, <1>4, <1>5, DatabasesAssumption DEF DatabasesInv

(***************************************************************************)
(* A step of Grants: the other database stays as it is.                    *)
(***************************************************************************)
LEMMA RacingElsewhere ==
  ASSUME DatabasesInv, [Next]_vars, UNCHANGED databases
  PROVE  RacingInv(elsewhere, OtherGenesis)'
<1>1. PICK away : away = elsewhere
  OBVIOUS
<1>2. RacingInv(away, OtherGenesis)'
  BY <1>1, RacingKept DEF DatabasesInv
<1>3. elsewhere' = away
  BY <1>1 DEF databases
<1>4. StoreInv(elsewhere)'
  BY <1>2, <1>3 DEF RacingInv, StoreInv
<1>5. TrailInv(elsewhere, OtherGenesis)'
  BY <1>2, <1>3 DEF RacingInv, TrailInv
<1>6. ASSUME NEW c \in Caller
      PROVE  CallInv(c, elsewhere, OtherGenesis)'
  <2>1. CallInv(c, away, OtherGenesis)'
    BY <1>2 DEF RacingInv
  <2>2. KnowsWhose(c, away)' => KnowsWhose(c, elsewhere)'
    BY <1>3 DEF KnowsWhose
  <2> QED
    BY <2>1, <2>2 DEF CallInv
<1> QED
  BY <1>2, <1>4, <1>5, <1>6 DEF RacingInv

LEMMA NothingCrossesOver ==
  ASSUME DatabasesInv, [Next]_vars, UNCHANGED databases
  PROVE  NothingCrosses'
<1>1. /\ \A p \in policies \union elsewhere : p.id \in Nat /\ p.id < nextId
      /\ nextId \in Nat /\ FirstId <= nextId
  BY DEF DatabasesInv, RacingInv, StoreInv, TypeOK, PolicyStoreTypeOK, Policy
<1>2. \A p \in Genesis \union OtherGenesis : p.id \in Nat /\ p.id < FirstId
  BY GenesisAssumption, DatabasesAssumption DEF Policy
<1>3. Ids(policies') \subseteq Ids(policies) \union {nextId}
  BY IdsWritten DEF DatabasesInv, RacingInv, Ids
<1>4. /\ nextId \notin Ids(elsewhere)
      /\ nextId \notin Ids(Genesis) /\ nextId \notin Ids(OtherGenesis)
  BY <1>1, <1>2, GrantsAssumption DEF Ids
<1>5. elsewhere' = elsewhere /\ switches' = switches
  BY DEF databases
<1>6. CASE switches % 2 = 0
  <2>1. First = policies /\ Second = elsewhere /\ First' = policies' /\ Second' = elsewhere
    BY <1>5, <1>6 DEF First, Second
  <2> QED
    BY <1>3, <1>4, <2>1 DEF DatabasesInv, NothingCrosses, Ids
<1>7. CASE switches % 2 # 0
  <2>1. First = elsewhere /\ Second = policies /\ First' = elsewhere /\ Second' = policies'
    BY <1>5, <1>7 DEF First, Second
  <2> QED
    BY <1>3, <1>4, <2>1 DEF DatabasesInv, NothingCrosses, Ids
<1> QED
  BY <1>6, <1>7

LEMMA StepElsewhere ==
  ASSUME DatabasesInv, [Next]_vars, UNCHANGED databases
  PROVE  DatabasesInv'
<1>1. FirstId <= nextId'
  <2>1. TypeOK /\ nextId \in Nat /\ nextId' \in Nat
    BY RacingElsewhere DEF DatabasesInv, RacingInv, TypeOK, PolicyStoreTypeOK
  <2> QED
    BY <2>1, IdsWritten, GrantsAssumption DEF DatabasesInv
<1>2. elsewhere' = elsewhere /\ switches' = switches
  BY DEF databases
<1> QED
  BY <1>1, <1>2, RacingElsewhere, NothingCrossesOver DEF DatabasesInv

(***************************************************************************)
(* The databases are exchanged: every fact is about both.                  *)
(***************************************************************************)
LEMMA SwitchKeeps ==
  ASSUME DatabasesInv, Switch
  PROVE  DatabasesInv'
<1>1. /\ policies' = elsewhere /\ elsewhere' = policies /\ switches' = switches + 1
      /\ UNCHANGED <<nextId, pc, call, seen, outcome, begun, audit, history>>
  BY DEF Switch, local
<1>2. /\ TypeOK /\ StoreInv(elsewhere) /\ TrailInv(elsewhere, OtherGenesis)
      /\ \A c \in Caller : CallInv(c, elsewhere, OtherGenesis)
  BY DEF DatabasesInv, RacingInv
<1>3. TypeOK'
  BY <1>1, <1>2 DEF TypeOK, PolicyStoreTypeOK, StoreInv
<1>4. StoreInv(elsewhere)'
  BY <1>1, <1>2 DEF DatabasesInv, StoreInv, WellFiled, TypeOK, PolicyStoreTypeOK
<1>5. Held' = Held
  BY <1>1, HeldStays
<1>6. TrailInv(elsewhere, OtherGenesis)'
  <2>1. NobodyServesThemselves'
    BY <1>1, <1>2 DEF TrailInv, NobodyServesThemselves
  <2>2. RootedIn(OtherGenesis)'
    <3>1. \A n : HeldBefore(n)' = HeldBefore(n)
      BY <1>1 DEF HeldBefore
    <3> QED
      BY <1>1, <1>2, <3>1 DEF TrailInv, RootedIn, RootedAt, OnceOwned
  <2> QED
    BY <1>1, <1>2, <1>5, <2>1, <2>2 DEF TrailInv
<1>7. ASSUME NEW c \in Caller
      PROVE  CallInv(c, elsewhere, OtherGenesis)'
  <2>1. KnowsWhose(c, elsewhere) => KnowsWhose(c, elsewhere)'
    BY <1>1 DEF KnowsWhose
  <2>2. HasAuthority(c, OtherGenesis) => HasAuthority(c, OtherGenesis)'
    BY <1>1, <1>5 DEF HasAuthority, can_administer_pattern
  <2>3. Bootstrapping(c)' = Bootstrapping(c) /\ Founds(c)' = Founds(c)
    BY <1>1 DEF Bootstrapping, Founds
  <2>4. CallInv(c, elsewhere, OtherGenesis) /\ pc'[c] = pc[c] /\ call'[c] = call[c]
    BY <1>1, <1>2
  <2> QED
    BY <2>1, <2>2, <2>3, <2>4 DEF CallInv
<1>8. NothingCrosses'
  <2>1. switches \in Nat
    BY DEF DatabasesInv
  <2>2. (switches + 1) % 2 = 0 <=> switches % 2 # 0
    BY <2>1
  <2>3. First' = First /\ Second' = Second
    BY <1>1, <2>2 DEF First, Second
  <2> QED
    BY <2>3 DEF DatabasesInv, NothingCrosses, Ids
<1>9. \A p, q \in policies : p.id = q.id => p = q
  BY <1>2 DEF StoreInv
<1> QED
  BY <1>1, <1>3, <1>4, <1>6, <1>7, <1>8, <1>9 DEF DatabasesInv, RacingInv

\* The invariant holds of every behaviour, for any number of callers, of documents and
\* of changes of the configuration, between any two store calls.
THEOREM DatabasesInvHolds == DatabasesSpec => []DatabasesInv
<1>1. DatabasesInv /\ [DatabasesNext]_<<vars, databases>> => DatabasesInv'
  BY SwitchKeeps, StepElsewhere DEF DatabasesNext
<1> QED
  BY <1>1, DatabasesInitially, PTL DEF DatabasesSpec

\* Whichever database a call read from before it wrote, both stay filed as the lookups
\* by workspace assume.
THEOREM BothAreFiled == DatabasesSpec => []FiledInBoth
<1>1. DatabasesInv => FiledInBoth
  BY DEF DatabasesInv, RacingInv, StoreInv, FiledInBoth
<1> QED
  BY <1>1, DatabasesInvHolds, PTL

\* An update of a document that was read in one database and is not in the other
\* creates none there: documents stay in the database they were created in.
THEOREM DocumentsStayPut == DatabasesSpec => []NothingCrosses
<1>1. DatabasesInv => NothingCrosses
  BY DEF DatabasesInv
<1> QED
  BY <1>1, DatabasesInvHolds, PTL

\* Behind every change there is an owner's policy, in one of the databases.
THEOREM AuthorityIsRootedSomewhere == DatabasesSpec => []RootedSomewhere
<1>1. DatabasesInv => RootedSomewhere
  BY DEF DatabasesInv, RacingInv, TrailInv, RootedIn, RootedAt, RootedSomewhere
<1> QED
  BY <1>1, DatabasesInvHolds, PTL

\* That a call checked whose policy it is in one database and changed it in the other
\* lets nobody change their own access.
THEOREM NobodyServesThemselvesAcross == DatabasesSpec => []NobodyServesThemselves
<1>1. DatabasesInv => NobodyServesThemselves
  BY DEF DatabasesInv, RacingInv, TrailInv
<1> QED
  BY <1>1, DatabasesInvHolds, PTL

(***************************************************************************)
(* A token, of all workspaces, and the live check, of one.                 *)
(***************************************************************************)
LEMMA IssuedAgree ==
  ASSUME DatabasesInv, NEW u, NEW o \in Path, Len(o) >= 1, NEW action
  PROVE  ByIssued(parse_policy_claim(Token(u).access_policies), o, action)
           <=> ByIssued(grants_for_principal(o[1], u), o, action)
<1> DEFINE token == parse_policy_claim(Token(u).access_policies)
           live == grants_for_principal(o[1], u)
<1>1. ASSUME NEW g \in token, action_allowed_for_role(g.role, action),
             resource_matches(o, g.pattern)
      PROVE  g \in live
  <2>1. PICK e \in Token(u).access_policies : g = [role |-> e.role, pattern |-> e.pattern]
    BY DEF parse_policy_claim
  <2>2. PICK p \in policies :
          /\ p.principal = Lower[u]
          /\ e = [readable |-> TRUE, role |-> p.role, pattern |-> p.pattern]
    BY DEF Token
  <2>3. g = [role |-> p.role, pattern |-> p.pattern]
    BY <2>1, <2>2
  <2>4. p.pattern \in Path /\ IsPattern(p.pattern) /\ p.pattern[1] = p.workspace
    BY DEF DatabasesInv, RacingInv, TypeOK, PolicyStoreTypeOK, StoreInv, WellFiled, Policy
  <2>5. Lower[p.pattern[1]] = p.pattern[1] /\ p.pattern[1] # WILDCARD_SEGMENT
    BY <2>4, PatternHead
  <2>6. Lower[o[1]] = p.workspace
    BY <1>1, <2>3, <2>4, <2>5, MatchKeepsWorkspace
  <2>7. p \in list_policies_for_principal(Lower[o[1]], Lower[u])
    BY <2>2, <2>6 DEF list_policies_for_principal, list_policies
  <2> QED
    BY <2>3, <2>7 DEF grants_for_principal
<1>2. ASSUME NEW g \in live, action_allowed_for_role(g.role, action)
      PROVE  g \in token
  <2>1. PICK p \in list_policies_for_principal(Lower[o[1]], Lower[u]) :
          g = [role |-> p.role, pattern |-> p.pattern]
    BY DEF grants_for_principal
  <2>2. p \in policies /\ p.principal = Lower[u]
    BY DEF list_policies_for_principal, list_policies
  <2>3. p.pattern # <<>>
    BY <2>2 DEF DatabasesInv, RacingInv, StoreInv, WellFiled, IsPattern, IsPatternShape
  <2>4. p.role # ""
    BY <1>2, <2>1 DEF action_allowed_for_role, allowed_roles, WriterDataActions,
                      OwnerDataActions, POLICY_ADMINISTRATION_ACTIONS, ROLES
  <2> DEFINE e == [readable |-> TRUE, role |-> p.role, pattern |-> p.pattern]
  <2>5. e \in Token(u).access_policies
    BY <2>2 DEF Token
  <2>6. e.readable /\ e.role = p.role /\ e.pattern = p.pattern
    OBVIOUS
  <2> HIDE DEF e
  <2> QED
    BY <2>1, <2>3, <2>4, <2>5, <2>6 DEF parse_policy_claim
<1> HIDE DEF token, live
<1>3. ByIssued(token, o, action) <=> ByIssued(live, o, action)
  BY <1>1, <1>2 DEF ByIssued
<1> QED
  BY <1>3 DEF token, live

\* Wherever the configuration points, a token minted from all that its user holds in
\* any workspace decides as the live check, which looks into the one of the object:
\* what is filed elsewhere never matches.
THEOREM TokensDecideAsTheStore == DatabasesSpec => []FetchPathsAgree
<1>1. ASSUME DatabasesInv, NEW u \in Users, NEW o \in Objects, NEW action \in Asked
      PROVE  May(Token(u), o, action) <=> can_principal_perform_action(u, o, action)
  <2>1. o \in Path /\ Len(o) \in Nat /\ Len(o) >= 1
    BY ListingsAssumption DEF Path
  <2>2. Token(u).user = u /\ parse_entitlement_claim(Token(u).entitlements) = {}
    BY DEF Token, NoEntitlements, parse_entitlement_claim, resolve_entitlements
  <2> DEFINE token == parse_policy_claim(Token(u).access_policies)
             live == grants_for_principal(o[1], u)
  <2>3. ByIssued(token, o, action) <=> ByIssued(live, o, action)
    BY <1>1, <2>1, IssuedAgree
  <2> HIDE DEF token, live
  <2>4. can_perform_action(token, o, action, u, {}) <=> can_perform_action(live, o, action, u, {})
    BY <2>3 DEF can_perform_action, ByIssued
  <2>5. May(Token(u), o, action) <=> can_perform_action(token, o, action, u, {})
    BY <2>2 DEF May, token
  <2>6. can_principal_perform_action(u, o, action) <=> can_perform_action(live, o, action, u, {})
    BY DEF can_principal_perform_action, can_perform_action, live
  <2> QED
    BY <2>4, <2>5, <2>6
<1>2. DatabasesInv => FetchPathsAgree
  BY <1>1 DEF FetchPathsAgree
<1> QED
  BY <1>2, DatabasesInvHolds, PTL
===========================================================================
