------------------------- MODULE AccessListProofs -------------------------
(***************************************************************************)
(* What the access list guarantees, from any well-formed beginning: one    *)
(* entry for a principal and a pattern, and no workspace loses its last    *)
(* owner.  What implements the list (SerialGrants) inherits both.          *)
(***************************************************************************)
EXTENDS AccessList, PatternsProofs

\* An access list as the program may find it.
WellFormed(entries) ==
  /\ entries \subseteq Entry
  /\ \A e \in entries : IsPattern(e.pattern) /\ e.pattern[1] = e.workspace

AclInv == WellFormed(acl) /\ OneEntryEach(acl)

\* Whoever administers a pattern of a workspace confines it to that workspace.
LEMMA AdministersInside ==
  ASSUME AclInv, NEW actor, NEW workspace, NEW pattern \in Path, IsPattern(pattern),
         Administers(actor, workspace, pattern)
  PROVE  pattern[1] = workspace
<1>1. PICK f \in acl : f.workspace = workspace /\ resource_matches(pattern, f.pattern)
  BY DEF Administers, can_administer_pattern, In
<1>2. f.pattern \in Path /\ IsPattern(f.pattern) /\ f.pattern[1] = workspace
  BY <1>1 DEF AclInv, WellFormed, Entry
<1>3. Lower[f.pattern[1]] = f.pattern[1] /\ f.pattern[1] # WILDCARD_SEGMENT
  BY <1>2, PatternHead
<1>4. Lower[pattern[1]] = f.pattern[1]
  BY <1>1, <1>2, <1>3, MatchKeepsWorkspace
<1> QED
  BY <1>2, <1>4, PatternHead

\* Whoever administers the whole workspace is an owner of the whole of it.
LEMMA AdministersWhole ==
  ASSUME AclInv, NEW actor, NEW workspace \in Name,
         Administers(actor, workspace, WholeWorkspace(workspace))
  PROVE  \E f \in acl : /\ f.workspace = workspace /\ f.principal = actor
                        /\ f.role = "owner" /\ f.pattern = WholeWorkspace(workspace)
<1>1. PICK f \in acl :
        /\ f.workspace = workspace /\ f.principal = actor
        /\ action_allowed_for_role(f.role, "GRANT")
        /\ resource_matches(WholeWorkspace(workspace), f.pattern)
  BY DEF Administers, can_administer_pattern, In
<1>2. f.role = "owner"
  BY <1>1 DEF action_allowed_for_role, allowed_roles, WriterDataActions, OwnerDataActions,
              POLICY_ADMINISTRATION_ACTIONS
<1>3. f.pattern \in Path /\ IsPattern(f.pattern) /\ f.pattern[1] = workspace
  BY <1>1 DEF AclInv, WellFormed, Entry
<1> QED
  BY <1>1, <1>2, <1>3, OnlyWholeCoversWhole

(***************************************************************************)
(* The changes keep the list well formed and without duplicates.           *)
(***************************************************************************)
LEMMA GiveKeeps ==
  ASSUME AclInv, NEW actor, Give(actor)
  PROVE  AclInv'
<1>1. PICK e \in Appeared :
        /\ acl' = acl \union {e} /\ e \in Entry /\ IsPattern(e.pattern)
        /\ Administers(actor, e.workspace, e.pattern) /\ Needed(e, {})
  BY DEF Give
<1>2. e.pattern[1] = e.workspace
  BY <1>1, AdministersInside DEF Entry
<1>3. WellFormed(acl')
  BY <1>1, <1>2 DEF AclInv, WellFormed
<1>4. \A f \in acl : f.workspace = e.workspace /\ f.principal = e.principal =>
                       f.pattern # e.pattern
  BY <1>1 DEF Needed, In
<1>5. OneEntryEach(acl')
  BY <1>1, <1>4 DEF AclInv, OneEntryEach
<1> QED
  BY <1>3, <1>5 DEF AclInv, WellFormed, OneEntryEach

LEMMA AlterKeeps ==
  ASSUME AclInv, NEW actor, Alter(actor)
  PROVE  AclInv'
<1>1. PICK old \in Gone, new \in Appeared :
        /\ acl' = (acl \ {old}) \union {new} /\ new \in Entry /\ IsPattern(new.pattern)
        /\ Administers(actor, new.workspace, new.pattern) /\ Needed(new, {old})
  BY DEF Alter
<1>2. new.pattern[1] = new.workspace
  BY <1>1, AdministersInside DEF Entry
<1>3. WellFormed(acl')
  BY <1>1, <1>2 DEF AclInv, WellFormed
<1>4. \A f \in acl \ {old} :
        f.workspace = new.workspace /\ f.principal = new.principal =>
          f.pattern # new.pattern
  BY <1>1 DEF Needed, In
<1>5. OneEntryEach(acl')
  BY <1>1, <1>4 DEF AclInv, OneEntryEach
<1> QED
  BY <1>3, <1>5 DEF AclInv, WellFormed, OneEntryEach

LEMMA TakeKeeps ==
  ASSUME AclInv, NEW actor, Take(actor)
  PROVE  AclInv'
<1>1. acl' \subseteq acl
  BY DEF Take
<1> QED
  BY <1>1 DEF AclInv, WellFormed, OneEntryEach

LEMMA FoundKeeps ==
  ASSUME AclInv, NEW workspace \in Name, Found(workspace)
  PROVE  AclInv'
<1>1. acl' = acl \union Appeared
  BY DEF Found, Appeared, Gone
<1>2. \A e \in Appeared : /\ e \in Entry /\ e.workspace = workspace
                          /\ IsPattern(e.pattern) /\ e.pattern[1] = e.workspace
  BY DEF Found, WholeWorkspace
<1>3. WellFormed(acl')
  BY <1>1, <1>2 DEF AclInv, WellFormed
<1>4. \A e \in acl : e.workspace # workspace
  BY DEF Found, In
<1>5. OneEntryEach(Appeared)
  BY DEF Found
<1> HIDE DEF Appeared
<1>6. OneEntryEach(acl')
  BY <1>1, <1>2, <1>4, <1>5 DEF AclInv, OneEntryEach
<1> QED
  BY <1>3, <1>6 DEF AclInv, WellFormed, OneEntryEach

LEMMA AclInvKept == AclInv /\ [Next]_acl => AclInv'
<1>1. AclInv /\ UNCHANGED acl => AclInv'
  BY DEF AclInv, WellFormed, OneEntryEach
<1> QED
  BY <1>1, GiveKeeps, AlterKeeps, TakeKeeps, FoundKeeps DEF Next

\* A step that takes a whole-workspace owner away was taken by another one, who
\* is still there.
LEMMA StepLeavesOwner ==
  ASSUME AclInv, [Next]_acl, NEW w \in Name, Owned(w)
  PROVE  Owned(w)'
<1>1. PICK e \in acl : /\ e.workspace = w /\ e.role = "owner"
                       /\ e.pattern = WholeWorkspace(w)
  BY DEF Owned
<1>2. CASE e \in acl'
  BY <1>1, <1>2 DEF Owned
<1>3. CASE e \notin acl'
  <2>1. CASE \E actor \in Name : Give(actor) \/ \E v \in Name : Found(v)
    BY <1>3, <2>1 DEF Give, Found, Gone
  <2>2. ASSUME NEW actor \in Name, Take(actor) PROVE Owned(w)'
    <3>1. acl' = acl \ {e} /\ actor # e.principal /\ Administers(actor, w, WholeWorkspace(w))
      BY <1>1, <1>3, <2>2 DEF Take
    <3>2. PICK f \in acl : /\ f.workspace = w /\ f.principal = actor
                           /\ f.role = "owner" /\ f.pattern = WholeWorkspace(w)
      BY <3>1, AdministersWhole
    <3> QED
      BY <3>1, <3>2 DEF Owned
  <2>3. ASSUME NEW actor \in Name, Alter(actor) PROVE Owned(w)'
    <3>1. /\ \A f \in acl : f # e => f \in acl'
          /\ actor # e.principal /\ Administers(actor, w, WholeWorkspace(w))
      BY <1>1, <1>3, <2>3 DEF Alter
    <3>2. PICK f \in acl : /\ f.workspace = w /\ f.principal = actor
                           /\ f.role = "owner" /\ f.pattern = WholeWorkspace(w)
      BY <3>1, AdministersWhole
    <3> QED
      BY <3>1, <3>2 DEF Owned
  <2> QED
    BY <1>1, <1>3, <2>1, <2>2, <2>3 DEF Next
<1> QED
  BY <1>2, <1>3

\* Granting, updating, revoking and founding never leave a principal with two
\* entries on one pattern.
THEOREM AccessIsSaidOnce ==
  ASSUME WellFormed(FirstEntries), OneEntryEach(FirstEntries)
  PROVE  Spec => []NoDuplicateEntry
<1>1. Init => AclInv
  BY DEF Init, AclInv
<1>2. AclInv => NoDuplicateEntry
  BY DEF AclInv, NoDuplicateEntry
<1> QED
  BY <1>1, <1>2, AclInvKept, PTL DEF Spec

\* A workspace with an owner of the whole of it keeps one.
THEOREM OwnerAlwaysRemains ==
  ASSUME WellFormed(FirstEntries), OneEntryEach(FirstEntries)
  PROVE  Spec => OwnerRemains
<1>1. Init => AclInv
  BY DEF Init, AclInv
<1>2. AclInv /\ [Next]_acl => [\A w \in Name : Owned(w) => Owned(w)']_acl
  BY StepLeavesOwner
<1> QED
  BY <1>1, <1>2, AclInvKept, PTL DEF Spec, OwnerRemains
===========================================================================
