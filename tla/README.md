# A verification development of opteryx-access

`opteryx_access` decides and administers access to Opteryx data: policies
(`principal` has `role` on `pattern`) live in a document store, one collection per
workspace; people who own a pattern grant, update and revoke policies under it.
The library keeps no lock and opens no transaction. Each operation reads, checks,
reads again, writes and records in separate calls to a store that other processes
use at the same time, so what it promises has to survive every interleaving of
those calls and a process dying between any two of them. That is what this
directory models, model-checks (TLC) and, where it can, proves (TLAPS).

- `*.tla` without `MC` or `Proofs` in the name: the models.
- `MC*.tla` and `.cfg`: small instances, one `.cfg` per run.
- `*Proofs.tla`: theorems with machine-checked proofs.
- `PROJECT.json`: components, runs, the source lines behind each definition,
  hazards, findings and theorems.

## 1. The system

| Part (source) | State | Operations | Interacts with | What is hard | What makes it correct |
|---|---|---|---|---|---|
| Grant operations (`grants.py`) | none of its own; the local variables of a call under way | `grant`, `update_grant`, `revoke`, `revoke_grant`, `bootstrap_workspace`, `find_conflict`; listings `owned_by`, `grants_for_principal` | store (3 to 5 calls an operation; bootstrap one per member and one more), checks, patterns, audit | check-then-act across store calls; stale reads; partial bootstrap; stored spellings | only owners hand out access; nobody serves themselves; a revoked policy stays revoked; one policy per principal and pattern; a workspace keeps its owner |
| Policy store (`store.py`, `adapters/firestore.py`, `models.py`) | the documents of every workspace, in the database the configuration names | `list_policies`, `list_policies_for_principal`, `get_policy`, `has_any_policies`, `create_policy`, `update_policy`, `delete_policy`, `list_owner_policies` | everything above | each call atomic, no two together; `update` of a missing document raises, `delete` of one succeeds; a `db_factory` may answer with another database at every call | ids are never reused; an update changes neither principal nor workspace |
| Patterns (`patterns.py`) | none | `normalize`, `validate_pattern`, `validate_principal`, `resource_matches`, `pattern_level` | grants, checks, capability | `*` crosses dots, so coverage is no comparison of segments | matching is fnmatch, and coverage is an order |
| Roles and actions (`roles.py`, `actions.py`) | none | `is_valid_role`, `role_outranks_or_equals`, the action table | grants, checks | none | the order of roles |
| Administration check (`checks.py: can_administer_pattern`) | none | one predicate | grants | compares normalised names over what an exact filter found | authority over a pattern is authority over all it covers |
| Audit trail (`audit.py`) | the sink | `record_change` | called by grants after each write | written after the fact, and lost if the process dies | says what happened, all of it, in order |
| SQL surface (`capability.py`) | none; the "setting" is a policy | `apply_grant`, `apply_revoke`, `set_workspace_maintenance`, `workspace_maintenance`; listings `grants_on`, `effective_grants_on`, `effective_grants_in` | grants, store | a boolean setting kept as a policy among other policies, of an identity that moves; listings made apart from the check | setting and policy never come apart; platform identities get access no other way; the listings say what the check does |
| Data plane (`checks.py`, `capability.py`, `models.py`) | a session's token | `implicit_grants`, `can_perform_action`, `can_perform_workspace_action`, `parse_policy_claim`, `grants` (SHOW GRANTS), `can_principal_perform_action` | token; the store when asked about somebody else | first match decides; malformed entries; identities that are no patterns; tokens outlive changes | the cap is absolute; personal namespaces are personal; tokens only add; the listing leaves out only what it is known to |
| Entitlements (`entitlements.py`) | a token's names | the check of the kinds, names and scopes, permission decisions | data plane | scopes at their boundaries; they reach past the cap | operations beneath the scope and nothing else |
| Errors and re-exports (`exceptions.py`, `__init__.py`) | none | none | none | none | errors appear as `outcome`s |

The hazards of this code, each at its line with the properties that cover it or the
reason none does, are `hazards` in `PROJECT.json`.

## 2. The modules

```
RolesAndActions   Patterns --- Coverage
        \          /
          Checks ---------------- AccessList     what is promised
          /    \                      ^
     Access    PolicyStore            |  implements (one caller at a time)
      |  \      /      \              |
      |  Listings      Grants --- SerialGrants
      |        \       /   \          |
  Sessions    Capability  GrantsInvariant
              Databases    |     |    |
                |          |     |  SerialInvariant
              CapabilityInvariant|
              DatabasesInvariant-+
```

| kind | modules (what each extends) |
|---|---|
| instances | `MCAccess` (`Sessions`), `MCPatterns` (`Coverage`), `MCGrants` (`SerialGrants`, `GrantsInvariant`), `MCSerial` (`MCGrants`, `SerialInvariant`), `MCCapability` (`CapabilityInvariant`), `MCDatabases` (`MCGrants`, `DatabasesInvariant`) |
| proofs | `PatternsProofs` (`Checks`), `AccessListProofs` (`AccessList`), `AccessProofs` (`Access`), `SessionsProofs` (`Sessions`), `GrantsProofs` (`SerialInvariant`), `CapabilityProofs` (`CapabilityInvariant`), `DatabasesProofs` (`DatabasesInvariant`), `CoverageProofs` (`Coverage`) |

`Capability` and `Databases` each extend both `Grants` and `Listings`; `SerialInvariant` extends
`SerialGrants` and `GrantsInvariant`, `CapabilityInvariant` and `DatabasesInvariant` extend
`GrantsInvariant` and the module they are named after. Proof modules also extend those they
cite: all of them `PatternsProofs`, and `CapabilityProofs` and `DatabasesProofs` also
`GrantsProofs` and `AccessProofs`.

**`RolesAndActions`**: the three roles, their order and the table of actions each
allows.

**`Patterns`**: a dotted name is the sequence of its segments. `normalize`
casefolds each segment through the constant function `Lower`. The code matches
with `fnmatch`, whose `*` crosses dots; `Aligns` says the same over segments: a
wildcard stands for one or more of them (never for none, since a `.` must still
separate what is on both sides), and a match is a function `start` saying where each
segment of the pattern begins in the name. That this is `fnmatch` is checked (run
`patterns`) and proved (`CoversIsFnmatch`), not assumed; and stated without recursion, it
is easy to reason with.

**`Coverage`**: names of every shape, grown a segment at a time, and the strings the code
works on: `Dotted` writes a name out with dots, character by character, and `fnmatchcase`
is the library's function, from how the code uses it: `read[j]` is how much of the text the
first `j` characters of the glob may stand for. Both are recursive functions. The module
states what the rest needs of matching and levels.

**`Checks`**: `can_administer_pattern`. Some policy of the actor, compared after
casefolding, is `owner` and matches the pattern.

**`PolicyStore`**: `policies`, a set of documents, and `nextId`; the reads are
operators and the three writes are actions, each atomic as one Firestore call is.
`list_policies_for_principal` compares the stored spelling exactly, as the query
does. Ids are numbers handed out in order, standing for Firestore's random ids,
which are not reused either.

**`Grants`**: the core. Each caller (`Caller`: a process or a request thread) runs
one call at a time; `pc[c]` names its next store call and each action is that
store call with the local code up to the next one:

| code | actions, in order |
|---|---|
| `grant` | `Begin` (validation, normalisation, self check), `GrantAuthorize`, `GrantCheckConflict`, `GrantCreate`, `RecordCreated` |
| `update_grant` | `Begin`, `UpdateGet` (not found, self check), `UpdateAuthorize` (old and new pattern, from one read), `UpdateCheckConflict`, `UpdateWrite`, `RecordUpdated` |
| `revoke` | `Begin`, `RevokeGet`, `RevokeAuthorize`, `RevokeDelete`, `RecordDeleted` |
| `revoke_grant` | `Begin`, `ResolveAuthorize`, `ResolveMatch`, then all of `revoke` |
| `bootstrap_workspace` | `Begin` (the list validated in order), `BootstrapCheckVacant`, then `BootstrapCreate`, `RecordCreated` per member |
| an error raised by the store, or the end of the process | `Abort`, at any of these points |

`call[c]` holds the normalised arguments, `seen[c]` is `existing_policy`,
`outcome[c]` is the exception raised or `"ok"`. `audit` is what `record_change`
emitted. `history` is an observer with no counterpart in the code: what the store
really did, in order, in the form of audit records; comparing the two is how the
trail is judged, and the past in `history` is how authority is. A record's absent
role is `NoRole`. `begun`/`MaxCalls` bound the number of calls; the theorems hold
for every value of that bound.

**`GrantsInvariant`**: the inductive invariants behind the proofs about calls that
race: `GrantsInv` of the store, and on top of it `RecordsInv` of the trail and
`BirthsInv` of new workspaces. The part of `GrantsInv` that survives a change of database is
`RacingInv(away, origin)`, about the documents `away` in the other one and what that one
began with; with a single database both are empty. **`DatabasesInvariant`**: `DatabasesInv`, the
same with another database. **`SerialInvariant`**: `SerialInv`, of one caller at a
time. **`CapabilityInvariant`**: `CapabilityInv`, of the statements above the calls, and on
top of it `SettingsInv`, of settings made in one session.

**`AccessList`**: what granting promises with nothing of how: a set of entries and
atomic changes to it (`Give`, `Alter`, `Take`, `Found`) by people entitled to make
them. **`SerialGrants`** maps `Grants` onto it (documents without ids or
spelling of the updater; a workspace whose bootstrap is half done does not show)
and states the properties that the checks give one caller at a time.

**`Access`**: the decisions about data, which have no state: a session is its token
(`user`, the entries of its policies claim, its entitlement names). The names come in a list,
or one of them bare (`wrapped`): `parse_entitlement_claim`, behind the check, wraps a bare
one first; SHOW GRANTS iterates it (`Iterated`). `implicit_grants`
is the sequence the code builds, since its order decides; issued grants and
entitlements are sets, since theirs does not. An implicit pattern is a literal path
and a flag for "beneath it", which is what escaping the identity makes of it
(`matches_implicit`). That path is `PersonalNamespace`: an identity with dots in it
(`justin@example.com`) is more than one segment of its own namespace (`SegmentsOf`). An entry is readable or not and an entitlement name has a kind,
a `::` or none, and a scope; `Resolves` is where `parse_entitlement_name` neither
raises nor returns None. That the table of kinds is well formed, which the code
checks on import, is an assumption (`_validate_kinds`). **`Sessions`** lets a token
grow by an entry or a name at a time and states the properties of the decisions.

**`Listings`**: what is read off the store about others: `grants_for_principal`,
`can_principal_perform_action`, `owned_by` over the collection-group query,
`grants_on`, `effective_grants_on`, `effective_grants_in`. Its three properties are
about one state of the store, and are checked in every state `Capability` reaches.

**`Capability`**: GRANT and REVOKE statements and `SET maintenance`, over `Grants`.
A statement passes or is refused, then becomes a call of `Grants`.
`set_workspace_maintenance` has a step of its own for its read of the setting
(`ReadMaintenance`), after which it calls `grant` or `revoke_grant`, or returns.
The identity it is about is taken once, at its start (`setting[c].principal`), while
`MoveIdentity` may give `COMPACTION_IDENTITY` its next value at any moment.

**`Databases`**: `Grants` on a store built over `db_factory`. `policies` is the
database the configuration names now, `elsewhere` the other; `Switch` exchanges them,
between any two store calls of any thread. The other one begins as a diverged copy
(a restored backup, a migration under way): documents in both have one id and one
principal, but not the same role or pattern, and each has some of its own.

A definition whose comment begins "Slip:" is not the code but a plausible mistake
in the definition after it. Each property has one with which it fails, so that no
property is satisfied by whatever the code does.

## 3. What is model-checked

Twelve runs. Those that hold explore the whole state space of their instance.

| run | instance | shows |
|---|---|---|
| `racing` | 2 callers, 4 calls, which may die; 5 policies, 9 calls that meet on one document, one principal, across workspaces and scopes, and on the actor's own authority | every interleaving keeps `FiledWhereFound`, `AuthorityIsRooted`, `NobodyServesThemselves`, `RevokedStaysRevoked`, `RecordsAreTruthful`; and `RecordsInv`, the invariant of the proofs, `GrantsInv` included |
| `founding` | 2 callers, 3 calls, none dies; nothing stored | `BornOwned`: a workspace comes into being with an owner of the whole. `EveryChangeIsRecorded` (liveness): each change is recorded in the end |
| `serial` | 1 caller, 6 calls out of 26; another workspace's owner and a policy with its role in capitals stored (`MCSerial`) | the operations implement `AccessList`; `NoDuplicatePolicy`, `TrailIsExact`, `FoundedOnce`, `EditsAreGoverned`, `OwnerRemains`, `RevokeIsExact` |
| `patterns` | all names `r`, `p` of up to four segments, and `q` of up to two, over a literal spelt in another casing, a two-letter literal and `*` | matching is `fnmatch` (a reference by recursion on the characters of the dotted strings), coverage is transitive, `w.*` is above all else in `w`, levels are those of the object spoken of |
| `sql_surface` | 1 session, 4 statements out of 14, which may die; the compactor moves from `Federator` to `xb500` once, at any time | `PlatformAccessIsTheSetting`: the only access statements create for a platform identity is the setting's own policy. `SettingTakesEffect`: what was set is so, for the compactor of the time. `MaintenanceIsIdempotent`. `ReportedMaintenanceIsAccess`: where maintenance is reported on, today's compactor passes its own check. In every state, `EffectiveIsTheTruth`, `ListingsAgree`, `OffboardingIsWarned`. `SettingsInv`, the invariant of the proofs, `CapabilityInv` included |
| `data_plane` | 5 identities, up to 3 of 8 policy entries and 8 entitlement names together, a single name in a list or bare, 13 names asked about, 5 actions | `CapIsAbsolute`, `NoImplicitGrantIsShadowed`: what implicit grants settle is settled, and none stands before a stronger one. `OperationsNotData`: exactly what entitlements add. `TokensOnlyAdd`: no entry or name takes anything away (an action property, as a token grows). `PersonalIsPersonal`: what is had in `personal` is what is at or beneath `personal.<identity>`, segment by segment. `WorkspaceActionReachesAll`. `OnlyUnwrappedGoesUnreported`: SHOW GRANTS explains every decision but one that rests on a bare name |
| `switching` | 2 threads, 3 calls out of 10, 2 databases of 4 documents, 2 switches | `FiledInBoth`, `NothingCrosses`, `RootedSomewhere` although a call reads from one database and writes to another; `DatabasesInv`, the invariant of the proofs, `NobodyServesThemselves` included; `FetchPathsAgree`: a token minted now decides as the live check does |
| `clash_create`, `clash_delete`, `moving_revoke`, `two_founders` | 2 callers, 2 calls | four findings of section 6: each exhibits a sentence of the repository that the code does not keep |
| `unwrapped_claim` | `data_plane` with at most 1 entry or name | the fifth, `ListingReportsAll` |

*Bounds.* The races of this code are between one check and one write of two calls,
so two callers meet every pair of operations at every pair of points; the third and
fourth calls of `racing` let a chain form (an owner gives ownership, the new owner
uses it, the first is revoked meanwhile). Policies are few because operations only
look at one principal's at a time, and one document: the instance has one principal
stored in an old casing, one with narrower ownership, and two owners of the whole,
which is every position a rule distinguishes. Names cover a literal, a wildcard, an
engine-private segment, a reserved workspace, `information_schema`, and an upper-case
spelling. Four segments are what `pattern_level` tells apart (workspace, collection,
dataset, and one more). The callers of `racing` are interchangeable (each request
may be made by any of them and the state names them only as indices), hence its
symmetry set; it checks no liveness.

In `data_plane` three entries and names are what a decision can weigh against each
other (one that permits, one that is unreadable, capped, or narrower, and the one that is being
added); identities are one in capitals, one with a dot, beneath the first (`alice.c`), one that is a
glob character, a platform identity and nobody;
the entries include a lone `*`, a bare workspace, a misspelt role and unreadable ones, the names every reason
`parse_entitlement_name` has to return None or raise, each in a list or bare; the actions are one of each row of the
role table, AUTOMATE (the one entitlement there is) among them. `sql_surface` has two owners, so
that each can be revoked, and a compactor that already writes to one collection, so
that there is a policy to mistake for the setting. Two switches of `switching` are there
and back, so that a call can check in one database, write in the other, and be found out in the first.

*Deadlock* is checked in every run: `Done` (in `data_plane` and `patterns`,
`Complete`) is the only way to stand still, when the calls are used up and all have
ended, so no call can be left waiting.

*Fairness.* Only `EveryChangeIsRecorded` needs it: `WF_vars(Step(c))` for each
caller, i.e. a thread in the middle of a call gets to its next store call. `Begin`
and `Abort` have none: nobody must call, nothing must fail. The code has no locks,
no waiting and no retries, so that is what running the thread means. In that run
calls do not die (a call that dies after its write leaves it unrecorded; the
code does not claim otherwise).

*Only one caller at a time.* `NoDuplicatePolicy`, `FoundedOnce`, `TrailIsExact`,
`RevokeIsExact`, `EditsAreGoverned`, `OwnerRemains` and the refinement hold when calls do
not overlap and are lost when two do: the first four contradict something
the repository says (section 6); for the rest nothing in it promises more.
`OwnerRemains` is worth knowing about: two owners of a workspace who revoke each
other at the same moment both succeed, and the workspace is left without an
owner, although neither could have revoked themselves. `MaintenanceIsIdempotent`
and `SettingTakesEffect` are
likewise checked, and proved, for one session at a time. `RevokedStaysRevoked` is not claimed in `switching`: what
is revoked in one database is not in the other.

## 4. What is proved

TLAPS checks every proof, for all values of the constants: nothing bounds the number
of callers, of requests, of documents, of names, of calls.

*The assumptions* are the named ones of the modules, which TLC evaluates on each run.

| assumption | says | because |
|---|---|---|
| `NamesAssumption` | casefolding is idempotent and leaves the wildcard and the literals alone; a reserved workspace is a literal; `$` survives casefolding | `str.casefold`, the patterns of `patterns.py` |
| `GrantsAssumption` | the types of the parameters; a stored role may have any spelling, of which `LowerRole` makes the normalised one, and leaves the three roles alone | what the functions take; `normalize` |
| `CapabilityAssumption`, `SessionsAssumption`, `ListingsAssumption` | the types of the parameters; statements are grants and revokes; `COMPACTION_IDENTITY` has a value | what the functions take |
| `GenesisAssumption` | the first documents are filed under the workspace their pattern names and have distinct ids below `FirstId` | the operations file so, and Firestore's ids are never reused |
| `AccessAssumption` | the reserved workspaces are `public`, `personal`, `samples`; a name splits into one or more segments, and casefolding goes by segment; platform identities are spelt casefolded; the table of kinds passes `_validate_kinds` | constants of the code; `str.casefold` keeps dots; the check made on import |
| `CoverageAssumption` | no segment is empty or holds a dot; a `*` is a segment of its own; nothing is written with a `?` or a `[`; two names written alike are one | `_validate_pattern_shape` splits at the dots and lets nothing else through; a name *is* its spelling |
| `MaintenanceAssumption` | `MAINTENANCE_ROLE` is a string | it is a literal, of which the provers know nothing |

Some theorems, those of one call at a time among them, assume more, in their statements: `NoBareName(Genesis)`
(`TableAlwaysAgrees`), `BeginsOwned` (`WorkspacesAreBornOwned`: no call dies and the
first documents leave no workspace without an owner), and `Serial`: one caller, no call dies,
and the principals of the first documents are casefolded (their roles may be spelt anyhow) and hold no
duplicates. `Serial` is a state
the program is in whenever requests do not overlap; run `serial` has TLC evaluate it.
The theorems about settings assume `OneSession` (run `sql_surface` has TLC evaluate it):
statements come one at a time, though any may die and the compactor may
move in the middle of one; compactors are platform identities, as `checks.py` means them
("the one platform identity the compactor submits as"); and what they have on the whole of a
workspace to begin with is at most the policy a setting gives them, once. `EntitlementsAreOperations`
assumes `OneKind`, the table of `entitlements.py` as it stands, and `PlainScopes`: a scope
is what that file says it is, "a workspace, or a narrower prefix within one" (the
validator would let a `*` through between two segments; run `data_plane` has TLC evaluate both).

**Patterns** (`PatternsProofs`): coverage is reflexive (`CoversReflexive`) and
transitive (`CoversTransitive`) for patterns of any length; a pattern that opens
with a literal matches only within its workspace (`MatchKeepsWorkspace`); hence
authority over a pattern is authority over all it covers (`AuthorityReachesDown`).

**Matching and levels** (`CoverageProofs`): `CoversIsFnmatch`, matching by segments is
`fnmatch` on the dotted strings, for every two names of any length in any segments and any
alphabet; and of the specification of `Coverage`, for every value of its bounds,
`MatchingIsFnmatch`, `CoverageAlwaysTransitive`, `WholeWorkspaceAlwaysTop` and
`LevelIsAlwaysTheObject`.

*The argument.* The prover knows nothing of a function defined by recursion until one is
shown to exist (`RecursionOnIndex`); then `Dotted` and `fnmatchcase` obey their equations
(`WritesOnce`, `ReadsOnce`). `Layout` says where each dot of a string is and that the segments
stand between them. `fnmatch` holds exactly when there is a `Reading`, which gives each prefix of the glob the
amount of text it stands for (`MatchIsReading`). An alignment is turned into a reading by sending a
segment's characters, or a wildcard's two ends, to where `start` puts the segment (`AlignmentReads`).
Conversely, a dot of the glob is read where the text has a dot, and no segment holds one:
so every segment of the pattern begins where one of the name does, which is `start`; and
a literal, read one character at a time, can end neither before its segment does, for it is followed by a
dot or the end, nor after, for it holds no dot (`ReadingAligns`). There are no induction
theorems to instantiate: each induction on an index takes the least index that goes wrong (`SmallestIndex`).

**Grants under every interleaving** (`GrantsProofs`): `InvariantHolds == Spec =>
[]GrantsInv`, and from it `TypeCorrect`, `DocumentsAreFiledWhereFound`,
`NobodyEverServesThemselves`, `AuthorityIsAlwaysRooted`, `RevocationIsFinal`.

*The argument.* None of these is inductive: a write is right because of what earlier
steps of the same call established, and the proof has to say what other
callers cannot undo in between. `CallInv` says it for each place a call can be:

- `KnowsWhose`: from reading a document to the end of the call, the document with that
  id is still of the same principal, if there is one. `update_policy` changes
  neither id nor principal, and ids are not reused (`StoreInv`). So the self check made
  on the copy is a check of the original.
- `HasAuthority`: from the authority check to the write, the actor's authority is rooted
  in what *was* stored at one time (`Held`, which only grows). That it may be gone by the
  time of the write is the race the code accepts; that it existed is what remains.
  The same fact ties the pattern to the workspace, since a well-filed owner pattern
  opens with its workspace (`MatchKeepsWorkspace`); no line of `grant` compares the two.
- `Founds`: during a bootstrap, the pattern is the workspace's own.
- `TrailInv`: what is stored was put there as it is. `DeletedIsGone`: what was deleted stays away,
  as an update creates nothing and ids are not reused.

The proof has one step per action. Frame lemmas (`StoreUntouched`, `OthersKept`) show
a step keeps the invariant of calls it does not touch; `ChangeKeeps` does the same for
each of the writes.

*The trail* (`TrailIsTruthful`, from `RecordsInv`). A record is written after the fact and
from a copy read before it. It is true all the same, though two deletions may be
recorded for one that happened: a document that was read leaves the store only by a
deletion, which `history` then has, and its principal never changes. `RecordInv` says this
of the copy at each place between the read and the record.

*Births* (`WorkspacesAreBornOwned`, from `BirthsInv`). Until something is updated or
revoked, documents only accumulate; a bootstrap under way whose owner is not
stored has one still to come among its members, in whatever order they are; and
whatever else is in a workspace was granted by somebody whose authority is rooted, by
`AuthorityIsRooted`, in an earlier document there: back to a bootstrap or a first
document.

**Grants, one call at a time** (`GrantsProofs` too, from `SerialInv`): `NobodyHoldsTwice`,
`NobodyFoundsAgain`, `TrailIsAlwaysExact`, `RecordedDeletionsHappened`,
`RevocationIsExact`, `DenialIsAlwaysDeserved`, `EditsAreAlwaysGoverned`,
`OwnerIsNeverLost`. The first five are what the first four findings of section 6 refute: proved
when calls do not overlap and principals are stored casefolded, they show that overlap and old spelling
are the only things that break those sentences. The sixth says of such a store that an owner is
never denied; of one with a principal in capitals it is false.

*The argument.* `StandsInv`: what the only caller read is still what is stored, and what it
was answered (authority, no conflict) would be answered again, at each place up to its
write. `FollowsInv`: the trail is one record behind between a change and its record, and
never else. `FoundersInv`: a workspace that was bootstrapped has an owner of the
whole or is being given one, and nobody can remove that owner: the self rule forbids it to
the owner, and a second one who could remove the first is an owner too, and stays. So
the workspace is never vacant again, and is never bootstrapped again.

*The refinement* (`ListImplemented == Spec => ImplementsAccessList`). The list shows the
documents of workspaces not under bootstrap. `GrantCreate` is `Give`, `UpdateWrite` is
`Alter` (or a stutter, when it writes what was there), `RevokeDelete` is `Take`, the
last `BootstrapCreate` of a bootstrap is `Found`, and every other step is a stutter.

**AccessList** (`AccessListProofs`): `AccessIsSaidOnce`, no principal has two entries on
one pattern, and `OwnerAlwaysRemains`, a workspace owned as a whole stays so; under the
hypotheses, stated in each theorem, that the list is so to begin with. With the refinement
they say why the serial program has these properties: the self rule is
what keeps the last owner, because only another owner of the whole can take one away.

**Data plane** (`AccessProofs` about the operators, `SessionsProofs` about growing tokens):
`CapHolds`, `NothingIsShadowed`, `TokensNeverTakeAway` (an action property),
`PersonalStaysPersonal`, `WorkspaceIsAllOfIt`, `OnlyUnwrappedUnreported`, `EntitlementsAreOperations`.

*The argument.* Which implicit grants match an object (`public` and `samples`, the
namespace of the session's own identity) is decided by its first segments, two or, of an
identity with dots, more; those that do are in the order of their roles, so the first is the strongest
and answers for all (`NothingIsShadowed`). A decision is then one of three things, an
implicit grant, an entry, or an entitlement to an operation, and each theorem treats
them in turn: entries and names are sets, so that adding takes nothing away, and the cap
stands before the entries. `EntitlementsAreOperations` says what the third adds, exactly: the
pattern of a usable name is its scope and a last `*`, and since every segment of the scope is
literal, an alignment with it can only run one for one (the first that did not would follow
one that did), so that what it covers is what is beneath the scope (`CoversBeneath`).

**SQL surface** (`CapabilityProofs`, for any number of sessions at once, any statements and
any sequence of compactors): `CapabilityInvHolds`, and from it
`PlatformAccessIsOnlyTheSetting` and `ReportedIsAccess`; `ListingIsTheTruth`,
`TableAlwaysAgrees` and `OffboardingAlwaysWarned` about every state of the store.

*The argument.* `SurfaceInv`: the calls under way are grants and revokes by principal, and a
grant to a platform identity can only be the setting's own, for an identity that
has been the compactor by now (`HasCompacted`, which only grows as it moves).
A statement by name cannot make one: its principal was compared with the platform
identities before. `TableAlwaysAgrees` needs that nobody had a policy on the bare name
of a workspace: the workspace's table filters by authority over `w.*`, and only a policy on
the bare name gives authority over the bare name; so no statement can create the first.
The other listings hold of any well-filed store, because
a pattern found elsewhere cannot match here (`MatchKeepsWorkspace`).

Of one session (`OneSession`): `SettingsInvHolds`, and from it `SettingsTakeEffect` and
`SettingsAreIdempotent`.

*The argument.* SET maintenance reads, and then makes a call that reads again before it
writes; `SettingInv` says that what the first read found is still so at each step of that
call, so that a grant finds no conflict and a revoke finds its policy. The grant
could only conflict with the setting itself: an owner's pattern covers the whole of a
workspace only by being the whole (`OnlyWholeCoversWhole`), and on the whole a platform
identity has no other policy (`SettingsAreOne`), because no statement by name can create one.
For the same reason the document the revoke is about to delete is the setting's
(`Pinned`), and with it the access is gone. A move of the compactor changes none of this: the
call carries the name that was read.

**Two databases** (`DatabasesProofs`, for any number of threads, calls and switches):
`DatabasesInvHolds`, and from it `BothAreFiled`, `DocumentsStayPut`,
`AuthorityIsRootedSomewhere`, `NobodyServesThemselvesAcross` and `TokensDecideAsTheStore`.

*The argument.* A call may read a document in one database and write in the other the document
with its id, so each fact of `GrantsInv` is restated about both: whose policy was read
is whose policy it is in either (`KnowsWhose`; a copy has the principals of the
original, and no write changes one), authority is rooted in what was stored in some
database (`HasAuthority`), and a new id is above those of both, so that it can name nothing in
the other. `RacingInv` says so, and is proved once, for `GrantsInv` too. Exchanging
the two then changes nothing in it. `DeletedIsGone` is lost: what one database lost the other may have.
`TokensDecideAsTheStore` needs no history: a token holds the principal's policies of all workspaces, the live check
reads those of the object's own, and a well-filed policy of another matches no object here.

**Not proved.**

- Liveness (`EveryChangeIsRecorded`), which needs ENABLED.
- `RevokedStaysRevoked` and the truth of the trail across two databases are not claimed: neither holds there.

## 5. What is left out

- **`has_workspace_access`** and **`can_principal_own_materialized_view`**: one predicate each
  that nothing in the package calls; the latter is one comparison of names.
- **Presentation of listings**: the order of rows and the label `pattern_level` gives each
  row (the label itself is checked in run `patterns`). A listing is taken of one
  state of the store, though the code authorises and lists in two reads.
- **A capability without a store**: it raises before it does anything, or reports
  maintenance off.
- **Expiry of tokens**: a token is the policies of the moment it was minted
  (`FetchPathsAgree`); that it outlives them is accepted by the repository and is no
  state of this code. **Errors of names**: the issuing path raises where a
  check skips; both are `~Resolves`.
- **Timestamps** (`created_at`, `updated_at`): nothing reads them back. The **logger, JSON and
  `set_audit_sink`**: a sink that raises is swallowed, so it changes nothing.
- **Strings**: segments are names. Glob classes (`[...]`, `?`) cannot occur in a valid
  pattern, and what `escape_glob` makes of an identity is its literal self.
- **Scripts, examples, packaging**: no behaviour.

## 6. Where the code and its documentation differ

| run | the repository says | the model of the code shows |
|---|---|---|
| `clash_create` | two documents for one principal and pattern is "always a bug" (`grants.py:113`) | two owners granting at once both pass `find_conflict` and both create |
| `clash_delete` | "nothing is reported that did not happen" (`audit.py:5`) | two owners revoking at once: one deletion, two records |
| `moving_revoke` | a revoke deletes the policy "whose (principal, pattern, role) all match, or deletes nothing" (`grants.py:355`) | an update between resolution and deletion: what is deleted no longer matches |
| `two_founders` | bootstrap "can only be used once" (`grants.py:464`) | two founders at once both find the workspace vacant |
| `unwrapped_claim` | a listing without the token's names "reports less than it enforces" (`capability.py:247`); iterating a bare name "would ... silently find nothing" (`entitlements.py:322`) | the check wraps a claim that is one bare string, SHOW GRANTS iterates it: AUTOMATE is permitted and no row says so |

Two more things met while modelling, with no run of their own. An owner stored as `ALICE` is denied:
the exact filter of `firestore.py:89` drops the policy before `can_administer_pattern`, which would casefold it
(`checks.py:280`), sees it; `README.md:657` of the repository tells whoever upgrades
to rewrite such principals. And a namespace has one owner only while no identity has a dot in it
(`tests/test_capability.py:287`, "escaped identity is one segment"): `personal.alice.*` of identity `alice`
matches all of `personal.alice.c`, the namespace of an identity `alice.c`. `PersonalIsPersonal` therefore says
exactly which paths an identity has, its dots included, and `data_plane` has both of these identities.

## 7. Plan

Done: every component of section 1 with behaviour of its own; the refinement of `AccessList`,
model-checked and proved; and a proof of every safety property the runs check. Left: liveness, which
stays with TLC, and a listing made in two reads of the store, once the code says what
it owes a caller whose authority ends between them.
