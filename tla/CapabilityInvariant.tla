------------------------ MODULE CapabilityInvariant ------------------------
(***************************************************************************)
(* Why what sessions can do to the access of a platform identity is what   *)
(* Capability says: what is true of a statement at each of its steps, on   *)
(* top of what GrantsInvariant says of the call it makes.  The conjunction *)
(* is inductive.                                                           *)
(***************************************************************************)
EXTENDS Capability, GrantsInvariant

\* True of any literal, which no backend of the proof system knows of one.
ASSUME MaintenanceAssumption == MAINTENANCE_ROLE \in STRING

\* One of the first `by` compactors.
HasCompacted(principal, by) == \E e \in 1..by : principal = Lower[COMPACTION_IDENTITY[e]]

\* A change, or a call, that is about the setting's own policy.
IsTheSetting(k) ==
  /\ HasCompacted(k.principal, era)
  /\ k.role = MAINTENANCE_ROLE
  /\ k.pattern = WholeWorkspace(k.workspace)

\* Only the two calls this surface makes are under way, and a grant to a platform
\* identity only comes from SET maintenance, which may by then be about a compactor
\* of the past.
SurfaceInv(c) ==
  /\ setting[c] # NoSetting => HasCompacted(setting[c].principal, era)
  /\ reading[c] => pc[c] = "idle" /\ setting[c] # NoSetting
  /\ pc[c] # "idle" => call[c].op \in {"grant", "revoke_grant"}
  /\ pc[c] \in Granting /\ Lower[call[c].principal] \in PLATFORM_IDENTITIES =>
       IsTheSetting(call[c])

\* No statement creates a policy on the bare name of a workspace, which an owner of
\* all that is in the workspace could not administer: whoever gives it must hold one.
NoBareName(documents) == \A p \in documents : Len(p.pattern) > 1

CapabilityInv ==
  /\ GrantsInv
  /\ CapabilityTypeOK
  /\ PlatformAccessIsTheSetting
  /\ NoBareName(Genesis) => NoBareName(Held)
  /\ \A c \in Caller : SurfaceInv(c)
(***************************************************************************)
(* Why a setting takes effect, and setting what is so already is no error, *)
(* when statements come one at a time: what set_workspace_maintenance      *)
(* read is still so when the call it makes writes.                         *)
(***************************************************************************)

\* On the whole of a workspace a platform identity has the setting's own policy, once.
SettingsAreOne(documents) ==
  \A p, q \in documents :
    p.principal \in PLATFORM_IDENTITIES /\ p.pattern = WholeWorkspace(p.workspace) =>
      /\ p.role = MAINTENANCE_ROLE
      /\ q.workspace = p.workspace /\ q.principal = p.principal /\ q.pattern = p.pattern
           => q = p

\* One session; compactors are platform identities (checks.py: "the one platform
\* identity the compactor submits as"), with no more access to begin with than
\* settings gave them.
OneSession ==
  /\ \A c, d \in Caller : c = d
  /\ \A e \in 1..Len(COMPACTION_IDENTITY) : Lower[COMPACTION_IDENTITY[e]] \in PLATFORM_IDENTITIES
  /\ SettingsAreOne(Genesis)

\* The call under SET maintenance s.
CallsFor(c, s) ==
  /\ call[c].workspace = s.workspace
  /\ call[c].principal = s.principal
  /\ call[c].role = MAINTENANCE_ROLE
  /\ call[c].pattern = WholeWorkspace(s.workspace)

\* The document that call is about to delete is the setting's.
Pinned(c, s) ==
  \E p \in get_policy(s.workspace, call[c].id) :
    /\ p.principal = s.principal
    /\ p.role = MAINTENANCE_ROLE
    /\ p.pattern = WholeWorkspace(s.workspace)

Resolving == {"resolve_authorize", "resolve_match"}
Removing  == {"revoke_get", "revoke_authorize", "revoke_delete"}

SettingInv(c) ==
  LET s == setting[c]
      on == Maintained(s.workspace, s.principal)
  IN  /\ pc[c] \in {"idle", "record_created", "record_deleted"}
                     \union Granting \union Resolving \union Removing
      /\ pc[c] \in Granting /\ call[c].principal \in PLATFORM_IDENTITIES => s # NoSetting
      /\ s # NoSetting =>
           /\ Lower[s.workspace] = s.workspace
           /\ pc[c] # "idle"                       => CallsFor(c, s)
           /\ pc[c] \in Granting                   => s.enabled /\ ~on
           /\ pc[c] = "record_created"             => s.enabled /\ on
           /\ pc[c] \in Resolving \union Removing  => ~s.enabled /\ on
           /\ pc[c] \in Removing                   => Pinned(c, s)
           /\ pc[c] = "record_deleted"             => ~s.enabled /\ ~on

\* The inductive invariant of settings, on top of that of the surface.
SettingsInv ==
  /\ CapabilityInv
  /\ SettingsAreOne(policies)
  /\ SettingTakesEffect
  /\ MaintenanceIsIdempotent
  /\ \A c \in Caller : SettingInv(c)
============================================================================
