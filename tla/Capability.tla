---------------------------- MODULE Capability ----------------------------
(***************************************************************************)
(* The SQL surface over Grants (capability.py): GRANT and REVOKE of one    *)
(* policy, and ALTER WORKSPACE ... SET maintenance, a setting whose only   *)
(* state is a policy of the compactor, which the deployment may move to    *)
(* another identity at any time.  The capability is one built with a       *)
(* store.  What happens once a statement is past this surface is Grants.   *)
(***************************************************************************)
EXTENDS Grants, Listings

CONSTANTS
  Statements,           \* GRANTs and REVOKEs sessions may run, as requests
  Settings,             \* SET maintenance statements they may run
  COMPACTION_IDENTITY,  \* the values of the environment variable, one after another
  NoSetting

\* What a statement asks for, and the identity it found to be the compactor.
Wish    == [actor : Name, workspace : Name, enabled : BOOLEAN]
Setting == [actor : Name, workspace : Name, enabled : BOOLEAN, principal : Name]

ASSUME CapabilityAssumption ==
  /\ Statements \subseteq {k \in Call : k.op \in {"grant", "revoke_grant"}}
  /\ Settings \subseteq Wish
  /\ NoSetting \notin Setting
  /\ COMPACTION_IDENTITY \in Seq(Name) /\ COMPACTION_IDENTITY # <<>>

VARIABLES
  setting,   \* the SET maintenance statement each session ran last, if it was one
  reading,   \* is it yet to read the current setting?
  era        \* how many values COMPACTION_IDENTITY has had

surface == <<setting, reading, era>>

\* COMPACTION_IDENTITY (federator unless set), read anew at every use.
maintenance_identity == Lower[COMPACTION_IDENTITY[era]]
capvars == <<vars, surface>>

CapabilityTypeOK ==
  /\ TypeOK
  /\ setting \in [Caller -> Setting \union {NoSetting}]
  /\ reading \in [Caller -> BOOLEAN]
  /\ era \in 1..Len(COMPACTION_IDENTITY)

CapabilityInit ==
  /\ Init
  /\ setting = [c \in Caller |-> NoSetting]
  /\ reading = [c \in Caller |-> FALSE]
  /\ era = 1

Ready(c) == pc[c] = "idle" /\ ~reading[c] /\ begun < MaxCalls /\ begun' = begun + 1

\* Slip: the spelling of the principal is compared as it was written.
RefusedAsWritten(principal) == principal \in PLATFORM_IDENTITIES

_refuse_platform_identity(principal) == Lower[principal] \in PLATFORM_IDENTITIES

(***************************************************************************)
(* apply_grant, apply_revoke: the workspace is the pattern's own.          *)
(***************************************************************************)
Apply(c, s) ==
  /\ Ready(c)
  /\ setting' = [setting EXCEPT ![c] = NoSetting]
  /\ UNCHANGED <<store, audit, history, reading, era>>
  /\ \/ /\ _refuse_platform_identity(s.principal) \/ s.actor = Anonymous
        /\ Return(c, "AccessDenied")
     \/ /\ ~_refuse_platform_identity(s.principal) /\ s.actor # Anonymous
        /\ ~IsPattern(normalize(s.pattern))
        /\ Return(c, "InvalidPattern")
     \/ /\ ~_refuse_platform_identity(s.principal) /\ s.actor # Anonymous
        /\ IsPattern(normalize(s.pattern))
        /\ Enter(c, [s EXCEPT !.workspace = normalize(s.pattern)[1]])

ApplyGrant(c)  == \E s \in Statements : s.op = "grant" /\ Apply(c, s)
ApplyRevoke(c) == \E s \in Statements : s.op = "revoke_grant" /\ Apply(c, s)

(***************************************************************************)
(* set_workspace_maintenance: read the setting, then do what is missing.   *)
(***************************************************************************)
MAINTENANCE_ROLE == "writer"

\* Slip: any policy of the compactor in the workspace counts as the setting.
AnyCompactorPolicy(workspace, principal) == list_policies_for_principal(workspace, principal)

\* The policies that are the setting: principal, pattern and role all match.
_maintenance_policy(workspace, principal) ==
  {p \in list_policies_for_principal(workspace, principal) :
     normalize(p.pattern) = WholeWorkspace(workspace) /\ p.role = MAINTENANCE_ROLE}

workspace_maintenance(workspace) ==
  _maintenance_policy(Lower[workspace], maintenance_identity) # {}

SetMaintenance(c) ==
  /\ Ready(c)
  /\ UNCHANGED <<store, audit, history, era>>
  /\ \E s \in Settings :
       LET workspace == Lower[s.workspace] IN
       \/ /\ s.actor = Anonymous
          /\ Return(c, "AccessDenied") /\ UNCHANGED reading
          /\ setting' = [setting EXCEPT ![c] = NoSetting]
       \/ /\ s.actor # Anonymous /\ ~IsPattern(WholeWorkspace(workspace))
          /\ Return(c, "InvalidPattern") /\ UNCHANGED reading
          /\ setting' = [setting EXCEPT ![c] = NoSetting]
       \/ /\ s.actor # Anonymous /\ IsPattern(WholeWorkspace(workspace))
          /\ setting' = [setting EXCEPT ![c] =
               [actor |-> s.actor, workspace |-> workspace, enabled |-> s.enabled,
                principal |-> maintenance_identity]]
          /\ reading' = [reading EXCEPT ![c] = TRUE]
          /\ UNCHANGED local

\* Slip: the compactor is looked up again once the setting has been read.
CallForTheLatest(s) ==
  [op |-> IF s.enabled THEN "grant" ELSE "revoke_grant", actor |-> s.actor,
   workspace |-> s.workspace, principal |-> maintenance_identity,
   role |-> MAINTENANCE_ROLE, pattern |-> WholeWorkspace(s.workspace),
   id |-> 0, members |-> <<>>]

\* The call of grant or revoke_grant that makes the setting what s asks for.
MaintenanceCall(s) ==
  [op |-> IF s.enabled THEN "grant" ELSE "revoke_grant", actor |-> s.actor,
   workspace |-> s.workspace, principal |-> s.principal,
   role |-> MAINTENANCE_ROLE, pattern |-> WholeWorkspace(s.workspace),
   id |-> 0, members |-> <<>>]

\* Slip: the current setting is not looked at.
ChangeMaintenanceAnyway(c) ==
  /\ reading[c]
  /\ reading' = [reading EXCEPT ![c] = FALSE]
  /\ Enter(c, MaintenanceCall(setting[c]))
  /\ UNCHANGED <<setting, era>> /\ ReadOnly

ReadMaintenance(c) ==
  LET s == setting[c]
      current == _maintenance_policy(s.workspace, s.principal) # {}
  IN  /\ reading[c]
      /\ reading' = [reading EXCEPT ![c] = FALSE]
      /\ \/ s.enabled = current /\ Return(c, "ok")
         \/ s.enabled # current /\ Enter(c, MaintenanceCall(s))
      /\ UNCHANGED <<setting, era>> /\ ReadOnly

AbortReading(c) ==
  /\ MayAbort /\ reading[c]
  /\ reading' = [reading EXCEPT ![c] = FALSE]
  /\ Return(c, "Aborted")
  /\ UNCHANGED <<setting, era>> /\ ReadOnly

\* The environment variable is changed under the running process.
MoveIdentity ==
  /\ era < Len(COMPACTION_IDENTITY)
  /\ era' = era + 1
  /\ UNCHANGED <<vars, setting, reading>>

CapabilityStep(c) ==
  \/ ApplyGrant(c) \/ ApplyRevoke(c) \/ SetMaintenance(c)
  \/ ReadMaintenance(c) \/ AbortReading(c)
  \/ (Step(c) \/ Abort(c)) /\ UNCHANGED surface

CapabilityDone == Done /\ (\A c \in Caller : ~reading[c]) /\ UNCHANGED surface

CapabilityNext == CapabilityDone \/ MoveIdentity \/ \E c \in Caller : CapabilityStep(c)

CapabilitySpec == CapabilityInit /\ [][CapabilityNext]_capvars

\* Whatever interleaves: the only access sessions can create for a platform identity
\* is the setting's own policy, and only for one that has been the compactor by
\* then (capability.py, _refuse_platform_identity).
PlatformAccessIsTheSetting ==
  \A n \in 1..Len(history) :
    history[n].event = "policy.created" /\ Lower[history[n].principal] \in PLATFORM_IDENTITIES =>
      /\ \E e \in 1..era : history[n].principal = Lower[COMPACTION_IDENTITY[e]]
      /\ history[n].role = MAINTENANCE_ROLE
      /\ history[n].pattern = WholeWorkspace(history[n].workspace)

\* Settled c: its last statement was SET maintenance, and it has ended.
Settled(c) == setting[c] # NoSetting /\ pc[c] = "idle" /\ ~reading[c]

\* The policy with which an identity writes to the whole of the workspace.
Maintained(workspace, principal) ==
  \E p \in policies : /\ p.workspace = workspace
                      /\ p.principal = principal
                      /\ p.role = MAINTENANCE_ROLE
                      /\ p.pattern = WholeWorkspace(workspace)

\* One caller at a time: what a session has set is so for the compactor of the time
\* it was set, though the compactor may have moved on in the middle of it, and no
\* other policy is mistaken for the setting (set_workspace_maintenance).
SettingTakesEffect ==
  \A c \in Caller :
    Settled(c) /\ outcome[c] = "ok" =>
      (Maintained(setting[c].workspace, setting[c].principal) <=> setting[c].enabled)

\* One caller at a time: setting what is already so is no error
\* (set_workspace_maintenance: "Idempotent in both directions").
MaintenanceIsIdempotent ==
  \A c \in Caller : Settled(c) => outcome[c] \notin {"Conflict", "NotFound"}

\* Where maintenance is reported on, today's compactor can write to every object
\* there, by its own permission check (workspace_maintenance: "what this reports is
\* what the compactor's own permission check will decide").
ReportedMaintenanceIsAccess ==
  \A o \in Objects :
    workspace_maintenance(o[1]) /\ Len(o) > 1 /\ ~is_engine_private(o) =>
      can_principal_perform_action(maintenance_identity, o, "WRITE")
===========================================================================
