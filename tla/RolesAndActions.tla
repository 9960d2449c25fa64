------------------------- MODULE RolesAndActions -------------------------
(***************************************************************************)
(* The role vocabulary and its order (roles.py), and the table saying      *)
(* which roles may perform which action (actions.py).                      *)
(***************************************************************************)
EXTENDS Naturals

ROLES == {"owner", "writer", "reader"}

is_valid_role(role) == role \in ROLES

\* _ROLE_PRIVILEGE: higher is more privileged; undefined outside ROLES.
RolePrivilege == [role \in ROLES |->
  CASE role = "owner" -> 3 [] role = "writer" -> 2 [] role = "reader" -> 1]

\* An unrecognised role neither outranks nor equals anything.
role_outranks_or_equals(held, other) ==
  /\ held \in ROLES
  /\ other \in ROLES
  /\ RolePrivilege[held] >= RolePrivilege[other]

POLICY_ADMINISTRATION_ACTIONS == {"GRANT", "REVOKE"}
OwnerDataActions  == {"DROP", "ALTER", "MANIFEST", "AUTOMATE"}
WriterDataActions == {"DELETE", "WRITE", "UPDATE", "CREATE", "REFRESH", "SIGNAL"}

DATA_ACTIONS == {"READ"} \union WriterDataActions \union OwnerDataActions

\* ACTION_ROLES; an action that is not in the table has no roles.
allowed_roles(action) ==
  CASE action = "READ"                -> ROLES
    [] action \in WriterDataActions   -> {"writer", "owner"}
    [] action \in OwnerDataActions
       \union POLICY_ADMINISTRATION_ACTIONS -> {"owner"}
    [] OTHER                          -> {}

action_allowed_for_role(role, action) == role \in allowed_roles(action)
==========================================================================
