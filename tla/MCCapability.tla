--------------------------- MODULE MCCapability ---------------------------
(***************************************************************************)
(* Small instances of Capability: one workspace with two owners, and a     *)
(* compactor that already writes to one of its collections.                *)
(***************************************************************************)
EXTENDS CapabilityInvariant

\* What the theorems about settings suppose, here with two owners and one session.
ASSUME OneSession

MCName == {"w", "c", "d", "*", "$p", "public", "personal", "samples", "information_schema",
           "W", "", "alice", "bob", "carol", "Carol", "federator", "Federator", "xb500", "XB500"}
MCLower == [n \in MCName |->
  CASE n = "W" -> "w" [] n = "Carol" -> "carol" [] n = "Federator" -> "federator" [] n = "XB500" -> "xb500" [] OTHER -> n]
MCSegmentsOf == [n \in MCName |-> <<n>>]
MCLowerRole(role) == role

MCGenesis ==
  {[id |-> 1, workspace |-> "w", principal |-> "alice", role |-> "owner",
    pattern |-> <<"w", "*">>, updated_by |-> "bob"],
   [id |-> 2, workspace |-> "w", principal |-> "bob", role |-> "owner",
    pattern |-> <<"w", "*">>, updated_by |-> "alice"],
   [id |-> 3, workspace |-> "w", principal |-> "federator", role |-> "writer",
    pattern |-> <<"w", "c", "*">>, updated_by |-> "alice"]}

statement(op, actor, principal, role, pattern) ==
  [op |-> op, actor |-> actor, workspace |-> "", principal |-> principal, role |-> role,
   pattern |-> pattern, id |-> 0, members |-> <<>>]
set(actor, workspace, enabled) == [actor |-> actor, workspace |-> workspace, enabled |-> enabled]

MCStatements ==
  {statement("grant", "alice", "carol", "owner", <<"W", "c", "*">>),
   statement("grant", "alice", "XB500", "owner", <<"w", "*">>),
   statement("grant", "", "carol", "reader", <<"w", "*">>),
   statement("grant", "bob", "carol", "writer", <<"public", "*">>),
   statement("grant", "carol", "Federator", "reader", <<"w", "c">>),
   statement("revoke_grant", "bob", "carol", "owner", <<"w", "c", "*">>),
   statement("revoke_grant", "bob", "federator", "writer", <<"w", "*">>),
   statement("revoke_grant", "bob", "alice", "owner", <<"w", "*">>)}

MCSettings ==
  {set("alice", "W", TRUE), set("bob", "w", FALSE), set("bob", "w", TRUE),
   set("carol", "w", TRUE), set("", "w", FALSE), set("alice", "public", TRUE)}

\* Federator is retired and xb500 takes over.
MCCompaction == <<"Federator", "xb500">>

NoKinds == [kind \in {} |-> {}]

MCUsers == {"alice", "Carol", "federator"}
MCObjects == {<<"w", "*">>, <<"W", "c">>, <<"w", "c", "d">>}
===========================================================================
