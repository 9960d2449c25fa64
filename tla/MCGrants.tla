----------------------------- MODULE MCGrants -----------------------------
(***************************************************************************)
(* Small instances of Grants: two workspaces, a handful of identities, a   *)
(* genesis of a few policies and a menu of calls for each question asked.  *)
(***************************************************************************)
EXTENDS SerialGrants, GrantsInvariant, TLC

\* Names: workspaces w and v, a collection c, identities, and other spellings.
MCName == {"w", "v", "c", "*", "$p", "public", "information_schema", "W", "V",
           "alice", "ALICE", "bob", "carol", "dan", "a*"}
MCLower == [n \in MCName |-> CASE n = "W" -> "w" [] n = "V" -> "v" [] n = "ALICE" -> "alice" [] OTHER -> n]
MCLiteral == {"w", "v", "c", "public", "information_schema"}

MCLowerRole(role) == CASE role = "Reader" -> "reader" [] OTHER -> role

p(id, workspace, principal, role, pattern) ==
  [id |-> id, workspace |-> workspace, principal |-> principal, role |-> role,
   pattern |-> pattern, updated_by |-> "dan"]

Blank == [op |-> "grant", actor |-> "*", workspace |-> "w", principal |-> "*",
          role |-> "", pattern |-> <<>>, id |-> 0, members |-> <<>>]

grant(actor, workspace, principal, role, pattern) ==
  [Blank EXCEPT !.actor = actor, !.workspace = workspace, !.principal = principal,
                !.role = role, !.pattern = pattern]
revoke_grant(actor, workspace, principal, role, pattern) ==
  [grant(actor, workspace, principal, role, pattern) EXCEPT !.op = "revoke_grant"]
update_grant(actor, workspace, id, role, pattern) ==
  [Blank EXCEPT !.op = "update_grant", !.actor = actor, !.workspace = workspace,
                !.id = id, !.role = role, !.pattern = pattern]
revoke(actor, workspace, id) ==
  [Blank EXCEPT !.op = "revoke", !.actor = actor, !.workspace = workspace, !.id = id]
bootstrap(actor, workspace, members) ==
  [Blank EXCEPT !.op = "bootstrap", !.actor = actor, !.workspace = workspace,
                !.members = members]
member(principal, role) == [principal |-> principal, role |-> role]

\* w: two whole-workspace owners, an owner of the collection c, a dataset reader
\* and a document from before principals were casefolded.
SharedGenesis ==
  {p(1, "w", "alice", "owner", <<"w", "*">>),
   p(2, "w", "bob",   "owner", <<"w", "*">>),
   p(3, "w", "carol", "owner", <<"w", "c", "*">>),
   p(4, "w", "dan",   "reader", <<"w", "c", "v">>),
   p(5, "w", "ALICE", "reader", <<"w", "c">>)}

\* Calls that meet: on one document, on one principal, across workspaces and
\* scopes, by an actor whose authority is being taken away, and on oneself.
RacingRequests ==
  {grant("ALICE", "W", "dan", "owner", <<"w", "c", "*">>),
   grant("carol", "w", "dan", "writer", <<"v", "*">>),
   grant("dan", "w", "bob", "reader", <<"w", "c">>),
   update_grant("bob", "w", 3, "writer", <<"w", "*">>),
   update_grant("alice", "w", 3, "reader", <<"v", "c">>),
   update_grant("alice", "w", 5, "writer", <<"w", "c">>),
   revoke("alice", "w", 3),
   revoke("bob", "w", 1),
   revoke_grant("bob", "w", "carol", "owner", <<"w", "c", "*">>)}

\* Workspaces being founded while others already use them.
FoundingRequests ==
  {bootstrap("alice", "w", <<member("bob", "reader"), member("alice", "owner")>>),
   bootstrap("dan", "w", <<member("dan", "owner"), member("carol", "writer")>>),
   bootstrap("dan", "v", <<member("bob", "reader")>>),
   grant("dan", "w", "bob", "owner", <<"w", "c", "*">>),
   grant("bob", "w", "carol", "writer", <<"w", "c", "v">>)}

\* Two owners give the same principal the same thing, and revoke the same policy.
ClashingRequests ==
  {grant("alice", "w", "dan", "reader", <<"w", "c">>),
   grant("bob", "w", "dan", "writer", <<"w", "c">>),
   revoke("alice", "w", 3),
   revoke("bob", "w", 3)}

\* A policy moves to another pattern while others edit or revoke it.
MovingRequests ==
  {update_grant("bob", "w", 4, "reader", <<"w", "*">>),
   update_grant("carol", "w", 4, "writer", <<"w", "c", "v">>),
   revoke_grant("alice", "w", "dan", "reader", <<"w", "c", "v">>)}

\* Two people create the same workspace.
TwoFounders ==
  {bootstrap("alice", "w", <<member("alice", "owner")>>),
   bootstrap("dan", "w", <<member("dan", "owner")>>)}

CallerSymmetry == Permutations(Caller)

\* A workspace that was there before, with a role in capitals in one of its documents.
SerialGenesis ==
  {p(1, "v", "dan", "owner", <<"v", "*">>),
   p(2, "v", "bob", "Reader", <<"v", "*">>)}

\* Another workspace from its bootstrap on, with calls that are refused for every
\* reason there is and calls that undo one another.
SerialRequests ==
  {bootstrap("alice", "W", <<member("alice", "owner"), member("bob", "reader")>>),
   bootstrap("dan", "w", <<member("bob", "reader"), member("carol", "owner")>>),
   bootstrap("dan", "w", <<member("dan", "reader")>>),
   bootstrap("dan", "w", <<member("dan", "owner"), member("dan", "reader")>>),
   bootstrap("dan", "w", <<member("dan", "owner"), member("bob", "admin")>>),
   bootstrap("dan", "public", <<member("a*", "owner")>>),
   bootstrap("dan", "w", <<member("a*", "owner")>>),
   grant("ALICE", "w", "carol", "owner", <<"W", "*">>),
   grant("carol", "w", "bob", "writer", <<"w", "c">>),
   grant("carol", "w", "bob", "reader", <<"w", "c">>),
   grant("alice", "w", "bob", "admin", <<"w", "*">>),
   grant("alice", "w", "bob", "owner", <<"w", "$p">>),
   grant("alice", "w", "ALICE", "owner", <<"w", "*">>),
   update_grant("carol", "w", 3, "writer", <<"w", "*">>),
   update_grant("alice", "w", 4, "owner", <<"w", "c">>),
   update_grant("alice", "w", 4, "owner", <<"w", "information_schema">>),
   update_grant("carol", "w", 5, "owner", <<"w", "*">>),
   update_grant("bob", "w", 5, "reader", <<"w", "c">>),
   revoke("alice", "w", 3),
   revoke("carol", "w", 3),
   revoke("alice", "w", 5),
   revoke("alice", "w", 9),
   revoke_grant("alice", "w", "bob", "reader", <<"w", "*">>),
   revoke_grant("alice", "w", "carol", "reader", <<"w", "*">>),
   revoke_grant("carol", "w", "bob", "writer", <<"w", "c">>),
   revoke_grant("dan", "v", "bob", "reader", <<"V", "*">>)}
===========================================================================
