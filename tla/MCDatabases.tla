---------------------------- MODULE MCDatabases ----------------------------
(***************************************************************************)
(* A small instance of Databases: a database and a copy of it that has     *)
(* gone its own way, in which other people own other things.               *)
(***************************************************************************)
EXTENDS MCGrants, DatabasesInvariant

DatabaseNames == MCName \union {"", "personal", "samples"}
DatabaseLower == [n \in DatabaseNames |-> IF n \in MCName THEN MCLower[n] ELSE n]
MCSegmentsOf == [n \in DatabaseNames |-> <<n>>]

FirstDatabase ==
  {p(1, "w", "alice", "owner", <<"w", "*">>),
   p(2, "w", "bob",   "owner", <<"w", "*">>),
   p(3, "w", "carol", "reader", <<"w", "c">>),
   p(4, "w", "ALICE", "reader", <<"w", "c">>)}

\* alice has lost the workspace, carol has got the collection, dan is gone, v exists.
SecondDatabase ==
  {p(1, "w", "alice", "reader", <<"w", "*">>),
   p(2, "w", "bob",   "owner", <<"w", "*">>),
   p(3, "w", "carol", "owner", <<"w", "c", "*">>),
   p(5, "v", "bob",   "owner", <<"v", "*">>)}

SwitchingRequests ==
  {grant("alice", "w", "dan", "writer", <<"w", "c">>),
   grant("carol", "w", "dan", "reader", <<"w", "c", "v">>),
   update_grant("bob", "w", 3, "writer", <<"w", "*">>),
   update_grant("alice", "w", 3, "reader", <<"v", "c">>),
   update_grant("alice", "w", 4, "writer", <<"w", "c">>),
   update_grant("bob", "w", 4, "writer", <<"w", "c">>),
   update_grant("carol", "w", 3, "owner", <<"w", "c", "v">>),
   revoke("bob", "w", 1),
   revoke_grant("bob", "w", "carol", "reader", <<"w", "c">>),
   bootstrap("dan", "v", <<member("dan", "owner")>>)}

NoKinds == [kind \in {} |-> {}]
MCUsers == {"ALICE", "dan", "carol"}
MCObjects == {<<"W", "c", "v">>, <<"v", "c">>}
============================================================================
