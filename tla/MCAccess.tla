----------------------------- MODULE MCAccess -----------------------------
(***************************************************************************)
(* Sessions, with every kind of entry and name a token may hold: read with *)
(* and without case, too broad, too narrow, unreadable, not issuable.      *)
(***************************************************************************)
EXTENDS Sessions

\* What the theorem about entitlements supposes.
ASSUME OneKind /\ PlainScopes

MCName == {"w", "W", "c", "C", "d", "*", "$p", "public", "personal", "samples",
           "information_schema", "alice", "ALICE", "alice.c", "bob", "xb500", "XB500", "",
           "automation_admin", "AUTOMATION_ADMIN", "user_admin"}
MCLower == [n \in MCName |->
  CASE n = "W" -> "w" [] n = "C" -> "c" [] n = "ALICE" -> "alice" [] n = "XB500" -> "xb500"
    [] n = "AUTOMATION_ADMIN" -> "automation_admin" [] OTHER -> n]
MCSegmentsOf == [n \in MCName |-> IF n = "alice.c" THEN <<"alice", "c">> ELSE <<n>>]
MCLiteral == {"w", "c", "d", "public", "personal", "samples", "information_schema", "alice", "bob"}
MCKinds == [kind \in {"automation_admin"} |-> {"AUTOMATE"}]

entry(role, pattern) == [readable |-> TRUE, role |-> role, pattern |-> pattern]
MCClaims ==
  {entry("owner", <<"W", "*">>), entry("writer", <<"w", "c", "*">>), entry("owner", <<"w">>),
   entry("owner", <<"*">>), entry("reader", <<"personal", "*">>), entry("Owner", <<"w", "*">>),
   entry("owner", <<>>), [entry("owner", <<"w", "*">>) EXCEPT !.readable = FALSE]}

name(kind, scope) == [kind |-> kind, scoped |-> TRUE, scope |-> scope]
MCIssued ==
  {name("automation_admin", <<"W">>), name("AUTOMATION_ADMIN", <<"w", "c", "*">>),
   name("automation_admin", <<"public">>), name("automation_admin", <<"$p">>),
   name("automation_admin", <<"w", "information_schema">>), name("automation_admin", <<>>),
   [name("automation_admin", <<>>) EXCEPT !.scoped = FALSE], name("user_admin", <<"w">>)}

MCResources ==
  {<<"w">>, <<"W", "c">>, <<"w", "c", "d">>, <<"w", "d", "c">>, <<"w", "information_schema", "d">>,
   <<"w", "$p">>, <<"public", "c", "d">>, <<"samples", "c">>, <<"personal", "ALICE">>,
   <<"personal", "alice", "C">>, <<"personal", "alice", "c", "d">>,
   <<"personal", "bob", "c">>, <<"personal", "*", "c">>}
===========================================================================
