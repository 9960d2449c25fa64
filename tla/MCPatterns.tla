---------------------------- MODULE MCPatterns ----------------------------
(***************************************************************************)
(* A small instance of Coverage: a literal spelt in another casing, one of *)
(* two letters, and the wildcard.                                          *)
(***************************************************************************)
EXTENDS Coverage

MCName == {"w", "W", "wc", "*", "information_schema", "public", "$p"}
MCLower == [n \in MCName |-> IF n = "W" THEN "w" ELSE n]
MCCharacters == [n \in {"w", "wc", "*"} |-> IF n = "wc" THEN <<"w", "c">> ELSE <<n>>]
===========================================================================
