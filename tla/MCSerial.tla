----------------------------- MODULE MCSerial -----------------------------
(***************************************************************************)
(* The instance of SerialGrants: the calls of MCGrants, made one after     *)
(* another by one caller.                                                  *)
(***************************************************************************)
EXTENDS MCGrants, SerialInvariant

ASSUME Serial
===========================================================================
