------------------------ MODULE DatabasesInvariant ------------------------
(***************************************************************************)
(* Why what Databases says holds although a call may read from one         *)
(* database and write to the other: GrantsInvariant's facts of a call are  *)
(* about both.  The conjunction is inductive.                              *)
(***************************************************************************)
EXTENDS Databases, GrantsInvariant

\* The inductive invariant of two databases: what is true of the calls is true of both,
\* whichever they read from and write to (adapters/firestore.py, db_factory), ids
\* number the documents of each, and none crosses over.
DatabasesInv ==
  /\ RacingInv(elsewhere, OtherGenesis)
  /\ \A p, q \in elsewhere : p.id = q.id => p = q
  /\ switches \in Nat
  /\ FirstId <= nextId
  /\ NothingCrosses
===========================================================================
