----------------------------- MODULE Databases -----------------------------
(***************************************************************************)
(* A store built over db_factory (adapters/firestore.py): the factory is   *)
(* asked for a database at every call of the store, and the configuration  *)
(* it reads may change under the running process.  So an operation of      *)
(* Grants may read from one database and write to another.  Callers are    *)
(* the threads of one process; `policies` is the database named now.  The  *)
(* other one starts as a copy of the same workspaces that has gone its own *)
(* way: documents in both have the same id and the same principal.         *)
(***************************************************************************)
EXTENDS Grants, Listings

CONSTANTS
  OtherGenesis,   \* the documents of the database not named to begin with
  MaxSwitches     \* bound: changes of the configuration

ASSUME DatabasesAssumption ==
  /\ OtherGenesis \subseteq Policy
  /\ \A p \in OtherGenesis : WellFiled(p) /\ p.id < FirstId
  /\ \A p \in OtherGenesis, q \in Genesis \union OtherGenesis :
       p.id = q.id => p.workspace = q.workspace /\ p.principal = q.principal
  /\ \A p, q \in OtherGenesis : p.id = q.id => p = q
  /\ MaxSwitches \in Nat

VARIABLES
  elsewhere,   \* the documents of the database that is not named now
  switches     \* how often the configuration has changed

databases == <<elsewhere, switches>>

DatabasesInit == Init /\ elsewhere = OtherGenesis /\ switches = 0

\* The next _database() is another one: for every thread, wherever it is.
Switch ==
  /\ switches < MaxSwitches
  /\ switches' = switches + 1
  /\ policies' = elsewhere
  /\ elsewhere' = policies
  /\ UNCHANGED <<nextId, local, begun, audit, history>>

DatabasesNext == Switch \/ (Next /\ UNCHANGED databases)

DatabasesSpec == DatabasesInit /\ [][DatabasesNext]_<<vars, databases>>

\* The database whose documents began as Genesis.
First  == IF switches % 2 = 0 THEN policies ELSE elsewhere
Second == IF switches % 2 = 0 THEN elsewhere ELSE policies

Ids(documents) == {p.id : p \in documents}

\* Both databases are filed as the lookups assume, whichever of them a call read
\* from before it wrote (grants.py, _database).
FiledInBoth == \A p \in policies \union elsewhere : WellFiled(p)

\* No document crosses from one database to the other: one that was only in one is
\* only ever there, and a new one is in the one it was created in (update_policy
\* changes a document and never makes one).
NothingCrosses ==
  /\ Ids(First) \intersect Ids(OtherGenesis) \subseteq Ids(Genesis)
  /\ Ids(Second) \intersect Ids(Genesis) \subseteq Ids(OtherGenesis)
  /\ Ids(First) \intersect Ids(Second) \subseteq Ids(Genesis) \intersect Ids(OtherGenesis)

\* The authority behind every change was owned in one of the databases, though not
\* always the one the change was made in.
RootedSomewhere ==
  \A n \in 1..Len(history) :
    history[n].event # "policy.deleted" /\ ~history[n].bootstrap =>
      \/ OnceOwned(n, history[n].actor, history[n].pattern)
      \/ \E p \in OtherGenesis : /\ p.workspace = history[n].workspace
                                 /\ Lower[p.principal] = Lower[history[n].actor]
                                 /\ p.role = "owner"
                                 /\ resource_matches(history[n].pattern, p.pattern)

\* A token minted now, from every policy the user holds in any workspace, decides as
\* the live check does, which only looks in the resource's own workspace
\* (grants_for_principal, "keeps them interchangeable").
Token(user) ==
  [user |-> user, entitlements |-> NoEntitlements,
   access_policies |-> {[readable |-> TRUE, role |-> p.role, pattern |-> p.pattern] :
                          p \in {p \in policies : p.principal = Lower[user]}}]

FetchPathsAgree ==
  \A u \in Users, o \in Objects, action \in Asked :
    May(Token(u), o, action) <=> can_principal_perform_action(u, o, action)
============================================================================
