----------------------------- MODULE Snapshots ------------------------------
(***************************************************************************)
(* The database sessions of the services that lock nothing.  A request of  *)
(* the API is one transaction, at the database's default isolation: under  *)
(* MySQL (config.py) repeatable read, where the first SELECT takes the     *)
(* snapshot that all its reads see.  That is what is modelled; under       *)
(* PostgreSQL (.env.example) each query may see a later moment.            *)
(* SQLAlchemy then writes the columns the handler changed, each with the   *)
(* handler's value, whatever other transactions have put there since; the  *)
(* other columns of the row stay as they are.                              *)
(***************************************************************************)
EXTENDS Integers, FiniteSets

CONSTANTS Requesters,  \* requests and threads, each with a session of its own
          NoView       \* a session that has read nothing yet

ASSUME RequestersAssumption == IsFiniteSet(Requesters)

MergeRow(old, new, row) ==
  [column \in DOMAIN row |->
     IF new[column] # old[column] THEN new[column] ELSE row[column]]

MergeTable(old, new, table) ==
  [id \in DOMAIN table |-> MergeRow(old[id], new[id], table[id])]

\* The id an INSERT gets: the first one free, or none.
NextId(free) == {id \in free : \A other \in free : id <= other}
=============================================================================
