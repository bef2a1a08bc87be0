------------------------------- MODULE Tables -------------------------------
(***************************************************************************)
(* A keyed store as a function from the keys that are present to their     *)
(* rows.  The database tables, Stripe's sessions, the rate limiter's map   *)
(* and the set of requests the server is working on are all of this shape. *)
(***************************************************************************)
EXTENDS Functions

\* t is a store whose keys are among Keys and whose rows are in Row.
IsTable(t, Keys, Row) == DOMAIN t \subseteq Keys /\ t \in [DOMAIN t -> Row]

\* t with the row at k inserted or replaced.
Put(t, k, row) == [j \in DOMAIN t \cup {k} |-> IF j = k THEN row ELSE t[j]]

\* t without the row at k.
Drop(t, k) == Restrict(t, DOMAIN t \ {k})

\* The store with no row.
NoRows == [k \in {} |-> {}]
=============================================================================
