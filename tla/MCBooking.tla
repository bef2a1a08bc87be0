----------------------------- MODULE MCBooking ------------------------------
(***************************************************************************)
(* Booking on small instances.                                             *)
(***************************************************************************)
EXTENDS Booking, TLC

CONSTANTS u1, u2, e1, r1, r2, s1, s2, h1, h2

OneOwner == [e \in Establishments |-> u2]

\* Reservations, sessions and handlers are interchangeable.
Symmetry == Permutations(Reservations) \cup Permutations(Sessions)
            \cup Permutations(Handlers)
=============================================================================
