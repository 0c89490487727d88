------------------------------- MODULE MCSeats -------------------------------
(* Seats.tla on small instances: see the README for the bounds.             *)
EXTENDS Seats, TLC

Symmetry == Permutations(Bookings) \cup Permutations(Clients) \cup Permutations(Calls)
=============================================================================
