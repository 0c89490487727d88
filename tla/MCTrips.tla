------------------------------ MODULE MCTrips ------------------------------
(* Trips.tla on small instances: see the README for the bounds.             *)
EXTENDS Trips, TLC

Symmetry == Permutations(DriverCalls) \cup Permutations(ClientCalls)
                \cup Permutations(Bookings)
=============================================================================
