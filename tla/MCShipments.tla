----------------------------- MODULE MCShipments -----------------------------
(* Shipments.tla on small instances: see the README for the bounds.         *)
EXTENDS Shipments, TLC

Symmetry == Permutations(Calls) \cup Permutations(Parcels)
=============================================================================
