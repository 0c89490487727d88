----------------------------- MODULE MCSessions -----------------------------
(* Sessions.tla on small instances: see the README for the bounds.          *)
EXTENDS Sessions, TLC

Symmetry == Permutations(Requests)
=============================================================================
