----------------------------- MODULE MCPayments -----------------------------
(* Payments.tla on small instances: see the README for the bounds.          *)
EXTENDS Payments, TLC

Symmetry == Permutations(Calls)
=============================================================================
