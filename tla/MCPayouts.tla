----------------------------- MODULE MCPayouts -----------------------------
(* Payouts.tla on small instances: see the README for the bounds.           *)
EXTENDS Payouts, TLC

UnitAmount == [p \in Payouts |-> 1]
Symmetry == Permutations(Calls)
=============================================================================
