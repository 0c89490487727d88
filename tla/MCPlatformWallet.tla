--------------------------- MODULE MCPlatformWallet ---------------------------
(* PlatformWallet.tla on small instances: see the README for the bounds.    *)
EXTENDS PlatformWallet, TLC

Symmetry == Permutations(Calls) \cup Permutations(Withdrawals) \cup Permutations(Currencies)
=============================================================================
