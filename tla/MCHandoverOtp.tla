---------------------------- MODULE MCHandoverOtp ----------------------------
(* HandoverOtp.tla on small instances: see the README for the bounds.       *)
EXTENDS HandoverOtp, TLC

Symmetry == Permutations(Calls)
=============================================================================
