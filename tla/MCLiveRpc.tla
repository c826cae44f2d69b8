------------------------------ MODULE MCLiveRpc ------------------------------
(* LiveRpc for TLC. *)
EXTENDS LiveRpc, TLC

ValueSymmetry == Permutations(Value)
=============================================================================
