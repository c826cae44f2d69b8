----------------------------- MODULE MCVfsCache -----------------------------
(* VfsCache for TLC. *)
EXTENDS VfsCache, TLC

AllRequests == {[off |-> 0, len |-> 2], [off |-> 1, len |-> 2]}
PathSymmetry == Permutations(Paths)

\* Without listings, which have no part in what a read returns.
BlockSpec == Init /\ [][Next /\ op'.call # "list"]_vars
=============================================================================
