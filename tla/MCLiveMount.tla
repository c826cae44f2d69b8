----------------------------- MODULE MCLiveMount -----------------------------
(* LiveMount for TLC: the processes are alike. *)
EXTENDS LiveMount, TLC

Symmetry == Permutations(Procs)
=============================================================================
