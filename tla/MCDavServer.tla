----------------------------- MODULE MCDavServer -----------------------------
(* DavServer for TLC: the connections are alike. *)
EXTENDS DavServer, TLC

Symmetry == Permutations(Conns)
=============================================================================
