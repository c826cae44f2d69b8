---------------------------- MODULE MCCredentials ----------------------------
(* Credentials for TLC: the pasted tokens are alike, and the two names      *)
(* differ in case alone, which counts in the workspace but not at home.     *)
EXTENDS Credentials, TLC

CaseAtHome == [s \in Scopes |-> [n \in Names |-> IF s = "global" THEN 1 ELSE n]]
Symmetry == Permutations(Tokens)
=============================================================================
