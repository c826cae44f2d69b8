------------------------------- MODULE MCSync -------------------------------
(* Instances of Sync for TLC. *)
EXTENDS Sync, TLC

CONSTANTS a, b, plain, dot

\* a and b have the same length, so a swap of one for the other escapes the
\* size comparison.
TwoContents == {a, b}
SizeOfTwo == a :> 1 @@ b :> 1
=============================================================================
