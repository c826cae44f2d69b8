--------------------------- MODULE MCVfsCacheLog ---------------------------
(* VfsCacheLog for TLC. *)
EXTENDS MCVfsCache, VfsCacheLog
=============================================================================
