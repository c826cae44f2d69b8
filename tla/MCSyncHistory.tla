--------------------------- MODULE MCSyncHistory ---------------------------
(* SyncHistory for TLC. *)
EXTENDS MCSync, SyncHistory
=============================================================================
