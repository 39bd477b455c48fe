--------------------------- MODULE MCSyncScheduler ---------------------------
(* SyncScheduler has nothing to instantiate but numbers and sets of them: the *)
(* constants are given in the configurations.                                 *)
EXTENDS SyncScheduler
=============================================================================
