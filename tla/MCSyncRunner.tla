---------------------------- MODULE MCSyncRunner ----------------------------
(* TLC instance of SyncRunner.  The run checks liveness too: no symmetry. *)
EXTENDS SyncRunner

=============================================================================
