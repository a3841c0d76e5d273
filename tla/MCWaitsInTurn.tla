---------------------------- MODULE MCWaitsInTurn ---------------------------
(* TLC instance of EventCount and WaitList.  The run checks liveness too: no   *)
(* symmetry.                                                                   *)
EXTENDS WaitsInTurn

=============================================================================
