---------------------------- MODULE MCLocksInTurn ---------------------------
(* TLC instance of RWLock, its refinement and ThrMutex.  The run checks        *)
(* liveness too: no symmetry.                                                  *)
EXTENDS LocksInTurn

=============================================================================
