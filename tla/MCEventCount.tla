---------------------------- MODULE MCEventCount ----------------------------
(* TLC instances of EventCount. *)
EXTENDS EventCount

=============================================================================
