----------------------------- MODULE MCIOThread -----------------------------
(* TLC instances of IOThread. *)
EXTENDS IOThread

=============================================================================
