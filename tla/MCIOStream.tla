----------------------------- MODULE MCIOStream -----------------------------
(* TLC instances of IOStream. *)
EXTENDS IOStream

=============================================================================
