----------------------------- MODULE MCPageCache -----------------------------
(* TLC instance of PageCache. *)
EXTENDS PageCache, TLC

Symmetry == Permutations(Blocks)

=============================================================================
