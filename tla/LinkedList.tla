----------------------------- MODULE LinkedList -----------------------------
(***************************************************************************)
(* The doubly linked lists of C-kern/api/ds/link.h and                     *)
(* C-kern/api/ds/inmem/dlist.h as sequences.  A member is unlinked without *)
(* a walk over the list; the others keep their order.                      *)
(***************************************************************************)
EXTENDS Integers, FiniteSets, SequencesExt

\* How many of the first n members are in T.
CountIn(list, T, n) == Cardinality({i \in 1..n : list[i] \in T})

\* What is left of a list if the members which are not in T are unlinked.
Kept(list, T) ==
    [k \in 1..CountIn(list, T, Len(list)) |->
        list[CHOOSE i \in DOMAIN list : list[i] \in T /\ CountIn(list, T, i) = k]]

\* unlink_linkd, remove_dlist
Without(list, e) == Kept(list, ToSet(list) \ {e})

=============================================================================
