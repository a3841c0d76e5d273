----------------------------- MODULE SyncQueue ------------------------------
(***************************************************************************)
(* syncrunner_queue_t: C-kern/task/syncrunner.c, section                   *)
(* syncrunner_queue_t.  A list of memory pages with N slots each.  Slots   *)
(* are numbered 1, 2, ... from the first page on.  The slots up to member  *)
(* nextfree of page firstfree have been handed out; those of them which    *)
(* were given back are holes and linked into freelist.                     *)
(*                                                                         *)
(* A queue is a record; an operation is an operator from queue to queue.   *)
(* slot[i] is the function in slot i, NoFunc if mainfct is 0.  What a slot *)
(* behind nextfree contains is never read; it is NoFunc, too.              *)
(***************************************************************************)
EXTENDS LinkedList, Integers, Sequences, FiniteSets, SequencesExt

CONSTANTS Funcs,   \* the functions a syncrunner_t can manage
          NoFunc,  \* mainfct == 0
          N        \* NRELEMPERPAGE

ASSUME SyncQueueAssumption == /\ N \in Nat \ {0}
                              /\ NoFunc \notin Funcs

\* init_sq
EmptyQueue == [size |-> 0, slot |-> <<>>, firstfree |-> 0, nextfree |-> 0,
               nrfree |-> 0, freelist |-> <<>>, freelist_size |-> 0]

\* Slots which were handed out: all pages before firstfree and a part of it.
Used(q) == IF q.firstfree = 0 THEN 0 ELSE (q.firstfree - 1) * N + q.nextfree

Nrfree(q) == q.freelist_size + q.nrfree
Inuse(q) == q.size - Nrfree(q)

\* grow_sq: append a page.
Grow(q) ==
    [q EXCEPT !.size = @ + N,
              !.nrfree = @ + N,
              !.slot = @ \o [i \in 1..N |-> NoFunc],
              !.firstfree = IF q.size = 0 THEN 1 ELSE @]

\* shrink_sq: release the last page if it is not used.
Shrink(q) ==
    IF q.nrfree < N THEN q
    ELSE [q EXCEPT !.size = @ - N,
                   !.nrfree = @ - N,
                   !.slot = SubSeq(@, 1, q.size - N),
                   !.firstfree = IF q.size = N THEN 0 ELSE @]

\* sfalloc_sq goes on to the next page.
PageFull(q) == q.nextfree = N

\* The slot sfalloc_sq returns.
AllocSlot(q) ==
    IF q.freelist_size # 0 THEN Head(q.freelist)
    ELSE IF PageFull(q) THEN q.firstfree * N + 1
    ELSE (q.firstfree - 1) * N + q.nextfree + 1

\* sfalloc_sq, and f is stored in the allocated slot.
SfAlloc(q, f) ==
    IF q.freelist_size # 0
    THEN [q EXCEPT !.freelist_size = @ - 1,
                   !.freelist = Tail(@),
                   !.slot[AllocSlot(q)] = f]
    ELSE [q EXCEPT !.nrfree = @ - 1,
                   !.firstfree = IF PageFull(q) THEN @ + 1 ELSE @,
                   !.nextfree = IF PageFull(q) THEN 1 ELSE @ + 1,
                   !.slot[AllocSlot(q)] = f]

\* sffree_sq
SfFree(q, i) ==
    [q EXCEPT !.slot[i] = NoFunc,
              !.freelist = Append(@, i),
              !.freelist_size = @ + 1]

-----------------------------------------------------------------------------
\* Slots which contain a function.
Live(q) == {i \in DOMAIN q.slot : q.slot[i] # NoFunc}

-----------------------------------------------------------------------------
(* compact_sq: fill holes with the functions of the last used page.        *)

NrShrink(q) == IF q.freelist_size < q.nextfree THEN q.freelist_size ELSE q.nextfree

\* The slots which are given up, and the holes in front of them.  Mistake: the
\* holes which are given up are not removed from freelist first.
Dropped(q) == (Used(q) - NrShrink(q) + 1) .. Used(q)
HolesBug(q) == q.freelist

Holes(q) == Kept(q.freelist, 1..(Used(q) - NrShrink(q)))

\* The functions in them, last one first; the k-th one moves to the k-th hole.
Movers(q) == Kept([k \in 1..NrShrink(q) |-> Used(q) + 1 - k], Live(q))

\* Where compact_sq leaves the function of slot i.
MovedTo(q, i) ==
    IF \E k \in DOMAIN Movers(q) : Movers(q)[k] = i
    THEN Holes(q)[CHOOSE k \in DOMAIN Movers(q) : Movers(q)[k] = i]
    ELSE i

\* initmove_syncfunc: relink the wait nodes of moved functions.  Mistake: the
\* node is copied as initcopy_syncfunc does.
RelinkBug(q, list) == list

Relink(q, list) == [k \in DOMAIN list |-> MovedTo(q, list[k])]

CompactedSlot(q, i) ==
    IF \E k \in DOMAIN Movers(q) : Holes(q)[k] = i
    THEN q.slot[Movers(q)[CHOOSE k \in DOMAIN Movers(q) : Holes(q)[k] = i]]
    ELSE IF i \in Dropped(q) THEN NoFunc ELSE q.slot[i]

Compact(q) ==
    IF q.freelist_size = 0 THEN q
    ELSE LET nextfree == q.nextfree - NrShrink(q)
             back     == nextfree = 0 /\ q.firstfree # 1
         IN [q EXCEPT
               !.slot = [i \in DOMAIN @ |-> CompactedSlot(q, i)],
               !.freelist = SubSeq(Holes(q), Len(Movers(q)) + 1, Len(Holes(q))),
               !.freelist_size = @ - NrShrink(q),
               !.nrfree = @ + NrShrink(q),
               !.nextfree = IF back THEN N ELSE nextfree,
               !.firstfree = IF back THEN @ - 1 ELSE @]

-----------------------------------------------------------------------------

\* The members of a queue agree with each other and with the comment
\* "Invariants" of syncrunner.c: a slot which was handed out is empty exactly
\* if it is linked into freelist, once.
QueueOK(q) ==
    /\ Len(q.slot) = q.size
    /\ q.nrfree = q.size - Used(q) /\ q.nrfree >= 0
    /\ q.freelist_size = Len(q.freelist)
    /\ IsInjective(q.freelist)
    /\ ToSet(q.freelist) = {i \in 1..Used(q) : q.slot[i] = NoFunc}
    /\ \A i \in DOMAIN q.slot : i > Used(q) => q.slot[i] = NoFunc
    /\ (q.firstfree = 0) <=> (q.size = 0)
    /\ q.nextfree = 0 => q.firstfree \in {0, 1}
    /\ q.firstfree = 0 => q.nextfree = 0

=============================================================================
