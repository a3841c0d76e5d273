-------------------------- MODULE RWLockRefinement --------------------------
(***************************************************************************)
(* rwlock.c implements PhaseFairLock.  The step in which the state of the  *)
(* lock changes is the one which executes the body of a function under     *)
(* lockflag.  A thread which is about to wake others has decided whom: the *)
(* abstract lock has already been handed over.                             *)
(***************************************************************************)
EXTENDS RWLock

AdmitsReaders == \E t \in Threads : pc[t] = "wakeupreader"
AdmitsWriter  == \E t \in Threads : pc[t] = "wakeupwriter"

\* The members of the abstract lock.
Active    == ReadOwners \cup (IF AdmitsReaders THEN ToSet(readers) ELSE {})
Exclusive == IF AdmitsWriter THEN Head(writers) ELSE writer
QueueR    == IF AdmitsReaders THEN {} ELSE ToSet(readers)
QueueW    == IF AdmitsWriter THEN Tail(writers) ELSE writers

Abstract == INSTANCE PhaseFairLock WITH active <- Active, exclusive <- Exclusive,
                                        queueR <- QueueR, queueW <- QueueW

\* Every step of the functions of rwlock.c is a step of the phase-fair lock or
\* leaves it alone: readers never overtake a waiting writer, writers enter in
\* order of arrival and a releasing thread never leaves the lock unowned while
\* others wait.
ImplementsPhaseFairLock == Abstract!Spec

=============================================================================
