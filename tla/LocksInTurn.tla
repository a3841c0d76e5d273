---------------------------- MODULE LocksInTurn -----------------------------
(***************************************************************************)
(* The threads of a program use a rwlock_t and, when all of them have left *)
(* it, a thrmutex_t.  SIGINT and its pending bit belong to the thread and  *)
(* not to the object: a thread which a foreign signal woke before the      *)
(* resume_thread of rwlock.c arrived takes that one along to thrmutex.c.   *)
(*                                                                         *)
(* linked and mlinked are the one wait.next of a thread: the list it is    *)
(* linked into belongs to the object in use.                               *)
(***************************************************************************)
EXTENDS RWLockRefinement

VARIABLES mlist, lockholder, mflag, nextwait, mpc, holds, mlinked,
          inUse  \* the object the threads use

Mutex == INSTANCE ThrMutex WITH list <- mlist, lockflag <- mflag, pc <- mpc, linked <- mlinked

mutexVars == <<mlist, lockholder, mflag, nextwait, mpc, holds, mlinked>>
rwlockVars == <<lockVars, pc, held, linked>>
allVars == <<vars, mutexVars, inUse>>

OnRWLock(A)   == inUse = "rwlock"   /\ A /\ UNCHANGED <<mutexVars, inUse>>
OnThrMutex(A) == inUse = "thrmutex" /\ A /\ UNCHANGED <<rwlockVars, inUse>>

InTurnInit == Init /\ Mutex!Init /\ inUse = "rwlock"

\* Nobody is in a function of rwlock.c or owns the rwlock_t.
UseThrMutex ==
    /\ inUse = "rwlock"
    /\ \A t \in Threads : pc[t] = "idle" /\ held[t] = "none"
    /\ inUse' = "thrmutex"
    /\ UNCHANGED <<vars, mutexVars>>

InTurnNext == \/ OnRWLock(Next)
              \/ UseThrMutex
              \/ OnThrMutex(Mutex!Next)

\* The fairness of both modules.  Only the object in use has steps, so it is
\* the same to be fair to the steps of a thread, whatever object they are of.
\* Each of them changes one of the variables in the subscript.
InTurnFairness ==
    \A t \in Threads :
        /\ WF_<<pc, readers, mpc>>(OnRWLock(Step(t)) \/ OnThrMutex(Mutex!Step(t)))
        /\ SF_<<lockflag, mflag>>(OnRWLock(LockFlag(t)) \/ OnThrMutex(Mutex!LockFlag(t)))
        /\ SF_<<pc, mpc>>(OnRWLock(Release(t)) \/ OnThrMutex(Mutex!Release(t)))

InTurnSpec == InTurnInit /\ [][InTurnNext]_allVars /\ InTurnFairness

-----------------------------------------------------------------------------
(* The properties of ThrMutex, after the threads have used a rwlock_t *)

\* The inductive invariant of thrmutex.c.
MutexInv == Mutex!MutexInv

\* At most one thread owns the mutex, lockholder is the owner.
OneOwner == Mutex!OneOwner

\* unlock_thrmutex hands the mutex over to the first of the waiting threads.
ImplementsFifoLock == Mutex!ImplementsFifoLock

\* Who calls lock_thrmutex gets the mutex.
LockGranted == Mutex!LockGranted

=============================================================================
