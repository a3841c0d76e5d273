------------------------------ MODULE ThrMutex ------------------------------
(***************************************************************************)
(* thrmutex_t: C-kern/platform/Linux/sync/thrmutex.c.  Mutual exclusion of *)
(* threads with a list of waiting threads.  unlock_thrmutex hands the      *)
(* mutex over to the first thread of the list.  Unlike rwlock_t the woken  *)
(* thread tests its wait.next under the lockflag of the mutex and not      *)
(* under lock_thread.                                                      *)
(*                                                                         *)
(* Granularity: as in module RWLock.  In unlock_thrmutex the wakeup and    *)
(* the assignment of lockholder are two steps, because the query functions *)
(* read last and lockholder without lockflag.                              *)
(***************************************************************************)
EXTENDS Thread, SequencesExt

VARIABLES list,        \* list of waiting threads (member last), first to last
          lockholder,  \* owner of the mutex or NoThread
          lockflag,    \* thread in the section protected by lockflag
          nextwait,    \* local of unlock_thrmutex, of the thread at "handover"
          pc,          \* where a thread is in the functions of thrmutex.c
          holds        \* holds[t]: the client of t has locked the mutex

mutexVars == <<list, lockholder, lockflag, nextwait>>
vars == <<mutexVars, pc, holds, threadVars>>

\* "check": a resumed thread wants lockflag to read its wait.next.
Spins == {"lock", "unlock", "check"}
\* Sections which a thread only enters with lockflag set.
Sections == {"handover", "free"}
Labels == {"idle", "wait"} \cup Spins \cup Sections

TypeOK == /\ ThreadTypeOK
          /\ list \in Seq(Threads)
          /\ lockholder \in Threads \cup {NoThread}
          /\ lockflag \in Threads \cup {NoThread}
          /\ nextwait \in Threads \cup {NoThread}
          /\ pc \in [Threads -> Labels]
          /\ holds \in [Threads -> BOOLEAN]

\* init_thrmutex
Init == /\ ThreadInit
        /\ list = <<>>
        /\ lockholder = NoThread
        /\ lockflag = NoThread
        /\ nextwait = NoThread
        /\ pc = [t \in Threads |-> "idle"]
        /\ holds = [t \in Threads |-> FALSE]

-----------------------------------------------------------------------------

Goto(t, label) == pc' = [pc EXCEPT ![t] = label]

\* t has set lockflag and executes the section named by pc[t].
In(t, f) == pc[t] = f /\ lockflag = t

\* unlockflag_thrmutex and continue at label.
UnlockFlag(t, label) == lockflag' = NoThread /\ Goto(t, label)

\* A client may call both functions at any time; the wrong calls return
\* EDEADLK and EPERM.
Call(t, f) == /\ f \in {"lock", "unlock"}
              /\ pc[t] = "idle"
              /\ Goto(t, f)
              /\ UNCHANGED <<mutexVars, holds, threadVars>>

\* lockflag_thrmutex: the iteration of the spin loop which finds the flag clear.
LockFlag(t) == /\ pc[t] \in Spins
               /\ lockflag = NoThread
               /\ lockflag' = t
               /\ UNCHANGED <<list, lockholder, nextwait, pc, holds, threadVars>>

-----------------------------------------------------------------------------
(* lock_thrmutex *)

\* Mistake: the wait list is tested and not the owner.
IsFreeBug == list = <<>>

IsFree == lockholder = NoThread

LockFree(t) ==
    /\ In(t, "lock")
    /\ IsFree
    /\ lockholder' = t
    /\ holds' = [holds EXCEPT ![t] = TRUE]
    /\ UnlockFlag(t, "idle")
    /\ UNCHANGED <<list, nextwait, threadVars>>

LockDeadlk(t) ==
    /\ In(t, "lock")
    /\ ~IsFree
    /\ lockholder = t
    /\ UnlockFlag(t, "idle")
    /\ UNCHANGED <<list, lockholder, nextwait, holds, threadVars>>

\* Mistake: insertfirst.
InsertBug(t) == list' = <<t>> \o list

Insert(t) == list' = Append(list, t)

LockWait(t) ==
    /\ In(t, "lock")
    /\ ~IsFree
    /\ lockholder # t
    /\ Insert(t)
    /\ Link(t)
    /\ UnlockFlag(t, "wait")
    /\ UNCHANGED <<lockholder, nextwait, holds, pending>>

Suspend(t) ==
    /\ pc[t] = "wait"
    /\ SuspendThread(t)
    /\ Goto(t, "check")
    /\ UNCHANGED <<mutexVars, holds, linked>>

IsWakeup(t) ==
    /\ In(t, "check")
    /\ ~linked[t]
    /\ holds' = [holds EXCEPT ![t] = TRUE]
    /\ UnlockFlag(t, "idle")
    /\ UNCHANGED <<list, lockholder, nextwait, threadVars>>

NoWakeup(t) ==
    /\ In(t, "check")
    /\ linked[t]
    /\ UnlockFlag(t, "wait")
    /\ UNCHANGED <<list, lockholder, nextwait, holds, threadVars>>

-----------------------------------------------------------------------------
(* unlock_thrmutex *)

UnlockPerm(t) ==
    /\ In(t, "unlock")
    /\ lockholder # t
    /\ UnlockFlag(t, "idle")
    /\ UNCHANGED <<list, lockholder, nextwait, holds, threadVars>>

IsEmpty == list = <<>>

\* No thread waits: nextwait is 0.
UnlockFree(t) ==
    /\ In(t, "unlock")
    /\ lockholder = t
    /\ IsEmpty
    /\ lockholder' = NoThread
    /\ holds' = [holds EXCEPT ![t] = FALSE]
    /\ UnlockFlag(t, "idle")
    /\ UNCHANGED <<list, nextwait, threadVars>>

\* Mistake: the last thread is removed.
RemoveAndResumeBug == /\ nextwait' = Last(list)
                      /\ list' = Front(list)
                      /\ Unlink(nextwait')
                      /\ ResumeThread(nextwait')

RemoveAndResume == /\ nextwait' = Head(list)
                   /\ list' = Tail(list)
                   /\ Unlink(nextwait')
                   /\ ResumeThread(nextwait')

\* The mutex stays locked until it is handed over.
WakeFirst(t) ==
    /\ In(t, "unlock")
    /\ lockholder = t
    /\ ~IsEmpty
    /\ RemoveAndResume
    /\ holds' = [holds EXCEPT ![t] = FALSE]
    /\ Goto(t, "handover")
    /\ UNCHANGED <<lockholder, lockflag>>

\* Mistake: the mutex is unlocked and the woken thread does not own it.
NewHolderBug == NoThread

NewHolder == nextwait

HandOver(t) ==
    /\ In(t, "handover")
    /\ lockholder' = NewHolder
    /\ nextwait' = NoThread
    /\ UnlockFlag(t, "idle")
    /\ UNCHANGED <<list, holds, threadVars>>

-----------------------------------------------------------------------------
(* free_thrmutex *)

\* It does not spin: if lockflag is set it returns EBUSY at once, which changes
\* nothing.  Otherwise it keeps lockflag while it reads last and lockholder.
FreeTry(t) ==
    /\ pc[t] = "idle"
    /\ lockflag = NoThread
    /\ lockflag' = t
    /\ Goto(t, "free")
    /\ UNCHANGED <<list, lockholder, nextwait, holds, threadVars>>

\* EBUSY or 0: the mutex stays usable in either case.
FreeReturn(t) ==
    /\ In(t, "free")
    /\ UnlockFlag(t, "idle")
    /\ UNCHANGED <<list, lockholder, nextwait, holds, threadVars>>

-----------------------------------------------------------------------------

Step(t) == \/ LockFree(t)
           \/ LockDeadlk(t)
           \/ LockWait(t)
           \/ Suspend(t)
           \/ IsWakeup(t)
           \/ NoWakeup(t)
           \/ UnlockPerm(t)
           \/ UnlockFree(t)
           \/ WakeFirst(t)
           \/ HandOver(t)
           \/ FreeReturn(t)

Spurious(t) == SpuriousResume(t) /\ UNCHANGED <<mutexVars, pc, holds>>

Next == \E t \in Threads : \/ \E f \in {"lock", "unlock"} : Call(t, f)
                           \/ FreeTry(t)
                           \/ LockFlag(t)
                           \/ Step(t)
                           \/ Spurious(t)

Spec == Init /\ [][Next]_vars

\* A client which holds the mutex gives it back.
Release(t) == holds[t] /\ Call(t, "unlock")

\* As for rwlock_t: threads are scheduled, a spinning thread finds the flag
\* clear if it is cleared again and again, no client keeps the mutex for ever.
Fairness == \A t \in Threads : /\ WF_vars(Step(t))
                               /\ SF_vars(LockFlag(t))
                               /\ SF_vars(Release(t))

FairSpec == Spec /\ Fairness

-----------------------------------------------------------------------------
(* Properties *)

\* Threads which own the mutex: their call returned or, in lock_thrmutex,
\* they were taken out of the list to own it.
Owners == {t \in Threads : holds[t] \/ (pc[t] \in {"wait", "check"} /\ ~linked[t])}

\* Mutual exclusion.  Handing over never duplicates or loses the mutex: at
\* most one thread owns it, somebody does as long as lockholder is set, and it
\* is lockholder except between the wakeup and the assignment.
OneOwner == /\ \A t, u \in Owners : t = u
            /\ (lockholder = NoThread) <=> (Owners = {})
            /\ (\A t \in Threads : pc[t] # "handover") => Owners = {lockholder} \ {NoThread}

\* thrmutex.h, member lockholder: "If this value is 0 <last> is also 0", read
\* without lockflag by the query functions, so it holds after every step.
UnlockedMeansNoWaiter == lockholder = NoThread => list = <<>>

\* A suspended thread which left the list has its SIGINT pending.
NoLostWakeup ==
    \A t \in Threads : pc[t] = "wait" /\ ~linked[t] => pending[t]

\* A thread is in the list exactly if its wait node says so, and only once.
WaitListConsistent ==
    /\ IsInjective(list)
    /\ ToSet(list) = {t \in Threads : linked[t]}
    /\ \A t \in Threads : linked[t] => pc[t] \in {"wait", "check"} /\ ~holds[t]

\* lock_thrmutex and unlock_thrmutex are a lock which is handed over in the order of
\* the calls which had to wait: no caller overtakes, no call returns without the lock,
\* and the mutex is not free between the steps of a hand-over.
Abstract == INSTANCE FifoLock WITH owners <- Owners, queue <- list

ImplementsFifoLock == Abstract!Spec

\* Every thread which calls lock_thrmutex without owning the mutex gets it.
LockGranted ==
    \A t \in Threads : pc[t] = "lock" /\ ~holds[t] ~> holds[t]

-----------------------------------------------------------------------------
(* The inductive invariant: what the members of the mutex and the places of  *)
(* the threads have to do with each other.                                   *)

\* lockflag is set by a thread in a protected section and by no other.
FlagInv ==
    /\ \A t \in Threads : lockflag = t => pc[t] \in Spins \cup Sections
    /\ \A t \in Threads : pc[t] \in Sections => lockflag = t

\* Who holds the mutex is lockholder and not in a section in which it would wait
\* for it or give it away.
HolderInv ==
    /\ \A t \in Threads : holds[t] => lockholder = t /\ pc[t] \in {"idle", "lock", "unlock", "free"}
    /\ \A t \in Threads : lockholder = t => t \in Owners \/ pc[t] = "handover"

\* While the mutex is handed over its old owner keeps it locked for nextwait.
HandoverInv ==
    /\ \A t \in Threads : pc[t] = "handover" => lockholder = t /\ nextwait \in Owners
    /\ nextwait # NoThread => \E t \in Threads : pc[t] = "handover"

\* A thread which left the wait list owns the mutex or is about to.
WokenInv ==
    \A t \in Threads : pc[t] \in {"wait", "check"} /\ ~linked[t]
                           => lockholder = t \/ nextwait = t

\* lockholder, nextwait, the wait list and the threads agree with each other
\* in every step of lock_thrmutex, unlock_thrmutex and free_thrmutex.
MutexInv ==
    /\ TypeOK
    /\ FlagInv
    /\ HolderInv
    /\ HandoverInv
    /\ WokenInv
    /\ WaitListConsistent
    /\ UnlockedMeansNoWaiter
    /\ NoLostWakeup

=============================================================================
