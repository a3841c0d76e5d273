--------------------------- MODULE ThrMutexProofs ---------------------------
(***************************************************************************)
(* Proofs about ThrMutex, for any finite set of threads.  MutexInv is      *)
(* inductive: one lemma for every action of a thread, cited by the theorem *)
(* MutexInvariant, from which the other theorems follow.                   *)
(***************************************************************************)
EXTENDS ThrMutex, WaitListLemmas

\* init_thrmutex establishes the invariant.
LEMMA InitInv == Init => MutexInv
<1> SUFFICES ASSUME Init PROVE MutexInv
  OBVIOUS
<1>1. TypeOK
  BY DEF Init, ThreadInit, TypeOK, ThreadTypeOK, Labels, Sections
<1>2. FlagInv /\ HolderInv /\ HandoverInv /\ WokenInv
  BY ThreadsAssumption DEF Init, FlagInv, Sections, HolderInv, HandoverInv, WokenInv
<1>3. WaitListConsistent
  BY EmptyList DEF Init, ThreadInit, WaitListConsistent
<1>4. UnlockedMeansNoWaiter /\ NoLostWakeup
  BY DEF Init, UnlockedMeansNoWaiter, NoLostWakeup
<1> QED BY <1>1, <1>2, <1>3, <1>4 DEF MutexInv

\* A call only leaves the client.
LEMMA CallInv ==
    ASSUME MutexInv, NEW t \in Threads, NEW f, Call(t, f)
    PROVE  MutexInv'
<1> USE DEF MutexInv, Call, Goto, mutexVars, threadVars
<1>1. TypeOK'
  BY DEF TypeOK, ThreadTypeOK, Labels, Sections, Spins
<1>2. FlagInv'
  BY DEF FlagInv, Sections, Spins
<1>3. (HolderInv /\ HandoverInv /\ WokenInv)'
  BY DEF HolderInv, HandoverInv, WokenInv, Owners
<1>4. WaitListConsistent'
  BY DEF WaitListConsistent
<1>5. (UnlockedMeansNoWaiter /\ NoLostWakeup)'
  BY DEF UnlockedMeansNoWaiter, NoLostWakeup
<1> QED BY <1>1, <1>2, <1>3, <1>4, <1>5

\* Setting lockflag changes nothing else.
LEMMA LockFlagInv ==
    ASSUME MutexInv, NEW t \in Threads, LockFlag(t)
    PROVE  MutexInv'
<1> USE DEF MutexInv, LockFlag, mutexVars, threadVars
<1>1. TypeOK'
  BY DEF TypeOK, ThreadTypeOK
<1>2. FlagInv'
  BY ThreadsAssumption DEF FlagInv, Sections
<1>3. (HolderInv /\ HandoverInv /\ WokenInv)'
  BY DEF HolderInv, HandoverInv, WokenInv, Owners
<1>4. WaitListConsistent'
  BY DEF WaitListConsistent
<1>5. (UnlockedMeansNoWaiter /\ NoLostWakeup)'
  BY DEF UnlockedMeansNoWaiter, NoLostWakeup
<1> QED BY <1>1, <1>2, <1>3, <1>4, <1>5

\* lock_thrmutex finds no owner: by HolderInv nobody holds the mutex.
LEMMA LockFreeInv ==
    ASSUME MutexInv, NEW t \in Threads, LockFree(t)
    PROVE  MutexInv'
<1> USE DEF MutexInv, LockFree, In, IsFree, UnlockFlag, Goto, mutexVars, threadVars
<1>1. TypeOK'
  BY DEF TypeOK, ThreadTypeOK, Labels, Sections
<1>2. FlagInv'
  BY ThreadsAssumption DEF FlagInv, Sections
<1>3. (HolderInv /\ HandoverInv /\ WokenInv)'
  BY ThreadsAssumption DEF TypeOK, HolderInv, HandoverInv, WokenInv, Owners
<1>4. WaitListConsistent'
  BY DEF WaitListConsistent
<1>5. (UnlockedMeansNoWaiter /\ NoLostWakeup)'
  BY DEF UnlockedMeansNoWaiter, NoLostWakeup
<1> QED BY <1>1, <1>2, <1>3, <1>4, <1>5

\* lock_thrmutex returns EDEADLK.
LEMMA LockDeadlkInv ==
    ASSUME MutexInv, NEW t \in Threads, LockDeadlk(t)
    PROVE  MutexInv'
<1> USE DEF MutexInv, LockDeadlk, In, UnlockFlag, Goto, mutexVars, threadVars
<1>1. TypeOK'
  BY DEF TypeOK, ThreadTypeOK, Labels, Sections
<1>2. FlagInv'
  BY ThreadsAssumption DEF FlagInv, Sections
<1>3. (HolderInv /\ HandoverInv /\ WokenInv)'
  BY DEF HolderInv, HandoverInv, WokenInv, Owners
<1>4. WaitListConsistent'
  BY DEF WaitListConsistent
<1>5. (UnlockedMeansNoWaiter /\ NoLostWakeup)'
  BY DEF UnlockedMeansNoWaiter, NoLostWakeup
<1> QED BY <1>1, <1>2, <1>3, <1>4, <1>5

\* lock_thrmutex appends the thread to the list: it was in no list before.
LEMMA LockWaitInv ==
    ASSUME MutexInv, NEW t \in Threads, LockWait(t)
    PROVE  MutexInv'
<1> USE DEF MutexInv, LockWait, In, IsFree, Insert, Link, UnlockFlag, Goto, mutexVars,
           threadVars
<1>0. /\ list' \in Seq(Threads)
      /\ IsInjective(list')
      /\ ToSet(list') = ToSet(list) \cup {t}
      /\ ~linked[t]
  <2>1. t \notin ToSet(list)
    BY DEF WaitListConsistent
  <2> QED BY AppendList DEF TypeOK, WaitListConsistent
<1>1. TypeOK'
  BY DEF TypeOK, ThreadTypeOK, Labels, Sections
<1>2. FlagInv'
  BY ThreadsAssumption DEF FlagInv, Sections
<1>3. (HolderInv /\ HandoverInv /\ WokenInv)'
  BY DEF TypeOK, ThreadTypeOK, HolderInv, HandoverInv, WokenInv, Owners
<1>4. WaitListConsistent'
  BY <1>0 DEF TypeOK, ThreadTypeOK, HolderInv, WaitListConsistent
<1>5. (UnlockedMeansNoWaiter /\ NoLostWakeup)'
  BY DEF TypeOK, ThreadTypeOK, UnlockedMeansNoWaiter, NoLostWakeup
<1> QED BY <1>1, <1>2, <1>3, <1>4, <1>5

\* suspend_thread returns.
LEMMA SuspendInv ==
    ASSUME MutexInv, NEW t \in Threads, Suspend(t)
    PROVE  MutexInv'
<1> USE DEF MutexInv, Suspend, SuspendThread, Goto, mutexVars, threadVars
<1>1. TypeOK'
  BY DEF TypeOK, ThreadTypeOK, Labels, Sections, Spins
<1>2. FlagInv'
  BY DEF FlagInv, Sections, Spins
<1>3. (HolderInv /\ HandoverInv /\ WokenInv)'
  BY DEF HolderInv, HandoverInv, WokenInv, Owners
<1>4. WaitListConsistent'
  BY DEF WaitListConsistent
<1>5. (UnlockedMeansNoWaiter /\ NoLostWakeup)'
  BY DEF TypeOK, UnlockedMeansNoWaiter, NoLostWakeup
<1> QED BY <1>1, <1>2, <1>3, <1>4, <1>5

\* A woken thread returns from lock_thrmutex: by WokenInv and HandoverInv it is
\* lockholder, because the thread which hands over keeps lockflag.
LEMMA IsWakeupInv ==
    ASSUME MutexInv, NEW t \in Threads, IsWakeup(t)
    PROVE  MutexInv'
<1> USE DEF MutexInv, IsWakeup, In, UnlockFlag, Goto, mutexVars, threadVars
<1>1. TypeOK'
  BY DEF TypeOK, ThreadTypeOK, Labels, Sections
<1>2. FlagInv'
  BY ThreadsAssumption DEF FlagInv, Sections
<1>3. (HolderInv /\ HandoverInv /\ WokenInv)'
  BY ThreadsAssumption DEF TypeOK, FlagInv, Sections, HolderInv, HandoverInv, WokenInv, Owners
<1>4. WaitListConsistent'
  BY DEF WaitListConsistent
<1>5. (UnlockedMeansNoWaiter /\ NoLostWakeup)'
  BY DEF UnlockedMeansNoWaiter, NoLostWakeup
<1> QED BY <1>1, <1>2, <1>3, <1>4, <1>5

\* A thread which was resumed by somebody else suspends itself again.
LEMMA NoWakeupInv ==
    ASSUME MutexInv, NEW t \in Threads, NoWakeup(t)
    PROVE  MutexInv'
<1> USE DEF MutexInv, NoWakeup, In, UnlockFlag, Goto, mutexVars, threadVars
<1>1. TypeOK'
  BY DEF TypeOK, ThreadTypeOK, Labels, Sections
<1>2. FlagInv'
  BY ThreadsAssumption DEF FlagInv, Sections
<1>3. (HolderInv /\ HandoverInv /\ WokenInv)'
  BY DEF HolderInv, HandoverInv, WokenInv, Owners
<1>4. WaitListConsistent'
  BY DEF WaitListConsistent
<1>5. (UnlockedMeansNoWaiter /\ NoLostWakeup)'
  BY DEF UnlockedMeansNoWaiter, NoLostWakeup
<1> QED BY <1>1, <1>2, <1>3, <1>4, <1>5

\* unlock_thrmutex returns EPERM.
LEMMA UnlockPermInv ==
    ASSUME MutexInv, NEW t \in Threads, UnlockPerm(t)
    PROVE  MutexInv'
<1> USE DEF MutexInv, UnlockPerm, In, UnlockFlag, Goto, mutexVars, threadVars
<1>1. TypeOK'
  BY DEF TypeOK, ThreadTypeOK, Labels, Sections
<1>2. FlagInv'
  BY ThreadsAssumption DEF FlagInv, Sections
<1>3. (HolderInv /\ HandoverInv /\ WokenInv)'
  BY DEF HolderInv, HandoverInv, WokenInv, Owners
<1>4. WaitListConsistent'
  BY DEF WaitListConsistent
<1>5. (UnlockedMeansNoWaiter /\ NoLostWakeup)'
  BY DEF UnlockedMeansNoWaiter, NoLostWakeup
<1> QED BY <1>1, <1>2, <1>3, <1>4, <1>5

\* unlock_thrmutex finds no waiting thread.
LEMMA UnlockFreeInv ==
    ASSUME MutexInv, NEW t \in Threads, UnlockFree(t)
    PROVE  MutexInv'
<1> USE DEF MutexInv, UnlockFree, In, IsEmpty, UnlockFlag, Goto, mutexVars, threadVars
<1>1. TypeOK'
  BY DEF TypeOK, ThreadTypeOK, Labels, Sections
<1>2. FlagInv'
  BY ThreadsAssumption DEF FlagInv, Sections
<1>3. (HolderInv /\ HandoverInv /\ WokenInv)'
  BY ThreadsAssumption DEF TypeOK, HolderInv, HandoverInv, WokenInv
<1>4. WaitListConsistent'
  BY DEF WaitListConsistent
<1>5. (UnlockedMeansNoWaiter /\ NoLostWakeup)'
  BY DEF UnlockedMeansNoWaiter, NoLostWakeup
<1> QED BY <1>1, <1>2, <1>3, <1>4, <1>5

\* unlock_thrmutex takes the first thread out of the list and resumes it.
LEMMA WakeFirstInv ==
    ASSUME MutexInv, NEW t \in Threads, WakeFirst(t)
    PROVE  MutexInv'
<1> USE DEF MutexInv, WakeFirst, In, IsEmpty, RemoveAndResume, Unlink, ResumeThread, Goto,
           mutexVars, threadVars
<1>0. /\ Head(list) \in Threads
      /\ Head(list) \in ToSet(list)
      /\ list' \in Seq(Threads)
      /\ IsInjective(list')
      /\ ToSet(list') = ToSet(list) \ {Head(list)}
  BY TailList DEF TypeOK, WaitListConsistent
<1>1. /\ linked[Head(list)]
      /\ pc[Head(list)] \in {"wait", "check"}
      /\ ~holds[Head(list)]
  BY <1>0 DEF WaitListConsistent
<1>2. TypeOK'
  BY DEF TypeOK, ThreadTypeOK, Labels, Sections
<1>3. FlagInv'
  BY DEF FlagInv, Sections
<1>4. (HolderInv /\ HandoverInv /\ WokenInv)'
  BY <1>1, ThreadsAssumption DEF TypeOK, ThreadTypeOK, HolderInv, HandoverInv, WokenInv, Owners
<1>5. WaitListConsistent'
  BY <1>0 DEF TypeOK, ThreadTypeOK, WaitListConsistent
<1>6. (UnlockedMeansNoWaiter /\ NoLostWakeup)'
  BY DEF TypeOK, ThreadTypeOK, UnlockedMeansNoWaiter, NoLostWakeup
<1> QED BY <1>2, <1>3, <1>4, <1>5, <1>6

\* The woken thread becomes lockholder.
LEMMA HandOverInv ==
    ASSUME MutexInv, NEW t \in Threads, HandOver(t)
    PROVE  MutexInv'
<1> USE DEF MutexInv, HandOver, In, NewHolder, UnlockFlag, Goto, mutexVars, threadVars
<1>1. TypeOK'
  BY DEF TypeOK, ThreadTypeOK, Labels, Sections
<1>2. FlagInv'
  BY ThreadsAssumption DEF TypeOK, FlagInv, Sections
<1>3. (HolderInv /\ HandoverInv /\ WokenInv)'
  BY DEF TypeOK, HolderInv, HandoverInv, WokenInv, Owners
<1>4. WaitListConsistent'
  BY DEF WaitListConsistent
<1>5. (UnlockedMeansNoWaiter /\ NoLostWakeup)'
  BY ThreadsAssumption DEF UnlockedMeansNoWaiter, NoLostWakeup, HandoverInv, Owners
<1> QED BY <1>1, <1>2, <1>3, <1>4, <1>5

\* free_thrmutex finds lockflag clear and sets it.
LEMMA FreeTryInv ==
    ASSUME MutexInv, NEW t \in Threads, FreeTry(t)
    PROVE  MutexInv'
<1> USE DEF MutexInv, FreeTry, Goto, mutexVars, threadVars
<1>1. TypeOK'
  BY DEF TypeOK, ThreadTypeOK, Labels, Sections
<1>2. FlagInv'
  BY ThreadsAssumption DEF TypeOK, FlagInv, Sections
<1>3. (HolderInv /\ HandoverInv /\ WokenInv)'
  BY DEF HolderInv, HandoverInv, WokenInv, Owners
<1>4. WaitListConsistent'
  BY DEF WaitListConsistent
<1>5. (UnlockedMeansNoWaiter /\ NoLostWakeup)'
  BY DEF UnlockedMeansNoWaiter, NoLostWakeup
<1> QED BY <1>1, <1>2, <1>3, <1>4, <1>5

\* free_thrmutex returns.
LEMMA FreeReturnInv ==
    ASSUME MutexInv, NEW t \in Threads, FreeReturn(t)
    PROVE  MutexInv'
<1> USE DEF MutexInv, FreeReturn, In, UnlockFlag, Goto, mutexVars, threadVars
<1>1. TypeOK'
  BY DEF TypeOK, ThreadTypeOK, Labels, Sections
<1>2. FlagInv'
  BY ThreadsAssumption DEF TypeOK, FlagInv, Sections
<1>3. (HolderInv /\ HandoverInv /\ WokenInv)'
  BY DEF HolderInv, HandoverInv, WokenInv, Owners
<1>4. WaitListConsistent'
  BY DEF WaitListConsistent
<1>5. (UnlockedMeansNoWaiter /\ NoLostWakeup)'
  BY DEF UnlockedMeansNoWaiter, NoLostWakeup
<1> QED BY <1>1, <1>2, <1>3, <1>4, <1>5

\* A SIGINT of somebody else.
LEMMA SpuriousInv ==
    ASSUME MutexInv, NEW t \in Threads, Spurious(t)
    PROVE  MutexInv'
<1> USE DEF MutexInv, Spurious, SpuriousResume, ResumeThread, mutexVars, threadVars
<1>1. TypeOK'
  BY DEF TypeOK, ThreadTypeOK
<1>2. FlagInv'
  BY DEF FlagInv, Sections
<1>3. (HolderInv /\ HandoverInv /\ WokenInv)'
  BY DEF HolderInv, HandoverInv, WokenInv, Owners
<1>4. WaitListConsistent'
  BY DEF WaitListConsistent
<1>5. (UnlockedMeansNoWaiter /\ NoLostWakeup)'
  BY DEF UnlockedMeansNoWaiter, NoLostWakeup
<1> QED BY <1>1, <1>2, <1>3, <1>4, <1>5

-----------------------------------------------------------------------------

\* Every step of every thread keeps the invariant.
LEMMA NextInv == MutexInv /\ [Next]_vars => MutexInv'
<1> SUFFICES ASSUME MutexInv, [Next]_vars PROVE MutexInv'
  OBVIOUS
<1>1. CASE Next
  <2> PICK t \in Threads : \/ \E f \in {"lock", "unlock"} : Call(t, f)
                          \/ FreeTry(t)
                          \/ LockFlag(t)
                          \/ Step(t)
                          \/ Spurious(t)
    BY <1>1 DEF Next
  <2>1. CASE \E f \in {"lock", "unlock"} : Call(t, f)
    BY <2>1, CallInv
  <2>2. CASE LockFlag(t)
    BY <2>2, LockFlagInv
  <2>3. CASE Step(t)
    BY <2>3, LockFreeInv, LockDeadlkInv, LockWaitInv, SuspendInv, IsWakeupInv, NoWakeupInv,
       UnlockPermInv, UnlockFreeInv, WakeFirstInv, HandOverInv, FreeReturnInv DEF Step
  <2>4. CASE Spurious(t)
    BY <2>4, SpuriousInv
  <2>5. CASE FreeTry(t)
    BY <2>5, FreeTryInv
  <2> QED BY <2>1, <2>2, <2>3, <2>4, <2>5
<1>2. CASE UNCHANGED vars
  BY <1>2 DEF vars, mutexVars, threadVars, MutexInv, TypeOK, ThreadTypeOK, FlagInv, HolderInv,
     HandoverInv, WokenInv, Owners, WaitListConsistent, UnlockedMeansNoWaiter, NoLostWakeup
<1> QED BY <1>1, <1>2

\* The members of the mutex and the places of all threads agree in every state
\* which the functions of thrmutex.c and foreign signals can reach.
THEOREM MutexInvariant == Spec => []MutexInv
<1> QED BY InitInv, NextInv, PTL DEF Spec

\* All variables keep their types: a wait list never contains the null pointer
\* and lockholder is a thread or 0.
THEOREM TypeCorrect == Spec => []TypeOK
<1>1. MutexInv => TypeOK
  BY DEF MutexInv
<1> QED BY <1>1, MutexInvariant, PTL

\* What the invariant says about the threads which own the mutex.
LEMMA OwnersAreOne == MutexInv => OneOwner
<1> SUFFICES ASSUME MutexInv PROVE OneOwner
  OBVIOUS
<1> USE DEF MutexInv
<1>1. ASSUME NEW t \in Owners, NEW u \in Owners PROVE t = u
  <2>1. /\ t \in Threads /\ (lockholder = t \/ nextwait = t)
        /\ u \in Threads /\ (lockholder = u \/ nextwait = u)
    BY DEF Owners, HolderInv, WokenInv
  <2>2. ASSUME NEW v \in Threads, pc[v] = "handover" PROVE v \notin Owners /\ lockholder = v
    BY <2>2 DEF Owners, HolderInv, HandoverInv
  <2>3. CASE nextwait = NoThread
    BY <2>1, <2>3, ThreadsAssumption
  <2>4. CASE nextwait # NoThread
    BY <2>1, <2>2, <2>4 DEF HandoverInv
  <2> QED BY <2>3, <2>4
<1>2. (lockholder = NoThread) <=> (Owners = {})
  <2>1. ASSUME NEW t \in Owners PROVE lockholder # NoThread
    BY ThreadsAssumption DEF Owners, HolderInv, HandoverInv, WokenInv
  <2>2. ASSUME lockholder # NoThread PROVE Owners # {}
    BY <2>2 DEF TypeOK, HolderInv, HandoverInv
  <2> QED BY <2>1, <2>2
<1>3. ASSUME \A t \in Threads : pc[t] # "handover" PROVE Owners = {lockholder} \ {NoThread}
  <2>1. \A t \in Owners : t = lockholder /\ t # NoThread
    BY <1>3, ThreadsAssumption DEF Owners, HolderInv, HandoverInv, WokenInv
  <2>2. lockholder # NoThread => lockholder \in Owners
    BY <1>3 DEF TypeOK, HolderInv
  <2> QED BY <2>1, <2>2
<1> QED BY <1>1, <1>2, <1>3 DEF OneOwner

\* Mutual exclusion: at most one thread owns the mutex, also while
\* unlock_thrmutex hands it over, and lockholder names it otherwise.
THEOREM MutualExclusion == Spec => []OneOwner
<1> QED BY OwnersAreOne, MutexInvariant, PTL

\* The claim of thrmutex.h about lockholder and last holds after every step.
THEOREM FreeHasNoWaiter == Spec => []UnlockedMeansNoWaiter
<1>1. MutexInv => UnlockedMeansNoWaiter
  BY DEF MutexInv
<1> QED BY <1>1, MutexInvariant, PTL

\* No wakeup is lost: spurious resumes may make a thread test its wait node too
\* early, but never consume the SIGINT which unlock_thrmutex sent.
THEOREM WakeupsArrive == Spec => []NoLostWakeup
<1>1. MutexInv => NoLostWakeup
  BY DEF MutexInv
<1> QED BY <1>1, MutexInvariant, PTL

\* The wait list and the wait nodes of the threads agree in every state.
THEOREM WaitListCorrect == Spec => []WaitListConsistent
<1>1. MutexInv => WaitListConsistent
  BY DEF MutexInv
<1> QED BY <1>1, MutexInvariant, PTL

-----------------------------------------------------------------------------
(* thrmutex_t is the lock of module FifoLock *)

\* lock_thrmutex finds no owner, so by UnlockedMeansNoWaiter no thread waits.
LEMMA LockFreeRefines ==
    ASSUME MutexInv, NEW t \in Threads, LockFree(t)
    PROVE  Abstract!Acquire(t)
<1>1. Owners = {} /\ list = <<>>
  BY OwnersAreOne DEF LockFree, IsFree, OneOwner, MutexInv, UnlockedMeansNoWaiter
<1>2. Abstract!Outside(t)
  BY <1>1, EmptyList DEF Abstract!Outside, ToSet, Abstract!ToSet
<1>3. Owners' = {t}
  BY <1>1 DEF LockFree, In, UnlockFlag, Goto, threadVars, Owners, MutexInv, TypeOK
<1>4. list' = list
  BY DEF LockFree
<1> QED BY <1>1, <1>2, <1>3, <1>4 DEF Abstract!Acquire

\* lock_thrmutex finds an owner: its caller neither owns the mutex nor waits.
LEMMA LockWaitRefines ==
    ASSUME MutexInv, NEW t \in Threads, LockWait(t)
    PROVE  Abstract!Enqueue(t)
<1>1. Owners # {}
  BY OwnersAreOne DEF LockWait, IsFree, OneOwner
<1>2. ~holds[t] /\ pc[t] = "lock"
  BY DEF LockWait, In, MutexInv, HolderInv
<1>3. t \notin ToSet(list)
  BY <1>2 DEF MutexInv, WaitListConsistent
<1>4. Abstract!Outside(t)
  BY <1>2, <1>3 DEF Abstract!Outside, Owners, ToSet, Abstract!ToSet
<1>5. Owners' = Owners
  BY <1>2 DEF LockWait, UnlockFlag, Goto, Link, Owners, MutexInv, TypeOK, ThreadTypeOK
<1>6. list' = Append(list, t)
  BY DEF LockWait, Insert
<1> QED BY <1>1, <1>4, <1>5, <1>6 DEF Abstract!Enqueue

\* The thread in unlock_thrmutex is lockholder and not in the section which hands
\* over, so it is the only owner.
LEMMA UnlockerOwns ==
    ASSUME MutexInv, NEW t \in Threads, In(t, "unlock"), lockholder = t
    PROVE  Owners = {t} /\ holds[t]
<1>1. t \in Owners
  BY DEF In, MutexInv, HolderInv
<1>2. \A u \in Owners : u = t
  BY <1>1, OwnersAreOne DEF OneOwner
<1>3. holds[t]
  BY <1>1 DEF In, Owners
<1> QED BY <1>1, <1>2, <1>3

\* unlock_thrmutex finds no waiting thread.
LEMMA UnlockFreeRefines ==
    ASSUME MutexInv, NEW t \in Threads, UnlockFree(t)
    PROVE  Abstract!Release(t)
<1>1. Owners = {t} /\ pc[t] = "unlock"
  BY UnlockerOwns DEF UnlockFree, In
<1>2. Owners' = {}
  BY <1>1 DEF UnlockFree, UnlockFlag, Goto, threadVars, Owners, MutexInv, TypeOK
<1>3. list = <<>> /\ list' = list
  BY DEF UnlockFree, IsEmpty
<1> QED BY <1>1, <1>2, <1>3 DEF Abstract!Release

\* The step which takes the first thread out of the list makes it the owner,
\* before it is lockholder.
LEMMA WakeFirstRefines ==
    ASSUME MutexInv, NEW t \in Threads, WakeFirst(t)
    PROVE  Abstract!Release(t)
<1>1. Owners = {t} /\ pc[t] = "unlock"
  BY UnlockerOwns DEF WakeFirst, In
<1>2. list # <<>> /\ list' = Tail(list)
  BY DEF WakeFirst, IsEmpty, RemoveAndResume
<1>3. Head(list) \in Threads /\ Head(list) \in ToSet(list)
  BY <1>2, TailList DEF MutexInv, TypeOK, WaitListConsistent
<1>4. /\ linked[Head(list)]
      /\ pc[Head(list)] \in {"wait", "check"}
  BY <1>3 DEF MutexInv, WaitListConsistent
<1>5. /\ holds' = [holds EXCEPT ![t] = FALSE]
      /\ linked' = [linked EXCEPT ![Head(list)] = FALSE]
      /\ pc' = [pc EXCEPT ![t] = "handover"]
  BY DEF WakeFirst, RemoveAndResume, Unlink, Goto
<1>6. Owners' = {Head(list)}
  BY <1>1, <1>3, <1>4, <1>5 DEF Owners, MutexInv, TypeOK, ThreadTypeOK
<1> QED BY <1>1, <1>2, <1>6 DEF Abstract!Release

\* All other steps, also the assignment of lockholder which ends the hand-over
\* and the return of the woken thread, change neither the owners nor the list.
LEMMA OthersStutter ==
    ASSUME MutexInv, NEW t \in Threads,
           \/ \E f \in {"lock", "unlock"} : Call(t, f)
           \/ FreeTry(t)
           \/ LockFlag(t)
           \/ Spurious(t)
           \/ LockDeadlk(t)
           \/ Suspend(t)
           \/ IsWakeup(t)
           \/ NoWakeup(t)
           \/ UnlockPerm(t)
           \/ HandOver(t)
           \/ FreeReturn(t)
    PROVE  UNCHANGED Abstract!vars
<1> USE DEF Owners, In, UnlockFlag, Goto, mutexVars, threadVars, MutexInv, TypeOK
<1>1. CASE (\E f \in {"lock", "unlock"} : Call(t, f)) \/ FreeTry(t) \/ LockFlag(t) \/ Spurious(t)
  BY <1>1 DEF Abstract!vars, Call, FreeTry, LockFlag, Spurious, SpuriousResume
<1>2. CASE LockDeadlk(t) \/ UnlockPerm(t) \/ HandOver(t) \/ FreeReturn(t)
  BY <1>2 DEF Abstract!vars, LockDeadlk, UnlockPerm, HandOver, FreeReturn
<1>3. CASE Suspend(t) \/ NoWakeup(t)
  BY <1>3 DEF Abstract!vars, Suspend, NoWakeup
<1>4. CASE IsWakeup(t)
  BY <1>4 DEF Abstract!vars, IsWakeup
<1> QED BY <1>1, <1>2, <1>3, <1>4

\* init_thrmutex: an unlocked mutex without waiting threads.
LEMMA InitRefines == Init => Abstract!Init
BY DEF Init, Abstract!Init, Owners

\* Every step of the functions of thrmutex.c is a step of the lock or leaves it
\* unchanged.
LEMMA NextRefines == MutexInv /\ [Next]_vars => [Abstract!Next]_(Abstract!vars)
<1> SUFFICES ASSUME MutexInv, [Next]_vars
             PROVE  Abstract!Next \/ UNCHANGED Abstract!vars
  OBVIOUS
<1>1. CASE UNCHANGED vars
  BY <1>1 DEF vars, mutexVars, threadVars, Abstract!vars, Owners
<1>2. ASSUME NEW t \in Threads, LockFree(t)
      PROVE  Abstract!Next
  BY <1>2, LockFreeRefines DEF Abstract!Next
<1>3. ASSUME NEW t \in Threads, LockWait(t)
      PROVE  Abstract!Next
  BY <1>3, LockWaitRefines DEF Abstract!Next
<1>4. ASSUME NEW t \in Threads, UnlockFree(t)
      PROVE  Abstract!Next
  BY <1>4, UnlockFreeRefines DEF Abstract!Next
<1>5. ASSUME NEW t \in Threads, WakeFirst(t)
      PROVE  Abstract!Next
  BY <1>5, WakeFirstRefines DEF Abstract!Next
<1> QED BY <1>1, <1>2, <1>3, <1>4, <1>5, OthersStutter DEF Next, Step

\* lock_thrmutex and unlock_thrmutex implement the lock of FifoLock: one owner at
\* a time, and the threads which have to wait get the lock in the order in which
\* they were stored in the list.
THEOREM Implements == Spec => ImplementsFifoLock
<1> QED BY InitRefines, NextRefines, MutexInvariant, PTL DEF Spec, ImplementsFifoLock, Abstract!Spec

=============================================================================
