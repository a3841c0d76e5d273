-------------------------- MODULE EventCountProofs --------------------------
(***************************************************************************)
(* Proofs about EventCount, for any finite set of threads, however many of *)
(* them wait with a timeout and however often count_eventcount is called.  *)
(* EventInv is inductive: one lemma for every action of a thread, cited by *)
(* the theorem EventInvariant.                                             *)
(***************************************************************************)
EXTENDS EventCount, WaitListLemmas, FiniteSetTheorems

-----------------------------------------------------------------------------
(* Threads in count_eventcount and in free_eventcount.                     *)

\* Threads between the two steps of count_eventcount: they change with the label
\* of the thread which takes a step.
LEMMA CountingSame ==
    ASSUME TypeOK, NEW t \in Threads, NEW l, pc' = [pc EXCEPT ![t] = l],
           pc[t] # "count", l # "count"
    PROVE  Counting' = Counting
BY DEF Counting, TypeOK

LEMMA CountingEnter ==
    ASSUME TypeOK, NEW t \in Threads, pc[t] # "count", pc' = [pc EXCEPT ![t] = "count"]
    PROVE  /\ Cardinality(Counting) \in Nat
           /\ Cardinality(Counting') = Cardinality(Counting) + 1
<1>1. IsFiniteSet(Counting) /\ Cardinality(Counting) \in Nat
  BY ThreadsAssumption, FS_Subset, FS_CardinalityType DEF Counting
<1>2. Counting' = Counting \cup {t} /\ t \notin Counting
  BY DEF Counting, TypeOK
<1> QED BY <1>1, <1>2, FS_AddElement

LEMMA CountingLeave ==
    ASSUME TypeOK, NEW t \in Threads, NEW l, pc[t] = "count", pc' = [pc EXCEPT ![t] = l], l # "count"
    PROVE  /\ Cardinality(Counting) \in Nat \ {0}
           /\ Cardinality(Counting') = Cardinality(Counting) - 1
<1>1. IsFiniteSet(Counting) /\ Cardinality(Counting) \in Nat
  BY ThreadsAssumption, FS_Subset, FS_CardinalityType DEF Counting
<1>2. Counting' = Counting \ {t} /\ t \in Counting
  BY DEF Counting, TypeOK
<1>3. Cardinality(Counting) # 0
  BY <1>1, <1>2, FS_EmptySet
<1> QED BY <1>1, <1>2, <1>3, FS_RemoveElement

\* No thread is in count_eventcount exactly if their number is zero.
LEMMA NobodyCounts == /\ Cardinality(Counting) \in Nat
                      /\ Counting = {} <=> Cardinality(Counting) = 0
<1>1. IsFiniteSet(Counting)
  BY ThreadsAssumption, FS_Subset DEF Counting
<1> QED BY <1>1, FS_CardinalityType, FS_EmptySet

\* A step outside of free_eventcount leaves the object as usable as it was.
LEMMA UsableSame ==
    ASSUME TypeOK, NEW t \in Threads, NEW l, pc' = [pc EXCEPT ![t] = l],
           pc[t] \notin Frees, l \notin Frees
    PROVE  Usable' <=> Usable
BY DEF Usable, TypeOK

\* A thread inside of count_eventcount or before its waiting loop excludes
\* free_eventcount.
LEMMA BusyUsable ==
    ASSUME FreeingInv, NEW t \in Threads, pc[t] \notin {"idle"} \cup Waits \cup Frees
    PROVE  Usable
BY DEF FreeingInv, Usable

-----------------------------------------------------------------------------
(* The actions.                                                            *)

\* init_eventcount establishes the invariant.
LEMMA InitInv == Init => EventInv
<1> SUFFICES ASSUME Init PROVE EventInv
  OBVIOUS
<1>1. TypeOK
  <2>1. crossed \in BOOLEAN
    BY DEF Init
  <2>2. counted \in 0..MaxCounted
    BY EventCountAssumption DEF Init
  <2> QED BY <2>1, <2>2 DEF Init, ThreadInit, TypeOK, ThreadTypeOK
<1>2. WaitListConsistent
  BY EmptyList DEF Init, ThreadInit, WaitListConsistent
<1>3. FlagInv /\ WakesInv /\ FreeingInv
  BY DEF Init, FlagInv, WakesInv, FreeingInv, Resumes, Frees
<1>4. Counting = {}
  BY DEF Init, Counting
<1>5. Balance /\ NoStrandedWaiter /\ WaitersCounted
  BY <1>4, FS_EmptySet DEF Init, Balance, NoStrandedWaiter, WaitersCounted, Nrwaiting
<1>6. NoLostWakeup
  BY DEF Init, NoLostWakeup
<1> QED BY <1>1, <1>2, <1>3, <1>5, <1>6 DEF EventInv

\* Setting lockflag changes nothing else.
LEMMA LockCounterInv ==
    ASSUME EventInv, NEW t \in Threads, LockCounter(t)
    PROVE  EventInv'
<1> USE DEF EventInv, LockCounter, counterVars, history, threadVars
<1>1. TypeOK'
  BY EventCountAssumption DEF TypeOK, ThreadTypeOK, Spins, Waits, Resumes
<1>2. WaitListConsistent'
  BY DEF WaitListConsistent, TypeOK, ThreadTypeOK, Waits
<1>3. FlagInv' /\ WakesInv'
  BY ThreadsAssumption DEF FlagInv, WakesInv, TypeOK, Spins, Waits, Resumes
<1>4. FreeingInv'
  BY DEF FreeingInv, FlagInv, TypeOK, Frees, Waits, Usable
<1>5. (Balance /\ NoStrandedWaiter /\ WaitersCounted)'
  BY DEF Balance, NoStrandedWaiter, WaitersCounted, Nrwaiting, Usable, Counting
<1>6. NoLostWakeup'
  BY DEF NoLostWakeup, WakesInv, TypeOK, ThreadTypeOK, Waits, Resumes
<1> QED BY <1>1, <1>2, <1>3, <1>4, <1>5, <1>6

\* count_eventcount adds one; it goes on if threads wait.
LEMMA CountInv ==
    ASSUME EventInv, NEW t \in Threads, Count(t)
    PROVE  EventInv'
<1> USE DEF EventInv, Count, MustWake, Goto, counterVars, history, threadVars
<1>1. TypeOK'
  BY EventCountAssumption DEF TypeOK, ThreadTypeOK, Spins, Waits, Resumes
<1>2. WaitListConsistent'
  BY DEF WaitListConsistent, TypeOK, ThreadTypeOK, Waits
<1>3. FlagInv' /\ WakesInv'
  BY ThreadsAssumption DEF FlagInv, WakesInv, TypeOK, Spins, Waits, Resumes
<1>4. FreeingInv'
  BY DEF FreeingInv, FlagInv, TypeOK, Frees, Waits, Usable
<1>5. (Balance /\ NoStrandedWaiter /\ WaitersCounted)'
  <2>1. CASE nrevents < 0
    <3>1. Usable'
      BY <2>1, UsableSame DEF Frees
    <3>2. Cardinality(Counting) \in Nat /\ Cardinality(Counting') = Cardinality(Counting) + 1
      BY <2>1, CountingEnter
    <3> QED BY <2>1, <3>1, <3>2 DEF Balance, NoStrandedWaiter, WaitersCounted, Nrwaiting, TypeOK
  <2>2. CASE ~(nrevents < 0)
    <3>1. Usable' /\ Counting' = Counting
      BY <2>2 DEF Usable, Counting
    <3> QED BY <2>2, <3>1 DEF Balance, NoStrandedWaiter, WaitersCounted, Nrwaiting, TypeOK
  <2> QED BY <2>1, <2>2
<1>6. NoLostWakeup'
  BY DEF NoLostWakeup, WakesInv, TypeOK, ThreadTypeOK, Waits, Resumes
<1> QED BY <1>1, <1>2, <1>3, <1>4, <1>5, <1>6

\* Everybody who waited is gone.
LEMMA CountNobodyInv ==
    ASSUME EventInv, NEW t \in Threads, CountNobody(t)
    PROVE  EventInv'
<1> USE DEF EventInv, CountNobody, In, UnlockCounter, Goto, counterVars, history, threadVars
<1>1. TypeOK'
  BY EventCountAssumption DEF TypeOK, ThreadTypeOK, Spins, Waits, Resumes
<1>2. WaitListConsistent'
  BY DEF WaitListConsistent, TypeOK, ThreadTypeOK, Waits
<1>3. FlagInv' /\ WakesInv'
  BY ThreadsAssumption DEF FlagInv, WakesInv, TypeOK, Spins, Waits, Resumes
<1>4. FreeingInv'
  BY DEF FreeingInv, FlagInv, TypeOK, Frees, Waits, Usable
<1>5. (Balance /\ NoStrandedWaiter /\ WaitersCounted)'
  <2>1. Usable /\ Usable'
    BY BusyUsable, UsableSame DEF Frees, Waits
  <2>2. /\ Cardinality(Counting) \in Nat \ {0}
        /\ Cardinality(Counting') = Cardinality(Counting) - 1
    BY CountingLeave
  <2>3. Len(list) = 0 /\ Nrwaiting \in Nat
    BY DEF Nrwaiting, TypeOK
  <2> QED BY <2>1, <2>2, <2>3 DEF Balance, NoStrandedWaiter, WaitersCounted, Nrwaiting
<1>6. NoLostWakeup'
  BY DEF NoLostWakeup, WakesInv, TypeOK, ThreadTypeOK, Waits, Resumes
<1> QED BY <1>1, <1>2, <1>3, <1>4, <1>5, <1>6

\* The first thread leaves the list and is remembered.
LEMMA CountWakeupInv ==
    ASSUME EventInv, NEW t \in Threads, CountWakeup(t)
    PROVE  EventInv'
<1> USE DEF EventInv, CountWakeup, In, TakeFirst, Unlink, Goto, counterVars, history, threadVars
<1> DEFINE f == Head(list)
<1>0. /\ list' \in Seq(Threads)
      /\ IsInjective(list')
      /\ ToSet(list') = ToSet(list) \ {f}
      /\ Len(list') = Len(list) - 1
      /\ Len(list) \in Nat \ {0}
      /\ f \in Threads /\ linked[f]
      /\ f # t
  <2>1. list \in Seq(Threads)
    BY DEF TypeOK
  <2>2. f \in Threads /\ f \in ToSet(list) /\ linked[f]
    BY <2>1, TailList DEF WaitListConsistent
  <2>3. f # t
    BY <2>2 DEF WaitListConsistent, Waits
  <2> QED BY <2>1, <2>2, <2>3, TailList DEF WaitListConsistent
<1> HIDE DEF f
<1>1. TypeOK'
  BY <1>0, EventCountAssumption DEF TypeOK, ThreadTypeOK, Spins, Waits, Resumes
<1>2. WaitListConsistent'
  BY <1>0 DEF f, WaitListConsistent, TypeOK, ThreadTypeOK, Waits
<1>3. FlagInv' /\ WakesInv'
  BY <1>0, ThreadsAssumption DEF FlagInv, WakesInv, TypeOK, Spins, Waits, Resumes
<1>4. FreeingInv'
  BY DEF FreeingInv, FlagInv, TypeOK, Frees, Waits, Usable
<1>5. (Balance /\ NoStrandedWaiter /\ WaitersCounted)'
  <2>1. Usable /\ Usable'
    BY BusyUsable, UsableSame DEF Frees, Waits
  <2>2. /\ Cardinality(Counting) \in Nat \ {0}
        /\ Cardinality(Counting') = Cardinality(Counting) - 1
    BY CountingLeave
  <2>3. nrevents' = nrevents /\ counted' = counted /\ granted' = granted + 1
    OBVIOUS
  <2>4. Balance'
    BY <1>0, <2>1, <2>3 DEF Balance, TypeOK
  <2>5. NoStrandedWaiter'
    BY <1>0, <2>1, <2>2, <2>3 DEF NoStrandedWaiter, Nrwaiting, TypeOK
  <2>6. WaitersCounted'
    BY <1>0, <2>1, <2>2, <2>3 DEF WaitersCounted, Nrwaiting, TypeOK
  <2> QED BY <2>4, <2>5, <2>6
<1>6. NoLostWakeup'
  BY <1>0 DEF NoLostWakeup, WakesInv, TypeOK, ThreadTypeOK, Waits, Resumes
<1> QED BY <1>1, <1>2, <1>3, <1>4, <1>5, <1>6

\* The thread which was taken out of the list gets its SIGINT.
LEMMA CountResumeInv ==
    ASSUME EventInv, NEW t \in Threads, CountResume(t)
    PROVE  EventInv'
<1> USE DEF EventInv, CountResume, In, ResumeTaken, ResumeThread, UnlockCounter, Goto, counterVars, history, threadVars
<1>1. TypeOK'
  BY EventCountAssumption DEF TypeOK, ThreadTypeOK, Spins, Waits, Resumes
<1>2. WaitListConsistent'
  BY DEF WaitListConsistent, TypeOK, ThreadTypeOK, Waits
<1>3. FlagInv' /\ WakesInv'
  BY ThreadsAssumption DEF FlagInv, WakesInv, TypeOK, Spins, Waits, Resumes
<1>4. FreeingInv'
  BY DEF FreeingInv, FlagInv, TypeOK, Frees, Waits, Usable
<1>5. (Balance /\ NoStrandedWaiter /\ WaitersCounted)'
  <2>1. Usable' <=> Usable
    BY UsableSame DEF Frees, Waits
  <2>2. Counting' = Counting
    BY CountingSame DEF Waits
  <2> QED BY <2>1, <2>2 DEF Balance, NoStrandedWaiter, WaitersCounted, Nrwaiting
<1>6. NoLostWakeup'
  BY DEF NoLostWakeup, WakesInv, TypeOK, ThreadTypeOK, Waits, Resumes
<1> QED BY <1>1, <1>2, <1>3, <1>4, <1>5, <1>6

\* A successful trywait_eventcount.
LEMMA TryWaitInv ==
    ASSUME EventInv, NEW t \in Threads, TryWait(t)
    PROVE  EventInv'
<1> USE DEF EventInv, TryWait, HasEvent, counterVars, history, threadVars
<1>1. TypeOK'
  BY EventCountAssumption DEF TypeOK, ThreadTypeOK, Spins, Waits, Resumes
<1>2. WaitListConsistent'
  BY DEF WaitListConsistent, TypeOK, ThreadTypeOK, Waits
<1>3. FlagInv' /\ WakesInv'
  BY ThreadsAssumption DEF FlagInv, WakesInv, TypeOK, Spins, Waits, Resumes
<1>4. FreeingInv'
  BY DEF FreeingInv, FlagInv, TypeOK, Frees, Waits, Usable
<1>5. (Balance /\ NoStrandedWaiter /\ WaitersCounted)'
  BY DEF Balance, NoStrandedWaiter, WaitersCounted, Nrwaiting, Usable, Counting, TypeOK
<1>6. NoLostWakeup'
  BY DEF NoLostWakeup, WakesInv, TypeOK, ThreadTypeOK, Waits, Resumes
<1> QED BY <1>1, <1>2, <1>3, <1>4, <1>5, <1>6

\* wait_eventcount is entered.
LEMMA WaitInv ==
    ASSUME EventInv, NEW t \in Threads, Wait(t)
    PROVE  EventInv'
<1> USE DEF EventInv, Wait, Goto, counterVars, history, threadVars
<1>1. TypeOK'
  BY EventCountAssumption DEF TypeOK, ThreadTypeOK, Spins, Waits, Resumes
<1>2. WaitListConsistent'
  BY DEF WaitListConsistent, TypeOK, ThreadTypeOK, Waits
<1>3. FlagInv' /\ WakesInv'
  BY ThreadsAssumption DEF FlagInv, WakesInv, TypeOK, Spins, Waits, Resumes
<1>4. FreeingInv'
  BY DEF FreeingInv, FlagInv, TypeOK, Frees, Waits, Usable
<1>5. (Balance /\ NoStrandedWaiter /\ WaitersCounted)'
  <2>1. Usable' <=> Usable
    BY UsableSame DEF Frees, Waits
  <2>2. Counting' = Counting
    BY CountingSame DEF Waits
  <2> QED BY <2>1, <2>2 DEF Balance, NoStrandedWaiter, WaitersCounted, Nrwaiting
<1>6. NoLostWakeup'
  BY DEF NoLostWakeup, WakesInv, TypeOK, ThreadTypeOK, Waits, Resumes
<1> QED BY <1>1, <1>2, <1>3, <1>4, <1>5, <1>6

\* An event came before the thread was inserted.
LEMMA IsEventInv ==
    ASSUME EventInv, NEW t \in Threads, IsEvent(t)
    PROVE  EventInv'
<1> USE DEF EventInv, IsEvent, HasEvent, In, UnlockCounter, Goto, counterVars, history, threadVars
<1>1. TypeOK'
  BY EventCountAssumption DEF TypeOK, ThreadTypeOK, Spins, Waits, Resumes
<1>2. WaitListConsistent'
  BY DEF WaitListConsistent, TypeOK, ThreadTypeOK, Waits
<1>3. FlagInv' /\ WakesInv'
  BY ThreadsAssumption DEF FlagInv, WakesInv, TypeOK, Spins, Waits, Resumes
<1>4. FreeingInv'
  BY DEF FreeingInv, FlagInv, TypeOK, Frees, Waits, Usable
<1>5. (Balance /\ NoStrandedWaiter /\ WaitersCounted)'
  <2>1. Usable /\ Usable'
    BY BusyUsable, UsableSame DEF Frees, Waits
  <2>2. Counting' = Counting
    BY CountingSame
  <2> QED BY <2>1, <2>2 DEF Balance, NoStrandedWaiter, WaitersCounted, Nrwaiting, TypeOK
<1>6. NoLostWakeup'
  BY DEF NoLostWakeup, WakesInv, TypeOK, ThreadTypeOK, Waits, Resumes
<1> QED BY <1>1, <1>2, <1>3, <1>4, <1>5, <1>6

\* The thread appends itself: it was in no list before.
LEMMA InsertLastInv ==
    ASSUME EventInv, NEW t \in Threads, InsertLast(t)
    PROVE  EventInv'
<1> USE DEF EventInv, InsertLast, HasEvent, In, UnlockCounter, Link, Goto, counterVars, history, threadVars
<1>0. /\ list' \in Seq(Threads)
      /\ IsInjective(list')
      /\ ToSet(list') = ToSet(list) \cup {t}
      /\ Len(list') = Len(list) + 1
      /\ Len(list) \in Nat
      /\ ~linked[t]
  <2>1. t \notin ToSet(list) /\ ~linked[t]
    BY DEF WaitListConsistent, Waits
  <2>2. list \in Seq(Threads)
    BY DEF TypeOK
  <2> QED BY <2>1, <2>2, AppendList DEF WaitListConsistent
<1>1. TypeOK'
  BY <1>0, EventCountAssumption DEF TypeOK, ThreadTypeOK, Spins, Waits, Resumes
<1>2. WaitListConsistent'
  BY <1>0 DEF WaitListConsistent, TypeOK, ThreadTypeOK, Waits
<1>3. FlagInv' /\ WakesInv'
  BY ThreadsAssumption DEF FlagInv, WakesInv, TypeOK, Spins, Waits, Resumes
<1>4. FreeingInv'
  BY DEF FreeingInv, FlagInv, TypeOK, Frees, Waits, Usable
<1>5. (Balance /\ NoStrandedWaiter /\ WaitersCounted)'
  <2>1. Usable /\ Usable'
    BY BusyUsable, UsableSame DEF Frees, Waits
  <2>2. Cardinality(Counting) \in Nat /\ Counting' = Counting
    BY CountingSame, NobodyCounts
  <2> QED BY <1>0, <2>1, <2>2 DEF Balance, NoStrandedWaiter, WaitersCounted, Nrwaiting, TypeOK
<1>6. NoLostWakeup'
  BY DEF NoLostWakeup, WakesInv, TypeOK, ThreadTypeOK, Waits, Resumes
<1> QED BY <1>1, <1>2, <1>3, <1>4, <1>5, <1>6

\* suspend_thread returns.
LEMMA SuspendInv ==
    ASSUME EventInv, NEW t \in Threads, Suspend(t)
    PROVE  EventInv'
<1> USE DEF EventInv, Suspend, SuspendThread, Goto, counterVars, history, threadVars
<1>1. TypeOK'
  BY EventCountAssumption DEF TypeOK, ThreadTypeOK, Spins, Waits, Resumes
<1>2. WaitListConsistent'
  BY DEF WaitListConsistent, TypeOK, ThreadTypeOK, Waits
<1>3. FlagInv' /\ WakesInv'
  BY ThreadsAssumption DEF FlagInv, WakesInv, TypeOK, Spins, Waits, Resumes
<1>4. FreeingInv'
  BY DEF FreeingInv, FlagInv, TypeOK, Frees, Waits, Usable
<1>5. (Balance /\ NoStrandedWaiter /\ WaitersCounted)'
  <2>1. Usable' <=> Usable
    BY UsableSame DEF Frees, Waits
  <2>2. Counting' = Counting
    BY CountingSame DEF Waits
  <2> QED BY <2>1, <2>2 DEF Balance, NoStrandedWaiter, WaitersCounted, Nrwaiting
<1>6. NoLostWakeup'
  BY DEF NoLostWakeup, WakesInv, TypeOK, ThreadTypeOK, Waits, Resumes
<1> QED BY <1>1, <1>2, <1>3, <1>4, <1>5, <1>6

\* The thread is out of the list and returns.
LEMMA IsWakeupInv ==
    ASSUME EventInv, NEW t \in Threads, IsWakeup(t)
    PROVE  EventInv'
<1> USE DEF EventInv, IsWakeup, Goto, counterVars, history, threadVars
<1>1. TypeOK'
  BY EventCountAssumption DEF TypeOK, ThreadTypeOK, Spins, Waits, Resumes
<1>2. WaitListConsistent'
  BY DEF WaitListConsistent, TypeOK, ThreadTypeOK, Waits
<1>3. FlagInv' /\ WakesInv'
  BY ThreadsAssumption DEF FlagInv, WakesInv, TypeOK, Spins, Waits, Resumes
<1>4. FreeingInv'
  BY DEF FreeingInv, FlagInv, TypeOK, Frees, Waits, Usable
<1>5. (Balance /\ NoStrandedWaiter /\ WaitersCounted)'
  <2>1. Usable' <=> Usable
    BY UsableSame DEF Frees, Waits
  <2>2. Counting' = Counting
    BY CountingSame DEF Waits
  <2> QED BY <2>1, <2>2 DEF Balance, NoStrandedWaiter, WaitersCounted, Nrwaiting
<1>6. NoLostWakeup'
  BY DEF NoLostWakeup, WakesInv, TypeOK, ThreadTypeOK, Waits, Resumes
<1> QED BY <1>1, <1>2, <1>3, <1>4, <1>5, <1>6

\* The thread was resumed by somebody else.
LEMMA NoWakeupInv ==
    ASSUME EventInv, NEW t \in Threads, NoWakeup(t)
    PROVE  EventInv'
<1> USE DEF EventInv, NoWakeup, Goto, counterVars, history, threadVars
<1>1. TypeOK'
  BY EventCountAssumption DEF TypeOK, ThreadTypeOK, Spins, Waits, Resumes
<1>2. WaitListConsistent'
  BY DEF WaitListConsistent, TypeOK, ThreadTypeOK, Waits
<1>3. FlagInv' /\ WakesInv'
  BY ThreadsAssumption DEF FlagInv, WakesInv, TypeOK, Spins, Waits, Resumes
<1>4. FreeingInv'
  BY DEF FreeingInv, FlagInv, TypeOK, Frees, Waits, Usable
<1>5. (Balance /\ NoStrandedWaiter /\ WaitersCounted)'
  <2>1. Usable' <=> Usable
    BY UsableSame DEF Frees, Waits
  <2>2. Counting' = Counting
    BY CountingSame DEF Waits
  <2> QED BY <2>1, <2>2 DEF Balance, NoStrandedWaiter, WaitersCounted, Nrwaiting
<1>6. NoLostWakeup'
  BY DEF NoLostWakeup, WakesInv, TypeOK, ThreadTypeOK, Waits, Resumes
<1> QED BY <1>1, <1>2, <1>3, <1>4, <1>5, <1>6

\* The time is over.
LEMMA TimeoutInv ==
    ASSUME EventInv, NEW t \in Threads, Timeout(t)
    PROVE  EventInv'
<1> USE DEF EventInv, Timeout, Goto, counterVars, history, threadVars
<1>1. TypeOK'
  BY EventCountAssumption DEF TypeOK, ThreadTypeOK, Spins, Waits, Resumes
<1>2. WaitListConsistent'
  BY DEF WaitListConsistent, TypeOK, ThreadTypeOK, Waits
<1>3. FlagInv' /\ WakesInv'
  BY ThreadsAssumption DEF FlagInv, WakesInv, TypeOK, Spins, Waits, Resumes
<1>4. FreeingInv'
  BY DEF FreeingInv, FlagInv, TypeOK, Frees, Waits, Usable
<1>5. (Balance /\ NoStrandedWaiter /\ WaitersCounted)'
  <2>1. Usable' <=> Usable
    BY UsableSame DEF Frees, Waits
  <2>2. Counting' = Counting
    BY CountingSame DEF Waits
  <2> QED BY <2>1, <2>2 DEF Balance, NoStrandedWaiter, WaitersCounted, Nrwaiting
<1>6. NoLostWakeup'
  BY DEF NoLostWakeup, WakesInv, TypeOK, ThreadTypeOK, Waits, Resumes
<1> QED BY <1>1, <1>2, <1>3, <1>4, <1>5, <1>6

\* The time is over, but the thread was woken up before.
LEMMA TimeoutWokenInv ==
    ASSUME EventInv, NEW t \in Threads, TimeoutWoken(t)
    PROVE  EventInv'
<1> USE DEF EventInv, TimeoutWoken, In, UnlockCounter, Goto, counterVars, history, threadVars
<1>1. TypeOK'
  BY EventCountAssumption DEF TypeOK, ThreadTypeOK, Spins, Waits, Resumes
<1>2. WaitListConsistent'
  BY DEF WaitListConsistent, TypeOK, ThreadTypeOK, Waits
<1>3. FlagInv' /\ WakesInv'
  BY ThreadsAssumption DEF FlagInv, WakesInv, TypeOK, Spins, Waits, Resumes
<1>4. FreeingInv'
  BY DEF FreeingInv, FlagInv, TypeOK, Frees, Waits, Usable
<1>5. (Balance /\ NoStrandedWaiter /\ WaitersCounted)'
  <2>1. Usable' <=> Usable
    BY UsableSame DEF Frees, Waits
  <2>2. Counting' = Counting
    BY CountingSame DEF Waits
  <2> QED BY <2>1, <2>2 DEF Balance, NoStrandedWaiter, WaitersCounted, Nrwaiting
<1>6. NoLostWakeup'
  BY DEF NoLostWakeup, WakesInv, TypeOK, ThreadTypeOK, Waits, Resumes
<1> QED BY <1>1, <1>2, <1>3, <1>4, <1>5, <1>6

\* The thread takes itself out of the list and corrects the counter.
LEMMA TimeoutRemoveInv ==
    ASSUME EventInv, NEW t \in Threads, TimeoutRemove(t)
    PROVE  EventInv'
<1> USE DEF EventInv, TimeoutRemove, LeaveList, Unlink, In, UnlockCounter, Goto, counterVars, history, threadVars
<1>0. /\ list' \in Seq(Threads)
      /\ IsInjective(list')
      /\ ToSet(list') = ToSet(list) \ {t}
      /\ Len(list') = Len(list) - 1
      /\ Len(list) \in Nat \ {0}
  <2> PICK i \in DOMAIN list : list[i] = t /\ list' = RemoveAt(list, i)
    BY DEF RemoveNode
  <2>1. list \in Seq(Threads) /\ IsInjective(list)
    BY DEF TypeOK, WaitListConsistent
  <2> QED BY <2>1, RemoveAtList
<1>1. TypeOK'
  BY <1>0, EventCountAssumption DEF TypeOK, ThreadTypeOK, Spins, Waits, Resumes
<1>2. WaitListConsistent'
  BY <1>0 DEF WaitListConsistent, TypeOK, ThreadTypeOK, Waits
<1>3. FlagInv' /\ WakesInv'
  BY ThreadsAssumption DEF FlagInv, WakesInv, TypeOK, Spins, Waits, Resumes
<1>4. FreeingInv'
  <2>1. ASSUME NEW u \in Threads PROVE pc'[u] \notin {"freewake", "freeresume"}
    BY DEF FlagInv, TypeOK, Resumes
  <2> QED BY <2>1 DEF FreeingInv, TypeOK, Frees, Waits
<1>5. (Balance /\ NoStrandedWaiter /\ WaitersCounted)'
  <2>1. Usable' <=> Usable
    BY UsableSame DEF Frees
  <2>2. /\ Cardinality(Counting) \in Nat /\ Counting' = Counting
        /\ Counting = {} <=> Cardinality(Counting) = 0
    BY CountingSame, NobodyCounts
  <2>3. nrevents' = nrevents + 1 /\ counted' = counted /\ granted' = granted
    OBVIOUS
  <2>4. Balance'
    BY <1>0, <2>1, <2>3 DEF Balance, TypeOK
  <2>5. NoStrandedWaiter'
    BY <1>0, <2>1, <2>2, <2>3 DEF NoStrandedWaiter, Nrwaiting, TypeOK
  <2>6. ASSUME Usable', ~crossed' PROVE Usable /\ ~crossed /\ Counting = {}
    BY <2>1, <2>6
  <2>7. Usable /\ Counting = {} /\ Len(list) = Cardinality(Counting) + Nrwaiting
            => Len(list') = Cardinality(Counting') + Nrwaiting'
    BY <1>0, <2>2, <2>3 DEF Nrwaiting, TypeOK
  <2>8. WaitersCounted'
    BY <2>6, <2>7 DEF WaitersCounted
  <2> QED BY <2>4, <2>5, <2>8
<1>6. NoLostWakeup'
  BY DEF NoLostWakeup, WakesInv, TypeOK, ThreadTypeOK, Waits, Resumes
<1> QED BY <1>1, <1>2, <1>3, <1>4, <1>5, <1>6

\* free_eventcount is called.
LEMMA FreeInv ==
    ASSUME EventInv, NEW t \in Threads, Free(t)
    PROVE  EventInv'
<1> USE DEF EventInv, Free, Goto, counterVars, history, threadVars
<1>1. TypeOK'
  BY EventCountAssumption DEF TypeOK, ThreadTypeOK, Spins, Waits, Resumes
<1>2. WaitListConsistent'
  BY DEF WaitListConsistent, TypeOK, ThreadTypeOK, Waits
<1>3. FlagInv' /\ WakesInv'
  BY ThreadsAssumption DEF FlagInv, WakesInv, TypeOK, Spins, Waits, Resumes
<1>4. FreeingInv'
  BY DEF FreeingInv, FlagInv, TypeOK, Frees, Waits, Usable
<1>5. (Balance /\ NoStrandedWaiter /\ WaitersCounted)'
  <2>1. ~Usable'
    BY DEF Usable, Frees, TypeOK
  <2> QED BY <2>1 DEF Balance, NoStrandedWaiter, WaitersCounted
<1>6. NoLostWakeup'
  BY DEF NoLostWakeup, WakesInv, TypeOK, ThreadTypeOK, Waits, Resumes
<1> QED BY <1>1, <1>2, <1>3, <1>4, <1>5, <1>6

\* The counter is forgotten.
LEMMA FreeResetInv ==
    ASSUME EventInv, NEW t \in Threads, FreeReset(t)
    PROVE  EventInv'
<1> USE DEF EventInv, FreeReset, In, Goto, counterVars, history, threadVars
<1>1. TypeOK'
  <2>1. (crossed \in BOOLEAN)'
    OBVIOUS
  <2>2. (counted \in 0..MaxCounted)'
    BY EventCountAssumption
  <2> QED BY <2>1, <2>2 DEF TypeOK, ThreadTypeOK, Resumes
<1>2. WaitListConsistent'
  BY DEF WaitListConsistent, TypeOK, ThreadTypeOK, Waits
<1>3. FlagInv' /\ WakesInv'
  BY ThreadsAssumption DEF FlagInv, WakesInv, TypeOK, Spins, Waits, Resumes
<1>4. FreeingInv'
  BY DEF FreeingInv, FlagInv, TypeOK, Frees, Waits, Usable
<1>5. (Balance /\ NoStrandedWaiter /\ WaitersCounted)'
  <2>1. ~Usable'
    BY DEF Usable, Frees, TypeOK
  <2> QED BY <2>1 DEF Balance, NoStrandedWaiter, WaitersCounted
<1>6. NoLostWakeup'
  BY DEF NoLostWakeup, WakesInv, TypeOK, ThreadTypeOK, Waits, Resumes
<1> QED BY <1>1, <1>2, <1>3, <1>4, <1>5, <1>6

\* free_eventcount takes the first thread out of the list.
LEMMA FreeWakeupInv ==
    ASSUME EventInv, NEW t \in Threads, FreeWakeup(t)
    PROVE  EventInv'
<1> USE DEF EventInv, FreeWakeup, In, TakeFirst, Unlink, Goto, counterVars, history, threadVars
<1> DEFINE f == Head(list)
<1>0. /\ list' \in Seq(Threads)
      /\ IsInjective(list')
      /\ ToSet(list') = ToSet(list) \ {f}
      /\ Len(list') = Len(list) - 1
      /\ Len(list) \in Nat \ {0}
      /\ f \in Threads /\ linked[f]
      /\ f # t
  <2>1. list \in Seq(Threads)
    BY DEF TypeOK
  <2>2. f \in Threads /\ f \in ToSet(list) /\ linked[f]
    BY <2>1, TailList DEF WaitListConsistent
  <2>3. f # t
    BY <2>2 DEF WaitListConsistent, Waits
  <2> QED BY <2>1, <2>2, <2>3, TailList DEF WaitListConsistent
<1> HIDE DEF f
<1>1. TypeOK'
  BY <1>0, EventCountAssumption DEF TypeOK, ThreadTypeOK, Spins, Waits, Resumes
<1>2. WaitListConsistent'
  BY <1>0 DEF f, WaitListConsistent, TypeOK, ThreadTypeOK, Waits
<1>3. FlagInv' /\ WakesInv'
  BY <1>0, ThreadsAssumption DEF FlagInv, WakesInv, TypeOK, Spins, Waits, Resumes
<1>4. FreeingInv'
  BY DEF FreeingInv, FlagInv, TypeOK, Frees, Waits, Usable
<1>5. (Balance /\ NoStrandedWaiter /\ WaitersCounted)'
  <2>1. ~Usable'
    BY DEF Usable, Frees, TypeOK
  <2> QED BY <2>1 DEF Balance, NoStrandedWaiter, WaitersCounted
<1>6. NoLostWakeup'
  BY <1>0 DEF NoLostWakeup, WakesInv, TypeOK, ThreadTypeOK, Waits, Resumes
<1> QED BY <1>1, <1>2, <1>3, <1>4, <1>5, <1>6

\* The thread which was taken out of the list gets its SIGINT.
LEMMA FreeResumeInv ==
    ASSUME EventInv, NEW t \in Threads, FreeResume(t)
    PROVE  EventInv'
<1> USE DEF EventInv, FreeResume, In, ResumeTaken, ResumeThread, Goto, counterVars, history, threadVars
<1>1. TypeOK'
  BY EventCountAssumption DEF TypeOK, ThreadTypeOK, Spins, Waits, Resumes
<1>2. WaitListConsistent'
  BY DEF WaitListConsistent, TypeOK, ThreadTypeOK, Waits
<1>3. FlagInv' /\ WakesInv'
  BY ThreadsAssumption DEF FlagInv, WakesInv, TypeOK, Spins, Waits, Resumes
<1>4. FreeingInv'
  BY DEF FreeingInv, FlagInv, TypeOK, Frees, Waits, Usable
<1>5. (Balance /\ NoStrandedWaiter /\ WaitersCounted)'
  <2>1. ~Usable'
    BY DEF Usable, Frees, TypeOK
  <2> QED BY <2>1 DEF Balance, NoStrandedWaiter, WaitersCounted
<1>6. NoLostWakeup'
  BY DEF NoLostWakeup, WakesInv, TypeOK, ThreadTypeOK, Waits, Resumes
<1> QED BY <1>1, <1>2, <1>3, <1>4, <1>5, <1>6

\* Nobody waits any more: the object starts again.
LEMMA FreeDoneInv ==
    ASSUME EventInv, NEW t \in Threads, FreeDone(t)
    PROVE  EventInv'
<1> USE DEF EventInv, FreeDone, In, UnlockCounter, Goto, counterVars, history, threadVars
<1>1. TypeOK'
  BY EventCountAssumption DEF TypeOK, ThreadTypeOK, Spins, Waits, Resumes
<1>2. WaitListConsistent'
  BY DEF WaitListConsistent, TypeOK, ThreadTypeOK, Waits
<1>3. FlagInv' /\ WakesInv'
  BY ThreadsAssumption DEF FlagInv, WakesInv, TypeOK, Spins, Waits, Resumes
<1>4. FreeingInv'
  BY DEF FreeingInv, FlagInv, TypeOK, Frees, Waits, Usable
<1>5. (Balance /\ NoStrandedWaiter /\ WaitersCounted)'
  <2>1. nrevents = 0 /\ counted = 0 /\ granted = 0 /\ Len(list) = 0
    BY DEF FreeingInv
  <2>2. Counting' = {}
    BY DEF FreeingInv, Frees, Counting, Waits, TypeOK
  <2> QED BY <2>1, <2>2, FS_EmptySet DEF Balance, NoStrandedWaiter, WaitersCounted, Nrwaiting
<1>6. NoLostWakeup'
  BY DEF NoLostWakeup, WakesInv, TypeOK, ThreadTypeOK, Waits, Resumes
<1> QED BY <1>1, <1>2, <1>3, <1>4, <1>5, <1>6

\* SIGINT is sent by somebody else.
LEMMA SpuriousInv ==
    ASSUME EventInv, NEW t \in Threads, Spurious(t)
    PROVE  EventInv'
<1> USE DEF EventInv, Spurious, SpuriousResume, ResumeThread, counterVars, history, threadVars
<1>1. TypeOK'
  BY EventCountAssumption DEF TypeOK, ThreadTypeOK, Spins, Waits, Resumes
<1>2. WaitListConsistent'
  BY DEF WaitListConsistent, TypeOK, ThreadTypeOK, Waits
<1>3. FlagInv' /\ WakesInv'
  BY ThreadsAssumption DEF FlagInv, WakesInv, TypeOK, Spins, Waits, Resumes
<1>4. FreeingInv'
  BY DEF FreeingInv, FlagInv, TypeOK, Frees, Waits, Usable
<1>5. (Balance /\ NoStrandedWaiter /\ WaitersCounted)'
  BY DEF Balance, NoStrandedWaiter, WaitersCounted, Nrwaiting, Usable, Counting
<1>6. NoLostWakeup'
  BY DEF NoLostWakeup, WakesInv, TypeOK, ThreadTypeOK, Waits, Resumes
<1> QED BY <1>1, <1>2, <1>3, <1>4, <1>5, <1>6

-----------------------------------------------------------------------------
(* The theorems.                                                           *)

\* Every step of every thread preserves the invariant.
LEMMA NextInv == EventInv /\ [Next]_vars => EventInv'
<1> SUFFICES ASSUME EventInv, [Next]_vars PROVE EventInv'
  OBVIOUS
<1>1. CASE UNCHANGED vars
  BY <1>1 DEF vars, counterVars, history, threadVars, EventInv, TypeOK, ThreadTypeOK, WaitListConsistent,
     FlagInv, WakesInv, FreeingInv, Balance, NoStrandedWaiter, WaitersCounted, NoLostWakeup, Usable,
     Counting, Nrwaiting
<1>2. ASSUME NEW t \in Threads, Step(t) PROVE EventInv'
  BY <1>2, CountNobodyInv, CountWakeupInv, CountResumeInv, IsEventInv, InsertLastInv, SuspendInv,
     IsWakeupInv, NoWakeupInv, TimeoutWokenInv, TimeoutRemoveInv, FreeResetInv, FreeWakeupInv,
     FreeResumeInv, FreeDoneInv DEF Step
<1>3. ASSUME NEW t \in Threads,
             Count(t) \/ TryWait(t) \/ Wait(t) \/ Timeout(t) \/ Free(t) \/ LockCounter(t) \/ Spurious(t)
      PROVE  EventInv'
  BY <1>3, CountInv, TryWaitInv, WaitInv, TimeoutInv, FreeInv, LockCounterInv, SpuriousInv
<1> QED BY <1>1, <1>2, <1>3 DEF Next

\* In every state the counter, the list, the flags of the threads and the places
\* of the threads in eventcount.c agree.
THEOREM EventInvariant == Spec => []EventInv
<1> QED BY InitInv, NextInv, PTL DEF Spec

\* A listed thread is one nrevents stands for or one for which a wakeup is on
\* its way, however waiting, counting and timing out interleave.
THEOREM NobodyIsStranded == Spec => []NoStrandedWaiter
<1>1. EventInv => NoStrandedWaiter
  BY DEF EventInv
<1> QED BY <1>1, EventInvariant, PTL

\* nrevents stands for the waiting threads as eventcount.h says, as long as no
\* timeout crosses a wakeup.
THEOREM WaitersAreCounted == Spec => []WaitersCounted
<1>1. EventInv => WaitersCounted
  BY DEF EventInv
<1> QED BY <1>1, EventInvariant, PTL

\* No wakeup of count_eventcount and free_eventcount is lost.
THEOREM NoWakeupIsLost == Spec => []NoLostWakeup
<1>1. EventInv => NoLostWakeup
  BY DEF EventInv
<1> QED BY <1>1, EventInvariant, PTL

-----------------------------------------------------------------------------
(* The abstract counter.                                                   *)

\* While the object is usable and no timeout crossed a wakeup, the events
\* nobody took are those in nrevents and those whose wakeup is on its way.
LEMMA EventsLeft ==
    ASSUME EventInv, Usable, ~crossed
    PROVE  /\ counted - granted \in Int
           /\ counted - granted >= Cardinality(Counting)
           /\ nrevents > 0 => counted - granted > 0
<1>1. nrevents + Len(list) = counted - granted /\ Len(list) = Cardinality(Counting) + Nrwaiting
  BY DEF EventInv, Balance, WaitersCounted
<1>2. /\ nrevents \in Int /\ Len(list) \in Nat /\ Cardinality(Counting) \in Nat
      /\ counted \in Int /\ granted \in Int
  BY NobodyCounts, EventCountAssumption DEF EventInv, TypeOK
<1> QED BY <1>1, <1>2 DEF Nrwaiting

\* A step which counts and grants nothing is not seen, unless a timeout crosses
\* a wakeup: then the events are forgotten as if the counter was freed.
LEMMA NothingGranted ==
    ASSUME EventInv, counted' = counted, granted' = granted, (crossed' = crossed) \/ crossed'
    PROVE  Counter!Next \/ UNCHANGED Events
<1>1. CASE crossed' = crossed
  BY <1>1 DEF Events
<1>2. CASE crossed'
  BY <1>2 DEF Events, Counter!Next, Counter!Reset
<1> QED BY <1>1, <1>2

\* An event is taken: there was one.
LEMMA EventTaken ==
    ASSUME EventInv, Usable, nrevents > 0 \/ Counting # {},
           counted' = counted, granted' = granted + 1, crossed' = crossed
    PROVE  Counter!Next \/ UNCHANGED Events
<1>1. CASE crossed
  BY <1>1 DEF Events
<1>2. CASE ~crossed
  <2>1. counted - granted > 0
    BY <1>2, EventsLeft, NobodyCounts
  <2>2. Events = counted - granted /\ Events' = counted' - granted'
    BY <1>2 DEF Events
  <2>3. counted \in Int /\ granted \in Int
    BY DEF EventInv, TypeOK
  <2> QED BY <2>1, <2>2, <2>3 DEF Counter!Next, Counter!Take
<1> QED BY <1>1, <1>2

\* An event is counted.
LEMMA EventCounted ==
    ASSUME EventInv, counted' = counted + 1, granted' = granted, crossed' = crossed
    PROVE  Counter!Next \/ UNCHANGED Events
<1>1. CASE crossed
  BY <1>1 DEF Events
<1>2. CASE ~crossed
  <2>1. Events = counted - granted /\ Events' = counted' - granted'
    BY <1>2 DEF Events
  <2>2. counted \in Int /\ granted \in Int
    BY DEF EventInv, TypeOK
  <2> QED BY <2>1, <2>2 DEF Counter!Next, Counter!Count
<1> QED BY <1>1, <1>2

\* A new object is a counter without events.
LEMMA InitRefines == Init => Counter!Init
BY DEF Init, Counter!Init, Events

\* Every step of every thread is one step of the counter or none.
LEMMA NextRefines == EventInv /\ [Next]_vars => [Counter!Next]_Events
<1> SUFFICES ASSUME EventInv, [Next]_vars PROVE Counter!Next \/ UNCHANGED Events
  OBVIOUS
<1>1. CASE UNCHANGED vars
  BY <1>1 DEF vars, history, Events
<1>2. CASE Next
  <2> PICK t \in Threads : \/ Count(t) \/ TryWait(t) \/ Wait(t) \/ Timeout(t) \/ Free(t)
                           \/ LockCounter(t) \/ Step(t) \/ Spurious(t)
    BY <1>2 DEF Next
  <2>1. CASE Count(t)
    BY <2>1, EventCounted DEF Count
  <2>2. CASE TryWait(t)
    BY <2>2, EventTaken DEF TryWait, HasEvent
  <2>3. CASE CountWakeup(t)
    <3>1. Usable /\ t \in Counting
      BY <2>3, BusyUsable DEF CountWakeup, In, EventInv, Waits, Frees, Counting
    <3> QED BY <2>3, <3>1, EventTaken DEF CountWakeup
  <2>4. CASE IsEvent(t)
    <3>1. Usable
      BY <2>4, BusyUsable DEF IsEvent, In, EventInv, Waits, Frees
    <3> QED BY <2>4, <3>1, EventTaken DEF IsEvent, HasEvent
  <2>5. CASE FreeReset(t)
    <3>1. Events' = 0
      BY <2>5 DEF FreeReset, Events
    <3> QED BY <3>1 DEF Counter!Next, Counter!Reset
  <2>6. CASE TimeoutRemove(t)
    <3>1. counted' = counted /\ granted' = granted /\ crossed' = (crossed \/ Counting # {})
      BY <2>6 DEF TimeoutRemove
    <3>2. crossed \in BOOLEAN
      BY DEF EventInv, TypeOK
    <3>3. (crossed' = crossed) \/ crossed'
      BY <3>1, <3>2, Zenon
    <3> QED BY <3>1, <3>3, NothingGranted
  <2>7. CASE Wait(t) \/ Timeout(t) \/ Free(t) \/ LockCounter(t) \/ Spurious(t)
    BY <2>7, NothingGranted DEF Wait, Timeout, Free, LockCounter, Spurious, history
  <2>8. CASE \/ CountNobody(t) \/ CountResume(t) \/ InsertLast(t) \/ Suspend(t) \/ IsWakeup(t)
             \/ NoWakeup(t) \/ TimeoutWoken(t) \/ FreeWakeup(t) \/ FreeResume(t) \/ FreeDone(t)
    BY <2>8, NothingGranted DEF CountNobody, CountResume, InsertLast, Suspend, IsWakeup, NoWakeup,
       TimeoutWoken, FreeWakeup, FreeResume, FreeDone, history
  <2> QED BY <2>1, <2>2, <2>3, <2>4, <2>5, <2>6, <2>7, <2>8 DEF Step
<1> QED BY <1>1, <1>2

\* eventcount.c implements the counter its clients rely on: as long as no timeout
\* crosses a wakeup, no wait succeeds without an event of its own.
THEOREM Implements == Spec => ImplementsEventCounter
<1> QED BY InitRefines, NextRefines, EventInvariant, PTL
    DEF Spec, ImplementsEventCounter, Counter!Spec

=============================================================================
