----------------------------- MODULE EventCount -----------------------------
(***************************************************************************)
(* eventcount_t: C-kern/platform/Linux/sync/eventcount.c.  A counter of    *)
(* events; wait_eventcount takes one event or waits for it, optionally     *)
(* with a timeout.  A negative nrevents stands for waiting threads.        *)
(*                                                                         *)
(* nrevents is changed by atomic instructions, with and without lockflag;  *)
(* the list is used only with lockflag set.  count_eventcount first adds   *)
(* one and only then, if the old value was negative, sets lockflag to wake *)
(* a thread: between the two steps others may wait, time out and count.    *)
(*                                                                         *)
(* Granularity.  An atomic instruction on nrevents and the list operation  *)
(* next to it under lockflag are one step (whoever sees the new value has  *)
(* to set lockflag to see the list).  The loop of trywait_eventcount ends  *)
(* either with a successful compare-and-exchange of a positive value or    *)
(* with a read of a value <= 0: it is that one instruction.                *)
(***************************************************************************)
EXTENDS Thread, Integers, SequencesExt

CONSTANTS Timed,      \* the threads which call wait_eventcount with a timeout
          MaxCounted  \* bound: calls of count_eventcount in a life of the object

ASSUME EventCountAssumption == /\ Timed \subseteq Threads
                               /\ MaxCounted \in Nat

VARIABLES nrevents,  \* int32_t: events, or minus the number of waiting threads
          list,      \* list of waiting threads (member last), first to last
          lockflag,  \* thread in the section protected by lockflag
          wakes,     \* wakes[t]: local thread of wakeup_thread called by t
          pc,        \* where a thread is in the functions of eventcount.c
          counted,   \* history: calls of count_eventcount
          granted,   \* history: waits which took an event or were woken
          crossed    \* history: a thread left the list because its time was over
                     \* while the wakeup of a counted event was on its way

history == <<counted, granted, crossed>>
counterVars == <<nrevents, list, lockflag, wakes>>
vars == <<counterVars, pc, history, threadVars>>

\* Labels at which a thread wants lockflag or, if it is lockflag, has it.
Spins == {"count", "wait2", "timeout", "free"}
\* The waiting loop of wait2_eventcount, entered with the thread in the list.
Waits == {"suspended", "check", "timeout"}
\* Inside of wakeup_thread: the thread is out of the list, not yet resumed.
Resumes == {"countresume", "freeresume"}

TypeOK == /\ ThreadTypeOK
          /\ nrevents \in Int
          /\ list \in Seq(Threads)
          /\ lockflag \in Threads \cup {NoThread}
          /\ wakes \in [Threads -> Threads \cup {NoThread}]
          /\ pc \in [Threads -> {"idle", "freewake"} \cup Spins \cup Waits \cup Resumes]
          /\ counted \in 0..MaxCounted
          /\ granted \in Nat
          /\ crossed \in BOOLEAN

\* init_eventcount
Init == /\ ThreadInit
        /\ nrevents = 0
        /\ list = <<>>
        /\ lockflag = NoThread
        /\ wakes = [t \in Threads |-> NoThread]
        /\ pc = [t \in Threads |-> "idle"]
        /\ counted = 0
        /\ granted = 0
        /\ crossed = FALSE

-----------------------------------------------------------------------------

Goto(t, label) == pc' = [pc EXCEPT ![t] = label]

In(t, f) == pc[t] = f /\ lockflag = t

\* unlock_counter and continue at label.
UnlockCounter(t, label) == lockflag' = NoThread /\ Goto(t, label)

\* Inside of free_eventcount.
Frees == {"free", "freewake", "freeresume"}

\* free_eventcount ends the life of the object: no other call starts then.
Usable == \A t \in Threads : pc[t] \notin Frees

\* Threads in count_eventcount which added one to a negative number and have
\* not woken a thread for it yet.
Counting == {t \in Threads : pc[t] = "count"}

\* lock_counter: the iteration of the spin loop which finds the flag clear.
LockCounter(t) == /\ pc[t] \in Spins
                  /\ lockflag = NoThread
                  /\ lockflag' = t
                  /\ UNCHANGED <<nrevents, list, wakes, pc, history, threadVars>>

\* wakeup_thread up to unlock_thread(thread), for a list which is not empty.
TakeFirst(t) == /\ list # <<>>
                /\ wakes' = [wakes EXCEPT ![t] = Head(list)]
                /\ list' = Tail(list)
                /\ Unlink(Head(list))

\* resume_thread(thread), the end of wakeup_thread.  Mistake: it is missing.
ResumeTakenBug(t) == /\ wakes' = [wakes EXCEPT ![t] = NoThread]
                     /\ UNCHANGED pending

ResumeTaken(t) == /\ ResumeThread(wakes[t])
                  /\ wakes' = [wakes EXCEPT ![t] = NoThread]

-----------------------------------------------------------------------------
(* count_eventcount *)

\* Whether a thread has to be woken, nrevents being the value before the
\* addition.  Mistake: off by one.
MustWakeBug == nrevents < -1

MustWake == nrevents < 0

Count(t) ==
    /\ pc[t] = "idle"
    /\ Usable
    /\ counted < MaxCounted
    /\ nrevents' = nrevents + 1
    /\ counted' = counted + 1
    /\ IF MustWake THEN Goto(t, "count") ELSE UNCHANGED pc
    /\ UNCHANGED <<list, lockflag, wakes, granted, crossed, threadVars>>

\* "timeout could remove waiting threads"
CountNobody(t) ==
    /\ In(t, "count")
    /\ list = <<>>
    /\ UnlockCounter(t, "idle")
    /\ UNCHANGED <<nrevents, list, wakes, history, threadVars>>

CountWakeup(t) ==
    /\ In(t, "count")
    /\ TakeFirst(t)
    /\ granted' = granted + 1
    /\ Goto(t, "countresume")
    /\ UNCHANGED <<nrevents, lockflag, counted, crossed, pending>>

CountResume(t) ==
    /\ In(t, "countresume")
    /\ ResumeTaken(t)
    /\ UnlockCounter(t, "idle")
    /\ UNCHANGED <<nrevents, list, history, linked>>

-----------------------------------------------------------------------------
(* trywait_eventcount and wait_eventcount *)

\* Mistake: off by one.
HasEventBug == nrevents >= 0

HasEvent == nrevents > 0

\* A successful trywait_eventcount, called by the client or by wait_eventcount.
TryWait(t) ==
    /\ pc[t] = "idle"
    /\ Usable
    /\ HasEvent
    /\ nrevents' = nrevents - 1
    /\ granted' = granted + 1
    /\ UNCHANGED <<list, lockflag, wakes, pc, counted, crossed, threadVars>>

\* wait_eventcount calls wait2_eventcount after trywait_eventcount failed.
Wait(t) ==
    /\ pc[t] = "idle"
    /\ Usable
    /\ ~HasEvent
    /\ Goto(t, "wait2")
    /\ UNCHANGED <<counterVars, history, threadVars>>

IsEvent(t) ==
    /\ In(t, "wait2")
    /\ HasEvent
    /\ nrevents' = nrevents - 1
    /\ granted' = granted + 1
    /\ UnlockCounter(t, "idle")
    /\ UNCHANGED <<list, wakes, counted, crossed, threadVars>>

InsertLast(t) ==
    /\ In(t, "wait2")
    /\ ~HasEvent
    /\ nrevents' = nrevents - 1
    /\ list' = Append(list, t)
    /\ Link(t)
    /\ UnlockCounter(t, "suspended")
    /\ UNCHANGED <<wakes, history, pending>>

Suspend(t) ==
    /\ pc[t] = "suspended"
    /\ SuspendThread(t)
    /\ Goto(t, "check")
    /\ UNCHANGED <<counterVars, history, linked>>

IsWakeup(t) ==
    /\ pc[t] = "check"
    /\ ~linked[t]
    /\ Goto(t, "idle")
    /\ UNCHANGED <<counterVars, history, threadVars>>

NoWakeup(t) ==
    /\ pc[t] = "check"
    /\ linked[t]
    /\ Goto(t, "suspended")
    /\ UNCHANGED <<counterVars, history, threadVars>>

\* suspend_thread(timeout) returns EAGAIN.
Timeout(t) ==
    /\ pc[t] = "suspended"
    /\ t \in Timed
    /\ ~pending[t]
    /\ Goto(t, "timeout")
    /\ UNCHANGED <<counterVars, history, threadVars>>

\* "is already woken up ?": the call succeeds although its time is over.
TimeoutWoken(t) ==
    /\ In(t, "timeout")
    /\ ~linked[t]
    /\ UnlockCounter(t, "idle")
    /\ UNCHANGED <<nrevents, list, wakes, history, threadVars>>

\* The wait node of t is unlinked, wherever it is in the list.
RemoveNode(t) == \E i \in DOMAIN list : list[i] = t /\ list' = RemoveAt(list, i)

\* Mistake: the counter is not corrected.
LeaveListBug(t) == RemoveNode(t) /\ Unlink(t) /\ UNCHANGED nrevents

LeaveList(t) == RemoveNode(t) /\ Unlink(t) /\ nrevents' = nrevents + 1

TimeoutRemove(t) ==
    /\ In(t, "timeout")
    /\ linked[t]
    /\ LeaveList(t)
    /\ UnlockCounter(t, "idle")
    /\ crossed' = (crossed \/ Counting # {})
    /\ UNCHANGED <<wakes, counted, granted, pending>>

-----------------------------------------------------------------------------
(* free_eventcount *)

\* Called when every other thread of the object only waits for an event.
Free(t) ==
    /\ pc[t] = "idle"
    /\ \A u \in Threads : pc[u] \in {"idle"} \cup Waits
    /\ Goto(t, "free")
    /\ UNCHANGED <<counterVars, history, threadVars>>

FreeReset(t) ==
    /\ In(t, "free")
    /\ nrevents' = 0
    /\ counted' = 0
    /\ granted' = 0
    /\ crossed' = FALSE
    /\ Goto(t, "freewake")
    /\ UNCHANGED <<list, lockflag, wakes, threadVars>>

FreeWakeup(t) ==
    /\ In(t, "freewake")
    /\ TakeFirst(t)
    /\ Goto(t, "freeresume")
    /\ UNCHANGED <<nrevents, lockflag, history, pending>>

FreeResume(t) ==
    /\ In(t, "freeresume")
    /\ ResumeTaken(t)
    /\ Goto(t, "freewake")
    /\ UNCHANGED <<nrevents, list, lockflag, history, linked>>

FreeDone(t) ==
    /\ In(t, "freewake")
    /\ list = <<>>
    /\ UnlockCounter(t, "idle")
    /\ UNCHANGED <<nrevents, list, wakes, history, threadVars>>

-----------------------------------------------------------------------------

\* Steps of a call which the scheduler lets happen.
Step(t) == \/ CountNobody(t)
           \/ CountWakeup(t)
           \/ CountResume(t)
           \/ IsEvent(t)
           \/ InsertLast(t)
           \/ Suspend(t)
           \/ IsWakeup(t)
           \/ NoWakeup(t)
           \/ TimeoutWoken(t)
           \/ TimeoutRemove(t)
           \/ FreeReset(t)
           \/ FreeWakeup(t)
           \/ FreeResume(t)
           \/ FreeDone(t)

Spurious(t) == SpuriousResume(t) /\ UNCHANGED <<counterVars, pc, history>>

Next == \E t \in Threads : \/ Count(t)
                           \/ TryWait(t)
                           \/ Wait(t)
                           \/ Timeout(t)
                           \/ Free(t)
                           \/ LockCounter(t)
                           \/ Step(t)
                           \/ Spurious(t)

Spec == Init /\ [][Next]_vars

\* Threads are scheduled; a spinning thread finds the flag clear if it is
\* cleared again and again.  Nobody has to call count_eventcount.
Fairness == \A t \in Threads : WF_vars(Step(t)) /\ SF_vars(LockCounter(t))

FairSpec == Spec /\ Fairness

-----------------------------------------------------------------------------
(* Properties *)

\* Waiting threads nrevents stands for.
Nrwaiting == IF nrevents < 0 THEN -nrevents ELSE 0

\* No event is lost or invented by the counter itself: what was counted is
\* either granted or still in nrevents, of which every listed thread took one.
Balance == Usable => nrevents + Len(list) = counted - granted

\* Nobody is forgotten: a listed thread is one nrevents stands for, or a
\* thread in count_eventcount is on its way to wake it, although threads wait,
\* time out and count between its two steps.
NoStrandedWaiter == Usable => Len(list) <= Cardinality(Counting) + Nrwaiting

\* The thread is removed from the list first and resumed after unlock_thread:
\* a suspended thread which left the list has its SIGINT pending or the
\* thread which removed it is about to send it.
NoLostWakeup ==
    \A t \in Threads : pc[t] = "suspended" /\ ~linked[t]
                           => pending[t] \/ \E u \in Threads : wakes[u] = t

\* A thread is in the list exactly if its wait node says so, and only once.
WaitListConsistent ==
    /\ IsInjective(list)
    /\ ToSet(list) = {t \in Threads : linked[t]}
    /\ \A t \in Threads : linked[t] => pc[t] \in Waits

\* eventcount.h, member nrevents: "If number < 0 the number of waiting threads
\* is (-nrevents)", counting the wakeups which are on their way.
WaitersCounted == Usable /\ ~crossed => Len(list) = Cardinality(Counting) + Nrwaiting

\* eventcount.h, wait_eventcount: a waiting thread returns only after
\* count_eventcount was called for it, and 0 means "Decremented counter
\* successfully by one".  No more waits succeed than events were counted.
NoPhantomEvent == granted <= counted

\* eventcount.c implements the counter its clients rely on, until a timeout
\* crosses a wakeup; free_eventcount makes it a counter again.
Events == IF crossed THEN 0 ELSE counted - granted

Counter == INSTANCE EventCounter WITH events <- Events

ImplementsEventCounter == Counter!Spec

\* eventcount.h, member nrevents: "There are no waiting threads if number >= 0":
\* then whoever is still listed is woken up.
WaitersServed ==
    \A t \in Threads : linked[t] /\ nrevents >= 0 ~> ~linked[t]

\* A thread which was taken out of the list returns from wait_eventcount.
WokenReturns ==
    \A t \in Threads : pc[t] \in Waits /\ ~linked[t] ~> pc[t] = "idle"

-----------------------------------------------------------------------------
(* The inductive invariant *)

\* Between taking a thread out of the list and resuming it lockflag is not given up.
FlagInv == \A t \in Threads : pc[t] \in Resumes \cup {"freewake"} => lockflag = t

\* A thread is remembered for resume_thread exactly then.
WakesInv == \A t \in Threads : wakes[t] # NoThread <=> pc[t] \in Resumes

\* A thread in free_eventcount is alone except for the threads which wait, and
\* after the reset nothing counts until all of them are out of the list.
FreeingInv ==
    \A t \in Threads :
        /\ pc[t] \in Frees => \A u \in Threads : u # t => pc[u] \in {"idle"} \cup Waits
        /\ pc[t] \in {"freewake", "freeresume"}
               => nrevents = 0 /\ counted = 0 /\ granted = 0 /\ ~crossed

\* What counter, list, flags and the places of the threads have to do with each
\* other after every step.
EventInv ==
    /\ TypeOK
    /\ WaitListConsistent
    /\ FlagInv
    /\ WakesInv
    /\ FreeingInv
    /\ Balance
    /\ NoStrandedWaiter
    /\ WaitersCounted
    /\ NoLostWakeup

=============================================================================
