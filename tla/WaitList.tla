------------------------------ MODULE WaitList ------------------------------
(***************************************************************************)
(* waitlist_t: C-kern/platform/Linux/sync/waitlist.c.  Threads wait in a   *)
(* list until trywakeup_waitlist gives the first of them something to do:  *)
(* its task is stored in the thread_t of the woken thread.                 *)
(*                                                                         *)
(* Two flags protect two things.  lockflag of the list protects list and   *)
(* nr_waiting; the flag of a thread_t (lock_thread) protects its wait.next *)
(* and its task.  trywakeup_waitlist takes both, gives up the first one as *)
(* soon as the thread is out of the list, and sets the task under the      *)
(* second one: a thread which was resumed by somebody else and finds       *)
(* itself out of the list must not run before its task is set.             *)
(*                                                                         *)
(* Granularity.  A section protected by lockflag is one step, taken with   *)
(* the flag set and ending with its release.  wait_waitlist reads          *)
(* wait.next with its own flag set: lock, read and unlock are one step.    *)
(***************************************************************************)
EXTENDS Thread, SequencesExt

CONSTANTS Tasks,  \* the tasks a client passes to trywakeup_waitlist
          NoTask  \* the null pointer free_waitlist passes to it

VARIABLES list,        \* list of waiting threads (member last), first to last
          nr_waiting,  \* member nr_waiting
          lockflag,    \* thread in the section protected by wlist->lockflag
          threadlock,  \* threadlock[t]: thread which called lock_thread(t)
          task,        \* task[t]: t->task
          pc,          \* where a thread is in the functions of waitlist.c
          arg,         \* arg[t]: parameter main_task of t's trywakeup_waitlist,
                       \* NoTask for a call of free_waitlist
          wakes,       \* wakes[t]: local thread of t's trywakeup_waitlist
          freeing,     \* thread in free_waitlist
          due          \* history: due[t] is the task t was last woken for

listVars == <<list, nr_waiting, lockflag, freeing>>
taskVars == <<threadlock, task>>
callVars == <<arg, wakes>>
vars == <<listVars, taskVars, callVars, pc, due, threadVars>>

Spins == {"insert", "wakeup"}
\* The waiting loop of wait_waitlist, entered with the thread in the list.
Waits == {"suspended", "check"}
\* trywakeup_waitlist after unlockflag_waitlist: the waker has its thread locked.
Locks == {"settask", "unlock"}
\* ... and until it has resumed it.
Wakers == Locks \cup {"resume"}

TypeOK == /\ ThreadTypeOK
          /\ list \in Seq(Threads)
          /\ nr_waiting \in Nat
          /\ lockflag \in Threads \cup {NoThread}
          /\ threadlock \in [Threads -> Threads \cup {NoThread}]
          /\ task \in [Threads -> Tasks \cup {NoTask}]
          /\ pc \in [Threads -> {"idle", "free"} \cup Spins \cup Waits \cup Wakers]
          /\ arg \in [Threads -> Tasks \cup {NoTask}]
          /\ wakes \in [Threads -> Threads \cup {NoThread}]
          /\ freeing \in Threads \cup {NoThread}
          /\ due \in [Threads -> Tasks \cup {NoTask}]

\* init_waitlist
Init == /\ ThreadInit
        /\ list = <<>>
        /\ nr_waiting = 0
        /\ lockflag = NoThread
        /\ threadlock = [t \in Threads |-> NoThread]
        /\ task = [t \in Threads |-> NoTask]
        /\ pc = [t \in Threads |-> "idle"]
        /\ arg = [t \in Threads |-> NoTask]
        /\ wakes = [t \in Threads |-> NoThread]
        /\ freeing = NoThread
        /\ due = [t \in Threads |-> NoTask]

-----------------------------------------------------------------------------

Goto(t, label) == pc' = [pc EXCEPT ![t] = label]

In(t, f) == pc[t] = f /\ lockflag = t

\* unlockflag_waitlist and continue at label.
UnlockFlag(t, label) == lockflag' = NoThread /\ Goto(t, label)

\* lockflag_waitlist: the iteration of the spin loop which finds the flag clear.
LockFlag(t) == /\ pc[t] \in Spins
               /\ lockflag = NoThread
               /\ lockflag' = t
               /\ UNCHANGED <<list, nr_waiting, freeing, taskVars, callVars, pc, due, threadVars>>

\* Where t continues after trywakeup_waitlist: its client or free_waitlist.
Caller(t) == IF freeing = t THEN "free" ELSE "idle"

-----------------------------------------------------------------------------
(* wait_waitlist *)

\* "Make sure that no more other thread is trying to call wait_waitlist if
\* free_waitlist is processing".
Wait(t) ==
    /\ pc[t] = "idle"
    /\ freeing = NoThread
    /\ Goto(t, "insert")
    /\ UNCHANGED <<listVars, taskVars, callVars, due, threadVars>>

InsertLast(t) ==
    /\ In(t, "insert")
    /\ list' = Append(list, t)
    /\ nr_waiting' = nr_waiting + 1
    /\ Link(t)
    /\ UnlockFlag(t, "suspended")
    /\ UNCHANGED <<freeing, taskVars, callVars, due, pending>>

Suspend(t) ==
    /\ pc[t] = "suspended"
    /\ SuspendThread(t)
    /\ Goto(t, "check")
    /\ UNCHANGED <<listVars, taskVars, callVars, due, linked>>

\* lock_thread(self) succeeds.
CanReadSelf(t) == threadlock[t] = NoThread

IsWakeup(t) ==
    /\ pc[t] = "check"
    /\ CanReadSelf(t)
    /\ ~linked[t]
    /\ Goto(t, "idle")
    /\ UNCHANGED <<listVars, taskVars, callVars, due, threadVars>>

\* A spurious resume.
NoWakeup(t) ==
    /\ pc[t] = "check"
    /\ CanReadSelf(t)
    /\ linked[t]
    /\ Goto(t, "suspended")
    /\ UNCHANGED <<listVars, taskVars, callVars, due, threadVars>>

-----------------------------------------------------------------------------
(* trywakeup_waitlist *)

TryWakeup(t, m) ==
    /\ pc[t] = "idle"
    /\ m \in Tasks
    /\ arg' = [arg EXCEPT ![t] = m]
    /\ Goto(t, "wakeup")
    /\ UNCHANGED <<listVars, taskVars, wakes, due, threadVars>>

\* EAGAIN
NobodyWaits(t) ==
    /\ In(t, "wakeup")
    /\ list = <<>>
    /\ arg' = [arg EXCEPT ![t] = NoTask]
    /\ UnlockFlag(t, Caller(t))
    /\ UNCHANGED <<list, nr_waiting, freeing, taskVars, wakes, due, threadVars>>

\* Mistake: the number of waiting threads is not corrected.
LeaveListBug == list' = Tail(list) /\ UNCHANGED nr_waiting

LeaveList == list' = Tail(list) /\ nr_waiting' = nr_waiting - 1

\* lock_thread(thread), removefirst_wlist and unlockflag_waitlist.
TakeFirst(t) ==
    /\ In(t, "wakeup")
    /\ list # <<>>
    /\ threadlock[Head(list)] = NoThread
    /\ threadlock' = [threadlock EXCEPT ![Head(list)] = t]
    /\ wakes' = [wakes EXCEPT ![t] = Head(list)]
    /\ LeaveList
    /\ Unlink(Head(list))
    /\ due' = [due EXCEPT ![Head(list)] = arg[t]]
    /\ UnlockFlag(t, "settask")
    /\ UNCHANGED <<freeing, task, arg, pending>>

SetTask(t) ==
    /\ pc[t] = "settask"
    /\ task' = [task EXCEPT ![wakes[t]] = arg[t]]
    /\ Goto(t, "unlock")
    /\ UNCHANGED <<listVars, threadlock, callVars, due, threadVars>>

UnlockThread(t) ==
    /\ pc[t] = "unlock"
    /\ threadlock' = [threadlock EXCEPT ![wakes[t]] = NoThread]
    /\ Goto(t, "resume")
    /\ UNCHANGED <<listVars, task, callVars, due, threadVars>>

\* Mistake: resume_thread is missing.
ResumeTakenBug(t) == UNCHANGED pending

ResumeTaken(t) == ResumeThread(wakes[t])

Resume(t) ==
    /\ pc[t] = "resume"
    /\ ResumeTaken(t)
    /\ wakes' = [wakes EXCEPT ![t] = NoThread]
    /\ arg' = [arg EXCEPT ![t] = NoTask]
    /\ Goto(t, Caller(t))
    /\ UNCHANGED <<listVars, taskVars, due, linked>>

-----------------------------------------------------------------------------
(* free_waitlist *)

\* No thread is in wait_waitlist before its waiting loop, and none enters it.
Free(t) ==
    /\ pc[t] = "idle"
    /\ freeing = NoThread
    /\ \A u \in Threads : pc[u] # "insert"
    /\ freeing' = t
    /\ Goto(t, "free")
    /\ UNCHANGED <<list, nr_waiting, lockflag, taskVars, callVars, due, threadVars>>

\* nrwaiting_waitlist reads nr_waiting without lockflag: others may call
\* trywakeup_waitlist between this test and the call.
FreeNext(t) ==
    /\ pc[t] = "free"
    /\ nr_waiting # 0
    /\ Goto(t, "wakeup")
    /\ UNCHANGED <<listVars, taskVars, callVars, due, threadVars>>

FreeDone(t) ==
    /\ pc[t] = "free"
    /\ nr_waiting = 0
    /\ freeing' = NoThread
    /\ Goto(t, "idle")
    /\ UNCHANGED <<list, nr_waiting, lockflag, taskVars, callVars, due, threadVars>>

-----------------------------------------------------------------------------

Step(t) == \/ InsertLast(t)
           \/ Suspend(t)
           \/ IsWakeup(t)
           \/ NoWakeup(t)
           \/ NobodyWaits(t)
           \/ TakeFirst(t)
           \/ SetTask(t)
           \/ UnlockThread(t)
           \/ Resume(t)
           \/ FreeNext(t)
           \/ FreeDone(t)

Spurious(t) == SpuriousResume(t) /\ UNCHANGED <<listVars, taskVars, callVars, pc, due>>

Next == \E t \in Threads : \/ Wait(t)
                           \/ \E m \in Tasks : TryWakeup(t, m)
                           \/ Free(t)
                           \/ LockFlag(t)
                           \/ Step(t)
                           \/ Spurious(t)

Spec == Init /\ [][Next]_vars

\* As for the other blocking objects: threads are scheduled and a spinning
\* thread finds the flag clear if it is cleared again and again.  No client
\* has to call trywakeup_waitlist or free_waitlist.
Fairness == \A t \in Threads : WF_vars(Step(t)) /\ SF_vars(LockFlag(t))

FairSpec == Spec /\ Fairness

-----------------------------------------------------------------------------
(* Properties *)

\* waitlist.h: "a woken up thread knows what to do next".  A thread which is
\* not waiting has the task of the call which took it out of the list,
\* whoever resumed it first.
TaskDelivered == \A t \in Threads : pc[t] \notin Waits => task[t] = due[t]

\* A suspended thread which left the list has its SIGINT pending or the thread
\* which removed it is about to send it, after lockflag was given up.
NoLostWakeup ==
    \A t \in Threads : pc[t] = "suspended" /\ ~linked[t]
                           => pending[t] \/ \E u \in Threads : wakes[u] = t

\* free_waitlist "wakes up all waiting threads": whoever is in the list when it
\* is called leaves the waiting loop, although others take threads out of the
\* list between its test and its wakeup.
FreeWakesAll ==
    \A t \in Threads : freeing # NoThread /\ pc[t] \in Waits ~> pc[t] \notin Waits

-----------------------------------------------------------------------------
(* The inductive invariant. *)

\* The list, its length and the wait nodes agree.
ListInv ==
    /\ IsInjective(list)
    /\ ToSet(list) = {t \in Threads : linked[t]}
    /\ nr_waiting = Len(list)
    /\ \A t \in Threads : linked[t] => pc[t] \in Waits

\* lockflag is set by a thread which spun for it.
FlagInv == \A t \in Threads : lockflag = t => pc[t] \in Spins

\* A waker and the thread it has locked: the thread is out of the list, still in
\* its waiting loop, and nobody else has locked it.
LockInv ==
    /\ \A t \in Threads : pc[t] \in Wakers => wakes[t] \in Threads
    /\ \A t \in Threads : wakes[t] # NoThread => pc[t] \in Wakers
    /\ \A t \in Threads : pc[t] \in Locks => threadlock[wakes[t]] = t
    /\ \A t, u \in Threads : threadlock[t] = u
                                 => pc[u] \in Locks /\ wakes[u] = t /\ pc[t] \in Waits /\ ~linked[t]

\* The task a waker is about to set is the one the thread is waiting for.
TaskInv ==
    /\ \A t \in Threads : pc[t] = "settask" => due[wakes[t]] = arg[t]
    /\ \A t \in Threads : pc[t] = "unlock" => due[wakes[t]] = task[wakes[t]]
    /\ \A t \in Threads : task[t] # due[t]
                              => \E u \in Threads : threadlock[t] = u /\ pc[u] = "settask"

\* What the list, the flags of the threads, their tasks and the places of the
\* threads have to do with each other after every step.
WLInv ==
    /\ TypeOK
    /\ ListInv
    /\ FlagInv
    /\ LockInv
    /\ TaskInv
    /\ TaskDelivered
    /\ NoLostWakeup

=============================================================================
