---------------------------- MODULE WaitsInTurn -----------------------------
(***************************************************************************)
(* The threads of a program use an eventcount_t and, when it was freed, a  *)
(* waitlist_t.  SIGINT and its pending bit belong to the thread and not to *)
(* the object: wait_eventcount may return by its timeout before it is      *)
(* resumed by the thread which took it out of the list, and the SIGINT is  *)
(* found pending by wait_waitlist.                                         *)
(*                                                                         *)
(* linked and wlinked are the one wait.next of a thread: the list it is    *)
(* linked into belongs to the object in use.                               *)
(***************************************************************************)
EXTENDS EventCount

CONSTANTS Tasks, NoTask

ASSUME NoTaskAssumption == NoTask \notin Tasks

VARIABLES wlist, nr_waiting, wflag, threadlock, task, wpc, arg, wwakes, freeing, due, wlinked,
          inUse  \* the object the threads use

TaskList == INSTANCE WaitList
                WITH list <- wlist, lockflag <- wflag, pc <- wpc, wakes <- wwakes, linked <- wlinked

taskListVars == <<wlist, nr_waiting, wflag, threadlock, task, wpc, arg, wwakes, freeing, due, wlinked>>
eventVars == <<counterVars, pc, history, linked>>
allVars == <<vars, taskListVars, inUse>>

OnEventCount(A) == inUse = "eventcount" /\ A /\ UNCHANGED <<taskListVars, inUse>>
OnWaitList(A)   == inUse = "waitlist"   /\ A /\ UNCHANGED <<eventVars, inUse>>

InTurnInit == Init /\ TaskList!Init /\ inUse = "eventcount"

\* Nobody is in a function of eventcount.c, and free_eventcount has left the
\* object as it was initialized.
UseWaitList ==
    /\ inUse = "eventcount"
    /\ \A t \in Threads : pc[t] = "idle"
    /\ nrevents = 0 /\ counted = 0 /\ granted = 0 /\ ~crossed
    /\ inUse' = "waitlist"
    /\ UNCHANGED <<vars, taskListVars>>

InTurnNext == \/ OnEventCount(Next)
              \/ UseWaitList
              \/ OnWaitList(TaskList!Next)

\* The fairness of both modules.  Only the object in use has steps, so it is
\* the same to be fair to the steps of a thread, whatever object they are of.
\* Each of them changes one of the variables in the subscript.
InTurnFairness ==
    \A t \in Threads :
        /\ WF_<<pc, wpc>>(OnEventCount(Step(t)) \/ OnWaitList(TaskList!Step(t)))
        /\ SF_<<lockflag, wflag>>(OnEventCount(LockCounter(t)) \/ OnWaitList(TaskList!LockFlag(t)))

InTurnSpec == InTurnInit /\ [][InTurnNext]_allVars /\ InTurnFairness

-----------------------------------------------------------------------------
(* The properties of WaitList, after the threads have used an eventcount_t *)

\* The inductive invariant of waitlist.c.
WLInv == TaskList!WLInv

\* free_waitlist wakes up all waiting threads.
FreeWakesAll == TaskList!FreeWakesAll

=============================================================================
