----------------------------- MODULE SyncRunner -----------------------------
(***************************************************************************)
(* syncrunner_t: C-kern/task/syncrunner.c with C-kern/api/task/syncfunc.h  *)
(* and syncwait.h.  A cooperative scheduler of one thread.  Functions are  *)
(* stored in two queues: RUN (executed once by every run_syncrunner) and   *)
(* WAIT (linked into the list of a syncwait_t until it is woken up).  A    *)
(* function moves between the queues without being able to fail, because   *)
(* addfunc_syncrunner reserves the room for every later move.              *)
(*                                                                         *)
(* run_syncrunner and terminate_syncrunner are cut into steps where they   *)
(* call a function: while it is called, the function may add functions and *)
(* wake up others, any number of times, before it yields, waits or exits.  *)
(* Those calls are the same as the ones the client makes between two runs. *)
(*                                                                         *)
(* A node of a wait list is the slot of the WAIT queue which contains it.  *)
(***************************************************************************)
EXTENDS SyncQueue

CONSTANTS Waits,     \* the wait conditions, objects of type syncwait_t
          CanFail    \* whether the page cache may fail to (de)allocate a page

ASSUME SyncRunnerAssumption == CanFail \in BOOLEAN

VARIABLES run,          \* sq[RUN_QID]
          wait,         \* sq[WAIT_QID]
          waitlist,     \* waitlist[w]: nodes in w.funclist
          wakeup,       \* nodes in srun->wakeup
          shadow,       \* local wakeup of process_wakeuplist
          phase,        \* what run_syncrunner or terminate_syncrunner does
          cursor,       \* slot of the function which is called
          last,         \* number of slots when the loop over them started
          isterminate,  \* srun->isterminate; srun->isrun is phase # "idle"
          due           \* history: functions this run still has to call

lists == <<waitlist, wakeup, shadow>>
control == <<phase, cursor, last, isterminate>>
vars == <<run, wait, lists, control, due>>

isrun == phase # "idle"

\* Everything which is stored in a queue.
Stored == {run.slot[i] : i \in Live(run)} \cup {wait.slot[i] : i \in Live(wait)}

Queues == [size : Nat, slot : Seq(Funcs \cup {NoFunc}), firstfree : Nat,
           nextfree : 0..N, nrfree : Nat, freelist : Seq(Nat \ {0}), freelist_size : Nat]

TypeOK == /\ run \in Queues
          /\ wait \in Queues
          /\ waitlist \in [Waits -> Seq(Nat \ {0})]
          /\ wakeup \in Seq(Nat \ {0})
          /\ shadow \in Seq(Nat \ {0})
          /\ phase \in {"idle", "run", "compact", "wakeup", "endrun", "endwait"}
          /\ cursor \in Nat
          /\ last \in Nat
          /\ isterminate \in BOOLEAN
          /\ due \subseteq Funcs

\* init_syncrunner
Init == /\ run = EmptyQueue
        /\ wait = EmptyQueue
        /\ waitlist = [w \in Waits |-> <<>>]
        /\ wakeup = <<>>
        /\ shadow = <<>>
        /\ phase = "idle"
        /\ cursor = 0
        /\ last = 0
        /\ isterminate = FALSE
        /\ due = {}

-----------------------------------------------------------------------------
(* Reserving and giving back pages *)

\* growqueues_syncrunner: which queue has to grow for one more function.
NeedsRun  == Inuse(wait) >= Nrfree(run)
NeedsWait == Inuse(run) >= Nrfree(wait)

\* shrinkqueues_syncrunner: a page is given back if the functions of the other
\* queue still find room.  Mistake: the other queue is not looked at.
SpareWaitBug(r, w) == N < Nrfree(w)

SpareRun(r, w)  == N < Nrfree(r) /\ Inuse(w) < Nrfree(r) - N
SpareWait(r, w) == N < Nrfree(w) /\ Inuse(r) < Nrfree(w) - N

ShrunkRun(r, w) == IF SpareRun(r, w) THEN Shrink(Compact(r)) ELSE r
ShrunkWait(r, w) == IF SpareWait(r, w) THEN Shrink(Compact(w)) ELSE w

\* A list of wait nodes after the WAIT queue was compacted, or not.
Relinked(r, w, list) == IF SpareWait(r, w) THEN Relink(w, list) ELSE list

\* shrinkqueues_syncrunner called with the queues r and w returns 0.
ShrinkQueues(r, w) ==
    /\ run' = ShrunkRun(r, w)
    /\ wait' = ShrunkWait(r, w)
    /\ waitlist' = [v \in Waits |-> Relinked(r, w, waitlist[v])]

\* It returns an error.  If the page cache does not take back the page of the
\* RUN queue the WAIT queue is not looked at.  The page is lost to the queue
\* in any case.
ShrinkQueuesFails(r, w) ==
    /\ CanFail
    /\ \/ /\ SpareRun(r, w)
          /\ run' = ShrunkRun(r, w)
          /\ wait' = w
          /\ UNCHANGED <<waitlist, wakeup>>
       \/ /\ SpareWait(r, w)
          /\ ShrinkQueues(r, w)
          /\ wakeup' = Relinked(r, w, wakeup)

-----------------------------------------------------------------------------
(* addfunc_syncrunner *)

Accepts == ~isterminate

AddFunc(f) ==
    /\ Accepts
    /\ f \notin Stored
    /\ run' = SfAlloc(IF NeedsRun THEN Grow(run) ELSE run, f)
    /\ wait' = IF NeedsWait THEN Grow(wait) ELSE wait
    /\ UNCHANGED <<lists, control, due>>

\* The RUN queue has grown but no page is left for the WAIT queue.
AddFuncNoMem ==
    /\ CanFail
    /\ Accepts
    /\ NeedsRun /\ NeedsWait
    /\ run' = Grow(run)
    /\ UNCHANGED <<wait, lists, control, due>>

-----------------------------------------------------------------------------
(* wakeup_syncrunner, wakeupall_syncrunner *)

Wakeup(w) ==
    /\ waitlist[w] # <<>>
    /\ waitlist' = [waitlist EXCEPT ![w] = Tail(@)]
    /\ wakeup' = Append(wakeup, Head(waitlist[w]))
    /\ UNCHANGED <<run, wait, shadow, control, due>>

\* splice_linkd.  Mistake: the functions of the condition go first.
SplicedBug(list, more) == more \o list

Spliced(list, more) == list \o more

WakeupAll(w) ==
    /\ waitlist[w] # <<>>
    /\ waitlist' = [waitlist EXCEPT ![w] = <<>>]
    /\ wakeup' = Spliced(wakeup, waitlist[w])
    /\ UNCHANGED <<run, wait, shadow, control, due>>

-----------------------------------------------------------------------------
(* run_syncrunner: the loop over the RUN queue in exec_syncrunner *)

\* The last slot the loop visits is fixed before the first call.  Mistake:
\* every slot of every page.
LoopEndBug == run.size

LoopEnd == Used(run)

Run ==
    /\ phase = "idle"
    /\ phase' = "run"
    /\ cursor' = 1
    /\ last' = LoopEnd
    /\ due' = {run.slot[i] : i \in Live(run)}
    /\ UNCHANGED <<run, wait, lists, isterminate>>

\* The loop calls the function in slot cursor, without looking at mainfct.
Calls == phase = "run" /\ cursor <= last
Called == due' = due \ {run.slot[cursor]} /\ cursor' = cursor + 1

\* yield_syncfunc
RunYield ==
    /\ Calls
    /\ Called
    /\ UNCHANGED <<run, wait, lists, phase, last, isterminate>>

\* wait_syncfunc -> waitsf_runimpl
RunWait(w) ==
    /\ Calls
    /\ wait' = SfAlloc(wait, run.slot[cursor])
    /\ waitlist' = [waitlist EXCEPT ![w] = Append(@, AllocSlot(wait))]
    /\ run' = SfFree(run, cursor)
    /\ Called
    /\ UNCHANGED <<wakeup, shadow, phase, last, isterminate>>

\* exit_syncfunc, end_syncfunc -> exitsf_runimpl
RunExit ==
    /\ Calls
    /\ run' = SfFree(run, cursor)
    /\ Called
    /\ UNCHANGED <<wait, lists, phase, last, isterminate>>

\* After the loop: while (freelist_size) compact_sq.
LoopDone == phase \in {"run", "compact"} /\ cursor > last

HasHoles == run.freelist_size # 0

CompactRound ==
    /\ LoopDone
    /\ HasHoles
    /\ run' = Compact(run)
    /\ phase' = "compact"
    /\ UNCHANGED <<wait, lists, cursor, last, isterminate, due>>

\* If there were holes and many slots are free pages are given back; then the
\* nodes which are woken up until now are called, if there are any.
GivesBack == phase = "compact" /\ run.nrfree > N

\* Mistake: the wakeup list is processed only after a run without holes.
AfterRunBug == IF wakeup = <<>> \/ phase = "compact" THEN "idle" ELSE "wakeup"

AfterRun == IF wakeup = <<>> THEN "idle" ELSE "wakeup"

RunDone ==
    /\ LoopDone
    /\ ~HasHoles
    /\ IF GivesBack
       THEN ShrinkQueues(run, wait) /\ shadow' = Relinked(run, wait, wakeup)
       ELSE UNCHANGED <<run, wait, waitlist>> /\ shadow' = wakeup
    /\ wakeup' = <<>>
    /\ phase' = AfterRun
    /\ UNCHANGED <<cursor, last, isterminate, due>>

\* The error of shrinkqueues_syncrunner ends the run: woken functions have to
\* wait for the next one.
RunFails ==
    /\ LoopDone
    /\ ~HasHoles
    /\ GivesBack
    /\ ShrinkQueuesFails(run, wait)
    /\ phase' = "idle"
    /\ UNCHANGED <<shadow, cursor, last, isterminate, due>>

-----------------------------------------------------------------------------
(* process_wakeuplist: calls the functions of the shadow list *)

Woken == phase = "wakeup" /\ shadow # <<>>

\* The function yields: it moves to the RUN queue.
WakeYield ==
    /\ Woken
    /\ run' = SfAlloc(run, wait.slot[Head(shadow)])
    /\ wait' = SfFree(wait, Head(shadow))
    /\ shadow' = Tail(shadow)
    /\ UNCHANGED <<waitlist, wakeup, control, due>>

\* waitsf_waitimpl: it stays in the WAIT queue.
WakeWait(w) ==
    /\ Woken
    /\ waitlist' = [waitlist EXCEPT ![w] = Append(@, Head(shadow))]
    /\ shadow' = Tail(shadow)
    /\ UNCHANGED <<run, wait, wakeup, control, due>>

\* exitsf_waitimpl
WakeExit ==
    /\ Woken
    /\ wait' = SfFree(wait, Head(shadow))
    /\ shadow' = Tail(shadow)
    /\ UNCHANGED <<run, waitlist, wakeup, control, due>>

WakeDone ==
    /\ phase = "wakeup" /\ shadow = <<>>
    /\ phase' = "idle"
    /\ IF wait.freelist_size > N
       THEN \/ ShrinkQueues(run, wait) /\ wakeup' = Relinked(run, wait, wakeup)
            \/ ShrinkQueuesFails(run, wait)
       ELSE UNCHANGED <<run, wait, waitlist, wakeup>>
    /\ UNCHANGED <<shadow, cursor, last, isterminate, due>>

-----------------------------------------------------------------------------
(* terminate_syncrunner *)

Terminate ==
    /\ phase = "idle"
    /\ isterminate' = TRUE
    /\ phase' = "endrun"
    /\ cursor' = 1
    /\ last' = Used(run)
    /\ UNCHANGED <<run, wait, lists, due>>

\* END_SYNCFUNC for a function of the RUN queue; slots which are empty are
\* skipped.  exitsf_terminateimpl only clears mainfct.
EndRun ==
    /\ phase = "endrun" /\ cursor <= last
    /\ run' = [run EXCEPT !.slot[cursor] = NoFunc]
    /\ cursor' = cursor + 1
    /\ UNCHANGED <<wait, lists, phase, last, isterminate, due>>

EndRunDone ==
    /\ phase = "endrun" /\ cursor > last
    /\ phase' = "endwait"
    /\ cursor' = 1
    /\ last' = Used(wait)
    /\ UNCHANGED <<run, wait, lists, isterminate, due>>

\* END_SYNCFUNC for a function of the WAIT queue; unlink_syncfunc removes its
\* node from whatever list it is in.
EndWait ==
    /\ phase = "endwait" /\ cursor <= last
    /\ wait' = [wait EXCEPT !.slot[cursor] = NoFunc]
    /\ IF wait.slot[cursor] # NoFunc
       THEN /\ waitlist' = [w \in Waits |-> Without(waitlist[w], cursor)]
            /\ wakeup' = Without(wakeup, cursor)
       ELSE UNCHANGED <<waitlist, wakeup>>
    /\ cursor' = cursor + 1
    /\ UNCHANGED <<run, shadow, phase, last, isterminate, due>>

\* clearqueue_syncrunner for both queues; the wakeup list is reset.
Terminated ==
    /\ phase = "endwait" /\ cursor > last
    /\ run' = EmptyQueue
    /\ wait' = EmptyQueue
    /\ wakeup' = <<>>
    /\ isterminate' = FALSE
    /\ phase' = "idle"
    /\ UNCHANGED <<waitlist, shadow, cursor, last, due>>

-----------------------------------------------------------------------------

\* free_syncrunner, and init_syncrunner for the next use.  Functions which are still
\* stored are forgotten without being ended; the client gives up the conditions
\* they wait for.
Free ==
    /\ phase = "idle"
    /\ run' = EmptyQueue
    /\ wait' = EmptyQueue
    /\ waitlist' = [w \in Waits |-> <<>>]
    /\ wakeup' = <<>>
    /\ UNCHANGED <<shadow, control, due>>

-----------------------------------------------------------------------------

\* The client between two runs or a function which is being called.
CallerActive == \/ phase = "idle"
                \/ phase = "run" /\ cursor <= last
                \/ phase = "wakeup" /\ shadow # <<>>
                \/ phase = "endrun" /\ cursor <= last
                \/ phase = "endwait" /\ cursor <= last /\ wait.slot[cursor] # NoFunc

ClientStep == /\ CallerActive
              /\ \/ \E f \in Funcs : AddFunc(f)
                 \/ AddFuncNoMem
                 \/ \E w \in Waits : Wakeup(w) \/ WakeupAll(w)

\* Steps of run_syncrunner after it was called.
RunStep == \/ RunYield
           \/ \E w \in Waits : RunWait(w)
           \/ RunExit
           \/ CompactRound
           \/ RunDone
           \/ RunFails
           \/ WakeYield
           \/ \E w \in Waits : WakeWait(w)
           \/ WakeExit
           \/ WakeDone

TerminateStep == EndRun \/ EndRunDone \/ EndWait \/ Terminated

Next == ClientStep \/ Run \/ RunStep \/ Terminate \/ TerminateStep \/ Free

Spec == Init /\ [][Next]_vars

\* The thread of the syncrunner_t calls run_syncrunner again and again, every
\* function returns, and the page cache does not refuse for ever to take back
\* pages at the end of the loop.
Fairness == /\ WF_vars(Run) /\ WF_vars(RunStep) /\ WF_vars(TerminateStep)
            /\ SF_vars(RunDone)

FairSpec == Spec /\ Fairness

-----------------------------------------------------------------------------
(* Properties *)

\* "ensure that moving between queues is always possible": every function of
\* one queue finds room in the other, so the assert(sq->nrfree) of sfalloc_sq
\* cannot fail, whatever is added, moved, compacted and given back between.
MovePossible ==
    ~isterminate => /\ Inuse(wait) <= Nrfree(run)
                    /\ Inuse(run) <= Nrfree(wait)

\* Between two runs the RUN queue has no holes: exec_syncrunner calls mainfct
\* of every slot without a test for 0.
NoHoles == phase = "idle" => run.freelist_size = 0

\* Both queues keep the invariants stated at the top of syncrunner.c through
\* every move and compaction, except while terminate_syncrunner clears mainfct
\* without freeing the slot; and a run starts without holes.
QueuesOK == ~isterminate => QueueOK(run) /\ QueueOK(wait) /\ NoHoles

\* run_syncrunner calls every function exactly once: the slots the loop has
\* still to visit hold the functions due, although functions exit, wait, are
\* added and reuse slots while the loop runs.
RunsEachOnce ==
    phase = "run" => /\ \A i \in cursor..last : run.slot[i] # NoFunc
                     /\ {run.slot[i] : i \in cursor..last} = due
                     /\ Cardinality(due) = last - cursor + 1

\* No function is lost or doubled: every function is stored in one slot, and a
\* function of the WAIT queue is linked into exactly one list, even after
\* compact_sq moved it to another slot.
NoFunctionLost ==
    /\ \A i, j \in Live(run) : run.slot[i] = run.slot[j] => i = j
    /\ \A i, j \in Live(wait) : wait.slot[i] = wait.slot[j] => i = j
    /\ \A i \in Live(run), j \in Live(wait) : run.slot[i] # wait.slot[j]
    /\ Live(wait) = ToSet(wakeup) \cup ToSet(shadow) \cup UNION {ToSet(waitlist[w]) : w \in Waits}
    /\ IsInjective(wakeup) /\ IsInjective(shadow) /\ \A w \in Waits : IsInjective(waitlist[w])
    /\ ToSet(wakeup) \cap ToSet(shadow) = {}
    /\ \A w \in Waits : ToSet(waitlist[w]) \cap (ToSet(wakeup) \cup ToSet(shadow)) = {}
    /\ \A v, w \in Waits : v # w => ToSet(waitlist[v]) \cap ToSet(waitlist[w]) = {}

\* terminate_syncrunner ends all functions: nothing is stored when it clears
\* the queues and no wait condition refers to a slot of a released page.
TerminateEndsAll ==
    [][ Terminated => Stored = {} /\ \A w \in Waits : waitlist[w] = <<>> ]_vars

\* f is in the WAIT queue but waits for no condition.
WaitsForCall(f) == \E i \in Live(wait) : /\ wait.slot[i] = f
                                         /\ \A w \in Waits : i \notin ToSet(waitlist[w])

\* A function which was woken up is called some time: it moves to the RUN queue,
\* waits for a condition again or ends, although an error of
\* shrinkqueues_syncrunner may end any number of runs before the wakeup list is
\* read, as long as not every run fails.
WokenRuns ==
    \A f \in Funcs : (\E i \in ToSet(wakeup) : wait.slot[i] = f) ~> ~WaitsForCall(f)

\* What the functions see of the queues: those of the lists in their order, and
\* no slots.
SlotFuncs(q) == {q.slot[i] : i \in Live(q)}
ListFuncs(q, list) == [k \in DOMAIN list |-> q.slot[list[k]]]

ReadyFuncs == SlotFuncs(run)
WaitingFuncs == [w \in Waits |-> ListFuncs(wait, waitlist[w])]
WokenFuncs == ListFuncs(wait, wakeup)
CallingFuncs == ListFuncs(wait, shadow)
Mode == CASE phase = "compact" -> "run"
          [] phase \in {"endrun", "endwait"} -> "terminate"
          [] OTHER -> phase

Scheduler == INSTANCE FunctionScheduler WITH
    ready <- ReadyFuncs, waiting <- WaitingFuncs, woken <- WokenFuncs,
    calling <- CallingFuncs, mode <- Mode

\* Neither moving functions between the queues, nor compacting them, nor pages
\* which are given back, nor failures of the page cache can be seen by the
\* functions: the order in which they wait and are woken up is kept, and all of
\* them are called as "Führt alle gespeicherten syncfunc_t genau einmal aus" says.
ImplementsScheduler == Scheduler!Spec

-----------------------------------------------------------------------------
(* The inductive invariant *)

\* The wakeup list is read into the shadow list only after the loop; the loop
\* visits slots which were handed out, and compact_sq closes all holes after it.
PhaseInv ==
    /\ isterminate <=> phase \in {"endrun", "endwait"}
    /\ phase # "wakeup" => shadow = <<>>
    /\ phase = "run" => cursor \in 1..(last + 1) /\ last <= Used(run)
    /\ phase \in {"idle", "wakeup"} => run.freelist_size = 0

\* While functions are ended the slots before cursor are empty already.
TerminateInv ==
    /\ phase = "endrun" => /\ \A i \in Live(run) : i \in cursor..last
                           /\ \A i \in Live(wait) : i <= Used(wait)
    /\ phase = "endwait" => /\ Live(run) = {}
                            /\ \A i \in Live(wait) : i \in cursor..last

RunnerInv ==
    /\ TypeOK
    /\ PhaseInv
    /\ QueuesOK
    /\ MovePossible
    /\ RunsEachOnce
    /\ NoFunctionLost
    /\ TerminateInv

=============================================================================
