------------------------------ MODULE IOThread ------------------------------
(***************************************************************************)
(* iothread_t and its iolist_t: C-kern/io/iosys/iothread.c and iolist.c.   *)
(* Clients insert tasks into the list of the I/O thread; its worker takes  *)
(* them out one after the other, executes them and counts one event of the *)
(* eventcount_t readycount for each.  All tasks share one readycount.      *)
(*                                                                         *)
(* The worker sleeps with suspend_thread if it finds the list empty;       *)
(* insertlast_iolist resumes it only if the list was empty before, and     *)
(* after the lock of the list was released.                                *)
(*                                                                         *)
(* Granularity.  insertlast_iolist and tryremovefirst_iolist do nothing    *)
(* but change the list with lock set: each is one step.  cancelall_iolist  *)
(* counts events with lock set and is many.  Which bytes a read or write   *)
(* transfers is left out: it succeeds or fails.  iolist is the sequence of *)
(* the linked tasks; member size is its length.                            *)
(***************************************************************************)
EXTENDS Naturals, Sequences, FiniteSets, SequencesExt

CONSTANTS Clients,   \* the threads which use the iothread_t
          NoClient,
          Owner,     \* the client which calls init_iothread and free_iothread
          Tasks,     \* the iotask_t of all clients
          NoTask,    \* the null pointer
          Invalid,   \* the tasks for which isvalid_iotask is false
          MaxInsert  \* bound: tasks inserted by one call

ASSUME IOThreadAssumption == /\ IsFiniteSet(Clients) /\ IsFiniteSet(Tasks)
                             /\ Owner \in Clients
                             /\ NoClient \notin Clients
                             /\ NoTask \notin Tasks
                             /\ Invalid \subseteq Tasks
                             /\ MaxInsert \in Nat \ {0}

VARIABLES thread,        \* iothr->thread # 0
          request_stop,  \* iothr->request_stop
          iolist,        \* the tasks linked in iothr->iolist, first to last
          lock,          \* client which has iolist.lock set, outside of a step
          state,         \* state[i]: iostate_e of task i
          pending,       \* SIGINT is pending for the worker
          wpc,           \* where the worker is in ioop_worker_thread
          task,          \* local iot of the worker
          result,        \* local state of the worker
          ready,         \* the eventcount_t readycount of all tasks
          pc,            \* where a client is in the functions of both files
          alive,         \* init_iothread returned, free_iothread was not called
          cancels        \* tasks cancelall_iolist has yet to cancel

workerVars == <<wpc, task, result>>
listVars == <<iolist, lock, cancels>>
objectVars == <<thread, request_stop>>
vars == <<objectVars, listVars, state, pending, workerVars, ready, pc, alive>>

NULL == "iostate_NULL"
QUEUED == "iostate_QUEUED"
OK == "iostate_OK"
ERROR == "iostate_ERROR"
CANCELED == "iostate_CANCELED"

\* iostate_READY_MASK: the task was processed.
Ready == {OK, ERROR, CANCELED}

\* The worker has the task out of the list and has not written its state yet.
Processes == {"process", "io", "publish"}
\* A client which is about to call resume_thread for the worker.
Resumes == {"resume", "initresume", "freeresume"}

Counter == INSTANCE EventCounter WITH events <- ready

TypeOK ==
    /\ thread \in BOOLEAN /\ request_stop \in BOOLEAN /\ alive \in BOOLEAN /\ pending \in BOOLEAN
    /\ iolist \in Seq(Tasks) /\ cancels \in Seq(Tasks)
    /\ lock \in Clients \cup {NoClient}
    /\ state \in [Tasks -> {NULL, QUEUED} \cup Ready]
    /\ wpc \in {"none", "start", "loop", "remove", "sleep", "count", "ended"} \cup Processes
    /\ task \in Tasks \cup {NoTask}
    /\ result \in Ready \cup {NULL}
    /\ ready \in Nat
    /\ pc \in [Clients -> {"idle", "init", "join", "cancelall", "cancel", "cancelcount", "delete"}
                          \cup Resumes]

Init == /\ thread = FALSE /\ request_stop = FALSE /\ alive = FALSE /\ pending = FALSE
        /\ iolist = <<>> /\ cancels = <<>>
        /\ lock = NoClient
        /\ state = [i \in Tasks |-> NULL]
        /\ wpc = "none" /\ task = NoTask /\ result = NULL
        /\ ready = 0
        /\ pc = [c \in Clients |-> "idle"]

Goto(c, label) == pc' = [pc EXCEPT ![c] = label]

-----------------------------------------------------------------------------
(* ioop_worker_thread *)

\* suspend_thread() returns: the pending SIGINT is consumed.
SuspendWorker == pending /\ pending' = FALSE

\* The first loop: the worker runs as soon as init_iothread has set thread.
WorkerStart ==
    /\ wpc = "start"
    /\ SuspendWorker
    /\ wpc' = IF thread THEN "loop" ELSE "start"
    /\ UNCHANGED <<objectVars, listVars, state, task, result, ready, pc, alive>>

\* while (! request_stop)
WorkerLoop ==
    /\ wpc = "loop"
    /\ wpc' = IF request_stop THEN "ended" ELSE "remove"
    /\ UNCHANGED <<objectVars, listVars, state, pending, task, result, ready, pc, alive>>

\* tryremovefirst_iolist
RemoveTask ==
    /\ wpc = "remove"
    /\ lock = NoClient
    /\ iolist # <<>>
    /\ iolist' = Tail(iolist)
    /\ task' = Head(iolist)
    /\ wpc' = "process"
    /\ UNCHANGED <<objectVars, lock, cancels, state, pending, result, ready, pc, alive>>

RemoveNoData ==
    /\ wpc = "remove"
    /\ lock = NoClient
    /\ iolist = <<>>
    /\ wpc' = "sleep"
    /\ UNCHANGED <<objectVars, listVars, state, pending, task, result, ready, pc, alive>>

WorkerSleep ==
    /\ wpc = "sleep"
    /\ SuspendWorker
    /\ wpc' = "loop"
    /\ UNCHANGED <<objectVars, listVars, state, task, result, ready, pc, alive>>

\* An invalid task is an error even if the worker has to stop.
Process ==
    /\ wpc = "process"
    /\ IF task \in Invalid THEN wpc' = "publish" /\ result' = ERROR
       ELSE IF request_stop THEN wpc' = "publish" /\ result' = CANCELED
       ELSE wpc' = "io" /\ UNCHANGED result
    /\ UNCHANGED <<objectVars, listVars, state, pending, task, ready, pc, alive>>

\* read, pread, write or pwrite, repeated until everything is transferred.
DoIO ==
    /\ wpc = "io"
    /\ result' \in {OK, ERROR}
    /\ wpc' = "publish"
    /\ UNCHANGED <<objectVars, listVars, state, pending, task, ready, pc, alive>>

Publish ==
    /\ wpc = "publish"
    /\ state' = [state EXCEPT ![task] = result]
    /\ result' = NULL
    /\ wpc' = "count"
    /\ UNCHANGED <<objectVars, listVars, pending, task, ready, pc, alive>>

\* Mistake: only successful tasks are counted.
CountReadyBug ==
    /\ wpc = "count"
    /\ IF state[task] = OK THEN Counter!Count ELSE UNCHANGED ready
    /\ task' = NoTask
    /\ wpc' = "loop"
    /\ UNCHANGED <<objectVars, listVars, state, pending, result, pc, alive>>

\* count_eventcount(iot->readycount): iot is used after its state was published.
CountReady ==
    /\ wpc = "count"
    /\ Counter!Count
    /\ task' = NoTask
    /\ wpc' = "loop"
    /\ UNCHANGED <<objectVars, listVars, state, pending, result, pc, alive>>

-----------------------------------------------------------------------------
(* insertlast_iolist, requeststop_iothread and the wait for processed tasks *)

\* Mistake: the worker is resumed only for the first task of an empty call.
MustResumeBug(ts) == iolist = <<>> /\ Len(ts) > 1

\* "falls die Liste vor dem Einfügen leer war"
MustResume(ts) == iolist = <<>>

\* The effect of insertlast_iolist on the list and the tasks.
Link(c, ts) ==
    /\ lock = NoClient
    /\ iolist' = iolist \o ts
    /\ Goto(c, IF MustResume(ts) THEN "resume" ELSE "idle")

InsertLast(c, ts) ==
    /\ alive
    /\ pc[c] = "idle"
    /\ \A k \in DOMAIN ts : state[ts[k]] = NULL
    /\ Link(c, ts)
    /\ state' = [i \in Tasks |-> IF i \in ToSet(ts) THEN QUEUED ELSE state[i]]
    /\ UNCHANGED <<objectVars, lock, cancels, pending, workerVars, ready, alive>>

\* resume_thread(thread) after insertion and in requeststop_iothread.
ResumeWorker(c) ==
    /\ pc[c] = "resume"
    /\ pending' = TRUE
    /\ Goto(c, "idle")
    /\ UNCHANGED <<objectVars, listVars, state, workerVars, ready, alive>>

RequestStop(c) ==
    /\ alive
    /\ pc[c] = "idle"
    /\ request_stop' = TRUE
    /\ Goto(c, "resume")
    /\ UNCHANGED <<thread, listVars, state, pending, workerVars, ready, alive>>

\* wait_eventcount on the shared readycount, after which the client takes back a
\* task whose state says that it was processed, and may use it again.
TakeBack(c, i) ==
    /\ pc[c] = "idle"
    /\ Counter!Take
    /\ state[i] \in Ready
    /\ state' = [state EXCEPT ![i] = NULL]
    /\ UNCHANGED <<objectVars, listVars, pending, workerVars, pc, alive>>

-----------------------------------------------------------------------------
(* cancelall_iolist *)

\* Mistake: the node where the walk ends is left out.
CancelOrderBug(list) == Front(list)

\* The walk starts with member last and goes on with the first task.
CancelOrder(list) == IF list = <<>> THEN <<>> ELSE <<Last(list)>> \o Front(list)

CancelAll(c) ==
    /\ alive
    /\ pc[c] = "idle"
    /\ Goto(c, "cancelall")
    /\ UNCHANGED <<objectVars, listVars, state, pending, workerVars, ready, alive>>

CancelStart(c) ==
    /\ pc[c] = "cancelall"
    /\ lock = NoClient
    /\ lock' = c
    /\ cancels' = CancelOrder(iolist)
    /\ iolist' = <<>>
    /\ Goto(c, "cancel")
    /\ UNCHANGED <<objectVars, state, pending, workerVars, ready, alive>>

CancelState(c) ==
    /\ pc[c] = "cancel"
    /\ cancels # <<>>
    /\ state' = [state EXCEPT ![Head(cancels)] = CANCELED]
    /\ Goto(c, "cancelcount")
    /\ UNCHANGED <<objectVars, listVars, pending, workerVars, ready, alive>>

CancelCount(c) ==
    /\ pc[c] = "cancelcount"
    /\ Counter!Count
    /\ cancels' = Tail(cancels)
    /\ Goto(c, "cancel")
    /\ UNCHANGED <<objectVars, iolist, lock, state, pending, workerVars, alive>>

\* After free_iothread has called it, the worker is deleted.
CancelEnd(c) ==
    /\ pc[c] = "cancel"
    /\ cancels = <<>>
    /\ lock' = NoClient
    /\ Goto(c, IF alive THEN "idle" ELSE "delete")
    /\ UNCHANGED <<objectVars, iolist, cancels, state, pending, workerVars, ready, alive>>

-----------------------------------------------------------------------------
(* init_iothread and free_iothread *)

\* newgeneric_thread: the worker runs with thread = 0.
InitThread ==
    /\ ~alive
    /\ pc[Owner] = "idle"
    /\ wpc' = "start"
    /\ Goto(Owner, "init")
    /\ UNCHANGED <<objectVars, listVars, state, pending, task, result, ready, alive>>

InitSet ==
    /\ pc[Owner] = "init"
    /\ request_stop' = FALSE
    /\ iolist' = <<>>
    /\ thread' = TRUE
    /\ Goto(Owner, "initresume")
    /\ UNCHANGED <<lock, cancels, state, pending, workerVars, ready, alive>>

InitResume ==
    /\ pc[Owner] = "initresume"
    /\ pending' = TRUE
    /\ alive' = TRUE
    /\ Goto(Owner, "idle")
    /\ UNCHANGED <<objectVars, listVars, state, workerVars, ready>>

\* "garantiert, daß kein anderer Thread mehr Zugriff auf iothr [...] hat":
\* no client is in a call, and none is started.
Free ==
    /\ alive
    /\ \A c \in Clients : pc[c] = "idle"
    /\ alive' = FALSE
    /\ request_stop' = TRUE
    /\ Goto(Owner, "freeresume")
    /\ UNCHANGED <<thread, listVars, state, pending, workerVars, ready>>

FreeResume ==
    /\ pc[Owner] = "freeresume"
    /\ pending' = TRUE
    /\ Goto(Owner, "join")
    /\ UNCHANGED <<objectVars, listVars, state, workerVars, ready, alive>>

\* Where free_iothread continues after join_thread.  Mistake: no cancelall.
AfterJoinBug == "delete"

AfterJoin == "cancelall"

\* join_thread returns.
FreeJoin ==
    /\ pc[Owner] = "join"
    /\ wpc = "ended"
    /\ wpc' = "none"
    /\ pending' = FALSE
    /\ Goto(Owner, AfterJoin)
    /\ UNCHANGED <<objectVars, listVars, state, task, result, ready, alive>>

FreeDelete ==
    /\ pc[Owner] = "delete"
    /\ thread' = FALSE
    /\ Goto(Owner, "idle")
    /\ UNCHANGED <<request_stop, listVars, state, pending, workerVars, ready, alive>>

-----------------------------------------------------------------------------

WorkerStep == \/ WorkerStart
              \/ WorkerLoop
              \/ RemoveTask
              \/ RemoveNoData
              \/ WorkerSleep
              \/ Process
              \/ DoIO
              \/ Publish
              \/ CountReady

CancelStep(c) == \/ CancelStart(c)
                 \/ CancelState(c)
                 \/ CancelCount(c)
                 \/ CancelEnd(c)

\* Steps of init_iothread and free_iothread after their call.
OwnerStep == \/ InitSet
             \/ InitResume
             \/ FreeResume
             \/ FreeJoin
             \/ FreeDelete

\* A SIGINT from outside of the process.
Spurious == /\ wpc \in {"start", "sleep"}
            /\ ~pending
            /\ pending' = TRUE
            /\ UNCHANGED <<objectVars, listVars, state, workerVars, ready, pc, alive>>

\* The arrays of tasks a client passes to insertlast_iolist.
Arrays == {ts \in SeqOf(Tasks, MaxInsert) : ts # <<>> /\ IsInjective(ts)}

Next == \/ WorkerStep
        \/ OwnerStep
        \/ InitThread
        \/ Free
        \/ Spurious
        \/ \E c \in Clients : \/ \E ts \in Arrays : InsertLast(c, ts)
                              \/ \E i \in Tasks : TakeBack(c, i)
                              \/ RequestStop(c)
                              \/ ResumeWorker(c)
                              \/ CancelAll(c)
                              \/ CancelStep(c)

Spec == Init /\ [][Next]_vars

\* Threads are scheduled and an operation of the kernel ends.  Nobody has to call
\* free_iothread.
Fairness == /\ WF_vars(WorkerStep)
            /\ WF_vars(OwnerStep)
            /\ \A c \in Clients : WF_vars(ResumeWorker(c)) /\ SF_vars(CancelStep(c))

FairSpec == Spec /\ Fairness

-----------------------------------------------------------------------------
(* Properties *)

\* No insertion and no request to stop is slept through: if the worker is, or is
\* about to be, suspended although there is something to do, its SIGINT is
\* pending or about to be sent.
WorkerAwake ==
    wpc = "sleep" /\ (iolist # <<>> \/ request_stop)
        => pending \/ \E c \in Clients : pc[c] \in Resumes

\* Nothing is lost or executed twice: a queued task is in exactly one of the
\* list, the hands of the worker and those of cancelall_iolist.
Held == IF wpc \in Processes THEN <<task>> ELSE <<>>
Canceling == IF \E c \in Clients : pc[c] = "cancelcount" THEN Tail(cancels) ELSE cancels

TasksTracked ==
    LET places == iolist \o Held \o Canceling
    IN  /\ IsInjective(places)
        /\ ToSet(places) = {i \in Tasks : state[i] = QUEUED}

\* "Pro fertig bearbeitetem iotask_t wird der counter um eins inkrementiert":
\* the events nobody took, and those about to be counted, are the tasks which
\* were processed and not taken back.
Counting == Cardinality({c \in Clients : pc[c] = "cancelcount"}) + (IF wpc = "count" THEN 1 ELSE 0)

EventPerTask == ready + Counting = Cardinality({i \in Tasks : state[i] \in Ready})

\* Every inserted task is processed or canceled, by the worker or, if the worker was
\* stopped, by free_iothread: only with a stopped worker, and as long as nobody
\* calls free_iothread, a task stays queued.
EveryTaskProcessed ==
    \A i \in Tasks : state[i] = QUEUED ~> state[i] # QUEUED \/ (request_stop /\ alive)

\* iothread.h, requeststop_iothread: "alle weiteren noch nicht ausgeführten werden
\* storniert": a worker which stops leaves no task queued, without free_iothread.
StopCancelsTasks ==
    \A i \in Tasks : request_stop /\ wpc # "ended" /\ state[i] = QUEUED ~> state[i] # QUEUED

\* iothread.h, insertiotask_iothread: the iothread_t co-owns a task "nur solange,
\* bis iot bearbeitet wurde.  Dann liegt es automatisch wieder beim Aufrufer":
\* the worker does not use a task the caller has taken back.
NoUseAfterReturn == wpc = "count" => state[task] \in Ready

-----------------------------------------------------------------------------
(* The inductive invariant *)

\* The lock of the list belongs to the client which cancels its tasks; who is
\* about to count has cancelled one.
CancelInv ==
    /\ \A c \in Clients : lock = c <=> pc[c] \in {"cancel", "cancelcount"}
    /\ lock = NoClient => cancels = <<>>
    /\ \A c \in Clients : pc[c] = "cancelcount" => cancels # <<>>

\* The worker has a task from its removal until the event is counted, and knows
\* its new state before it publishes it.
WorkerInv ==
    /\ wpc \in Processes \cup {"count"} => task \in Tasks
    /\ wpc = "publish" => result \in Ready

\* A worker which has not tested request_stop again is resumed by who set it.
StopInv ==
    wpc = "remove" /\ request_stop => pending \/ \E c \in Clients : pc[c] \in Resumes

\* Only the owner is in a function while the object is initialized or freed; there
\* is a worker until it was joined, and no task is left behind for the next one.
LifeInv ==
    /\ \A c \in Clients \ {Owner} : pc[c] \in {"idle", "resume", "cancelall", "cancel", "cancelcount"}
    /\ ~alive => \A c \in Clients \ {Owner} : pc[c] = "idle"
    /\ alive => pc[Owner] \in {"idle", "resume", "cancelall", "cancel", "cancelcount"}
    /\ ~alive => pc[Owner] # "resume"
    /\ wpc = "none" <=> ~alive /\ pc[Owner] \in {"idle", "cancelall", "cancel", "cancelcount", "delete"}
    /\ ~alive /\ pc[Owner] \notin {"freeresume", "join", "cancelall"} => iolist = <<>>

\* TasksTracked, for each place on its own.
PlacesInv ==
    /\ IsInjective(iolist)
    /\ IsInjective(Canceling)
    /\ ToSet(iolist) \cap ToSet(Canceling) = {}
    /\ wpc \in Processes => task \notin ToSet(iolist) \cup ToSet(Canceling)
    /\ {i \in Tasks : state[i] = QUEUED} =
           ToSet(iolist) \cup ToSet(Canceling) \cup {i \in Tasks : wpc \in Processes /\ i = task}

\* What the list, the lock, the tasks and the places of worker and clients have to
\* do with each other after every step.
ThreadInv ==
    /\ TypeOK
    /\ CancelInv
    /\ WorkerInv
    /\ StopInv
    /\ LifeInv
    /\ WorkerAwake
    /\ PlacesInv

\* The events are apart from it: a client may use them in its own way (IOStream).
IOInv == ThreadInv /\ EventPerTask

=============================================================================
