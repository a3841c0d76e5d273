--------------------------- MODULE IOSystemProofs ---------------------------
(***************************************************************************)
(* Proofs about IOThread, for any finite sets of clients and tasks and any *)
(* number of tasks inserted by one call, and about IOStream, for any number*)
(* and size of buffers.                                                    *)
(*                                                                         *)
(* The first part is about IOThread alone.  ThreadInv and IOInv are        *)
(* inductive: one lemma for every action, cited by the theorem IOInvariant.*)
(* The lemmas show ThreadInv without using EventPerTask, as IOStream takes *)
(* events in another way.  The second part shows that StreamInv, the       *)
(* invariant of the ring of buffers, and FilledInv are inductive.          *)
(***************************************************************************)
EXTENDS IOStream, WaitListLemmas, FiniteSetTheorems

\* Abbreviations of variables and of the place of a client.
USE DEF objectVars, listVars, workerVars, Goto

\* Clients in cancelall_iolist which cancelled a task and have to count it.
CountingClients == {c \in Clients : pc[c] = "cancelcount"}
\* The tasks which were processed and not taken back.
Processed == {i \in Tasks : state[i] \in Ready}

\* Every set of clients or tasks can be counted.
LEMMA FiniteClientsAndTasks ==
    /\ \A S : S \subseteq Clients => IsFiniteSet(S) /\ Cardinality(S) \in Nat
    /\ \A S : S \subseteq Tasks => IsFiniteSet(S) /\ Cardinality(S) \in Nat
BY IOThreadAssumption, FS_Subset, FS_CardinalityType

\* The tasks which are to be cancelled form a list.
LEMMA CancelingIsList ==
    ASSUME TypeOK, CancelInv
    PROVE  Canceling \in Seq(Tasks)
BY DEF TypeOK, CancelInv, Canceling

\* Steps which neither move a task nor count an event.
LEMMA Frame ==
    ASSUME ThreadInv,
           UNCHANGED <<iolist, cancels, state, ready>>,
           \A c \in Clients : pc'[c] = "cancelcount" <=> pc[c] = "cancelcount",
           wpc' = "count" <=> wpc = "count",
           wpc' \in Processes <=> wpc \in Processes,
           wpc \in Processes => task' = task
    PROVE  PlacesInv' /\ (EventPerTask => EventPerTask')
<1>1. Canceling' = Canceling
  BY DEF Canceling
<1>2. PlacesInv'
  BY <1>1 DEF ThreadInv, PlacesInv
<1>3. CountingClients' = CountingClients /\ Processed' = Processed
  BY DEF CountingClients, Processed
<1>4. EventPerTask => EventPerTask'
  BY <1>3 DEF EventPerTask, Counting, CountingClients, Processed
<1> QED BY <1>2, <1>4

\* Before init_iothread there is no worker, no task and no event.
LEMMA InitInv == Init => IOInv
<1> SUFFICES ASSUME Init PROVE IOInv
  OBVIOUS
<1> USE IOThreadAssumption DEF Init
<1>1. TypeOK
  <2>1. <<>> \in Seq(Tasks)
    OBVIOUS
  <2> QED BY <2>1 DEF TypeOK
<1>2. CancelInv /\ WorkerInv /\ StopInv /\ WorkerAwake /\ LifeInv
  BY DEF CancelInv, WorkerInv, StopInv, WorkerAwake, LifeInv, Processes
<1>3. PlacesInv
  <2>1. Canceling = <<>>
    BY DEF Canceling
  <2> QED BY <2>1, EmptyList DEF PlacesInv, NULL, QUEUED
<1>4. EventPerTask
  <2>1. CountingClients = {} /\ Processed = {}
    BY DEF CountingClients, Processed, Ready, NULL, OK, ERROR, CANCELED
  <2>2. Cardinality(CountingClients) = 0 /\ Cardinality(Processed) = 0
    BY <2>1, FS_EmptySet
  <2> QED BY <2>2 DEF EventPerTask, Counting, CountingClients, Processed
<1> QED BY <1>1, <1>2, <1>3, <1>4 DEF IOInv, ThreadInv

-----------------------------------------------------------------------------
(* ioop_worker_thread *)

\* The worker finds thread set, or goes on waiting for it.
LEMMA WorkerStartInv ==
    ASSUME ThreadInv, WorkerStart
    PROVE  ThreadInv' /\ (EventPerTask => EventPerTask')
<1> USE DEF ThreadInv, WorkerStart, SuspendWorker
<1>1. TypeOK'
  BY DEF TypeOK
<1>2. CancelInv'
  BY DEF TypeOK, CancelInv, LifeInv
<1>3. WorkerInv'
  BY DEF TypeOK, WorkerInv, Processes
<1>4. StopInv' /\ WorkerAwake'
  BY DEF TypeOK, StopInv, WorkerAwake, LifeInv
<1>5. LifeInv'
  BY DEF TypeOK, LifeInv, CancelInv
<1>6. PlacesInv' /\ (EventPerTask => EventPerTask')
  BY Frame DEF TypeOK, LifeInv, Processes
<1> QED BY <1>1, <1>2, <1>3, <1>4, <1>5, <1>6

\* The worker which goes on has seen that it need not stop.
LEMMA WorkerLoopInv ==
    ASSUME ThreadInv, WorkerLoop
    PROVE  ThreadInv' /\ (EventPerTask => EventPerTask')
<1> USE DEF ThreadInv, WorkerLoop
<1>1. TypeOK'
  BY DEF TypeOK
<1>2. CancelInv'
  BY DEF TypeOK, CancelInv, LifeInv
<1>3. WorkerInv'
  BY DEF TypeOK, WorkerInv, Processes
<1>4. StopInv' /\ WorkerAwake'
  BY DEF TypeOK, StopInv, WorkerAwake, LifeInv
<1>5. LifeInv'
  BY DEF TypeOK, LifeInv, CancelInv
<1>6. PlacesInv' /\ (EventPerTask => EventPerTask')
  BY Frame DEF TypeOK, LifeInv, Processes
<1> QED BY <1>1, <1>2, <1>3, <1>4, <1>5, <1>6

\* The list is empty, and by StopInv a request to stop in the meantime has its SIGINT.
LEMMA RemoveNoDataInv ==
    ASSUME ThreadInv, RemoveNoData
    PROVE  ThreadInv' /\ (EventPerTask => EventPerTask')
<1> USE DEF ThreadInv, RemoveNoData
<1>1. TypeOK'
  BY DEF TypeOK
<1>2. CancelInv'
  BY DEF TypeOK, CancelInv, LifeInv
<1>3. WorkerInv'
  BY DEF TypeOK, WorkerInv, Processes
<1>4. StopInv' /\ WorkerAwake'
  BY DEF TypeOK, StopInv, WorkerAwake, LifeInv
<1>5. LifeInv'
  BY DEF TypeOK, LifeInv, CancelInv
<1>6. PlacesInv' /\ (EventPerTask => EventPerTask')
  BY Frame DEF TypeOK, LifeInv, Processes
<1> QED BY <1>1, <1>2, <1>3, <1>4, <1>5, <1>6

\* The SIGINT is consumed, but the list and request_stop are tested next.
LEMMA WorkerSleepInv ==
    ASSUME ThreadInv, WorkerSleep
    PROVE  ThreadInv' /\ (EventPerTask => EventPerTask')
<1> USE DEF ThreadInv, WorkerSleep, SuspendWorker
<1>1. TypeOK'
  BY DEF TypeOK
<1>2. CancelInv'
  BY DEF TypeOK, CancelInv, LifeInv
<1>3. WorkerInv'
  BY DEF TypeOK, WorkerInv, Processes
<1>4. StopInv' /\ WorkerAwake'
  BY DEF TypeOK, StopInv, WorkerAwake, LifeInv
<1>5. LifeInv'
  BY DEF TypeOK, LifeInv, CancelInv
<1>6. PlacesInv' /\ (EventPerTask => EventPerTask')
  BY Frame DEF TypeOK, LifeInv, Processes
<1> QED BY <1>1, <1>2, <1>3, <1>4, <1>5, <1>6

\* The state is chosen; the task stays with the worker.
LEMMA ProcessInv ==
    ASSUME ThreadInv, Process
    PROVE  ThreadInv' /\ (EventPerTask => EventPerTask')
<1> USE DEF ThreadInv, Process
<1>1. TypeOK'
  BY DEF TypeOK, Ready, Processes
<1>2. CancelInv'
  BY DEF TypeOK, CancelInv, LifeInv
<1>3. WorkerInv'
  BY DEF TypeOK, WorkerInv, Ready
<1>4. StopInv' /\ WorkerAwake'
  BY DEF TypeOK, StopInv, WorkerAwake, LifeInv
<1>5. LifeInv'
  BY DEF TypeOK, LifeInv, CancelInv
<1>6. PlacesInv' /\ (EventPerTask => EventPerTask')
  BY Frame DEF TypeOK, LifeInv, Processes
<1> QED BY <1>1, <1>2, <1>3, <1>4, <1>5, <1>6

\* The task is executed.
LEMMA DoIOInv ==
    ASSUME ThreadInv, DoIO
    PROVE  ThreadInv' /\ (EventPerTask => EventPerTask')
<1> USE DEF ThreadInv, DoIO
<1>1. TypeOK'
  BY DEF TypeOK, Ready, Processes
<1>2. CancelInv'
  BY DEF TypeOK, CancelInv, LifeInv
<1>3. WorkerInv'
  BY DEF TypeOK, WorkerInv, Ready
<1>4. StopInv' /\ WorkerAwake'
  BY DEF TypeOK, StopInv, WorkerAwake, LifeInv
<1>5. LifeInv'
  BY DEF TypeOK, LifeInv, CancelInv
<1>6. PlacesInv' /\ (EventPerTask => EventPerTask')
  BY Frame DEF TypeOK, LifeInv, Processes
<1> QED BY <1>1, <1>2, <1>3, <1>4, <1>5, <1>6

\* The first task moves from the list to the worker.
LEMMA RemoveTaskInv ==
    ASSUME ThreadInv, RemoveTask
    PROVE  ThreadInv' /\ (EventPerTask => EventPerTask')
<1> USE DEF ThreadInv, RemoveTask
<1>0. iolist \in Seq(Tasks) /\ IsInjective(iolist) /\ iolist # <<>>
  BY DEF TypeOK, PlacesInv
<1>1. TypeOK'
  BY <1>0, TailList DEF TypeOK, Processes
<1>2. CancelInv' /\ StopInv' /\ WorkerAwake' /\ LifeInv'
  BY DEF CancelInv, StopInv, WorkerAwake, LifeInv
<1>3. WorkerInv'
  BY <1>0, TailList DEF WorkerInv
<1>4. PlacesInv'
  <2>1. Canceling' = Canceling
    BY DEF Canceling
  <2>2. /\ Head(iolist) \in Tasks /\ Head(iolist) \in ToSet(iolist)
        /\ IsInjective(Tail(iolist))
        /\ ToSet(Tail(iolist)) = ToSet(iolist) \ {Head(iolist)}
    BY <1>0, TailList
  <2> QED BY <2>1, <2>2 DEF PlacesInv, Processes
<1>5. EventPerTask => EventPerTask'
  BY DEF EventPerTask, Counting
<1> QED BY <1>1, <1>2, <1>3, <1>4, <1>5

\* The task leaves the worker as processed; its event is about to be counted.
LEMMA PublishInv ==
    ASSUME ThreadInv, Publish
    PROVE  ThreadInv' /\ (EventPerTask => EventPerTask')
<1> USE DEF ThreadInv, Publish
<1>0. task \in Tasks /\ result \in Ready /\ state[task] = QUEUED
  BY DEF WorkerInv, PlacesInv, Processes
<1>1. TypeOK'
  BY <1>0 DEF TypeOK
<1>2. CancelInv' /\ WorkerInv' /\ StopInv' /\ WorkerAwake' /\ LifeInv'
  BY <1>0 DEF CancelInv, WorkerInv, StopInv, WorkerAwake, LifeInv
<1>3. PlacesInv'
  <2>1. Canceling' = Canceling
    BY DEF Canceling
  <2>2. \A i \in Tasks : state'[i] = QUEUED <=> state[i] = QUEUED /\ i # task
    BY <1>0 DEF TypeOK, QUEUED, OK, ERROR, CANCELED, Ready
  <2> QED BY <2>1, <2>2 DEF PlacesInv, Processes
<1>4. EventPerTask => EventPerTask'
  <2> SUFFICES ASSUME EventPerTask PROVE EventPerTask'
    OBVIOUS
  <2>1. CountingClients' = CountingClients
    BY DEF CountingClients
  <2>2. Processed' = Processed \cup {task} /\ task \notin Processed
    BY <1>0 DEF Processed, TypeOK, QUEUED, OK, ERROR, CANCELED, Ready
  <2>3. Cardinality(Processed') = Cardinality(Processed) + 1
    BY <2>2, FiniteClientsAndTasks, FS_AddElement DEF Processed
  <2>4. Cardinality(CountingClients) \in Nat /\ ready \in Nat
    BY FiniteClientsAndTasks DEF CountingClients, TypeOK
  <2>5. Cardinality(Processed) = ready + Cardinality(CountingClients)
    BY <2>4 DEF EventPerTask, Counting, CountingClients, Processed
  <2> QED BY <2>1, <2>3, <2>4, <2>5 DEF EventPerTask, Counting, CountingClients, Processed
<1> QED BY <1>1, <1>2, <1>3, <1>4

\* The event of the processed task is counted.
LEMMA CountReadyInv ==
    ASSUME ThreadInv, CountReady
    PROVE  ThreadInv' /\ (EventPerTask => EventPerTask')
<1> USE DEF ThreadInv, CountReady, Counter!Count
<1>1. TypeOK'
  BY DEF TypeOK
<1>2. CancelInv' /\ WorkerInv' /\ StopInv' /\ WorkerAwake' /\ LifeInv'
  BY DEF CancelInv, WorkerInv, StopInv, WorkerAwake, LifeInv, Processes
<1>3. PlacesInv'
  <2>1. Canceling' = Canceling
    BY DEF Canceling
  <2> QED BY <2>1 DEF PlacesInv, Processes
<1>4. EventPerTask => EventPerTask'
  <2> SUFFICES ASSUME EventPerTask PROVE EventPerTask'
    OBVIOUS
  <2>1. CountingClients' = CountingClients /\ Processed' = Processed
    BY DEF CountingClients, Processed
  <2>2. Cardinality(CountingClients) \in Nat /\ ready \in Nat
    BY FiniteClientsAndTasks DEF CountingClients, TypeOK
  <2> QED BY <2>1, <2>2 DEF EventPerTask, Counting, CountingClients, Processed
<1> QED BY <1>1, <1>2, <1>3, <1>4

-----------------------------------------------------------------------------
(* insertlast_iolist, requeststop_iothread and the clients *)

\* The tasks are queued and linked at once; a list which was empty makes the client
\* resume the worker.
LEMMA InsertLastInv ==
    ASSUME ThreadInv, NEW c \in Clients, NEW ts \in Seq(Tasks), IsInjective(ts), InsertLast(c, ts)
    PROVE  ThreadInv' /\ (EventPerTask => EventPerTask')
<1> USE DEF ThreadInv, InsertLast, Link, MustResume
<1>0. ts \in Seq(Tasks) /\ IsInjective(ts) /\ iolist \in Seq(Tasks)
  BY DEF TypeOK
<1>1. \A i \in ToSet(ts) : i \in Tasks /\ state[i] = NULL
  BY <1>0 DEF ToSet
<1>2. TypeOK'
  BY <1>0, ConcatList DEF TypeOK, Resumes
<1>3. CancelInv' /\ WorkerInv'
  BY DEF TypeOK, CancelInv, WorkerInv
<1>4. StopInv' /\ WorkerAwake'
  BY DEF TypeOK, StopInv, WorkerAwake, Resumes
<1>5. LifeInv'
  BY DEF TypeOK, LifeInv
<1>6. PlacesInv'
  <2>1. Canceling' = Canceling
    BY DEF Canceling, CancelInv, TypeOK
  <2>2. \A i \in Tasks : state[i] # QUEUED => i \notin ToSet(iolist) \cup ToSet(Canceling)
    BY DEF PlacesInv
  <2>3. /\ IsInjective(iolist \o ts)
        /\ ToSet(iolist \o ts) = ToSet(iolist) \cup ToSet(ts)
    <3>1. ToSet(iolist) \cap ToSet(ts) = {}
      BY <1>1, <2>2 DEF NULL, QUEUED
    <3> QED BY <1>0, <3>1, ConcatList DEF PlacesInv
  <2>4. \A i \in Tasks : state'[i] = QUEUED <=> state[i] = QUEUED \/ i \in ToSet(ts)
    BY DEF TypeOK
  <2>5. wpc \in Processes => task \in Tasks /\ state[task] = QUEUED
    BY DEF PlacesInv, WorkerInv
  <2>6. /\ ToSet(ts) \cap ToSet(Canceling) = {}
        /\ wpc \in Processes => task \notin ToSet(ts)
    BY <1>1, <2>2, <2>5 DEF NULL, QUEUED
  <2>7. {i \in Tasks : state'[i] = QUEUED} =
            {i \in Tasks : state[i] = QUEUED} \cup ToSet(ts)
    BY <1>1, <2>4
  <2> QED BY <2>1, <2>3, <2>6, <2>7 DEF PlacesInv
<1>7. EventPerTask => EventPerTask'
  <2> SUFFICES ASSUME EventPerTask PROVE EventPerTask'
    OBVIOUS
  <2>1. CountingClients' = CountingClients
    BY DEF CountingClients, TypeOK
  <2>2. Processed' = Processed
    BY <1>1 DEF Processed, TypeOK, NULL, QUEUED, OK, ERROR, CANCELED, Ready
  <2> QED BY <2>1, <2>2 DEF EventPerTask, Counting, CountingClients, Processed
<1> QED BY <1>2, <1>3, <1>4, <1>5, <1>6, <1>7

\* The SIGINT is sent.
LEMMA ResumeWorkerInv ==
    ASSUME ThreadInv, NEW c \in Clients, ResumeWorker(c)
    PROVE  ThreadInv' /\ (EventPerTask => EventPerTask')
<1> USE DEF ThreadInv, ResumeWorker
<1>1. TypeOK'
  BY DEF TypeOK
<1>2. CancelInv'
  BY DEF TypeOK, CancelInv, LifeInv
<1>3. WorkerInv'
  BY DEF TypeOK, WorkerInv
<1>4. StopInv' /\ WorkerAwake'
  BY DEF TypeOK, StopInv, WorkerAwake, LifeInv
<1>5. LifeInv'
  BY DEF TypeOK, LifeInv, CancelInv
<1>6. PlacesInv' /\ (EventPerTask => EventPerTask')
  BY Frame DEF TypeOK, LifeInv
<1> QED BY <1>1, <1>2, <1>3, <1>4, <1>5, <1>6

\* Who requests the stop resumes the worker.
LEMMA RequestStopInv ==
    ASSUME ThreadInv, NEW c \in Clients, RequestStop(c)
    PROVE  ThreadInv' /\ (EventPerTask => EventPerTask')
<1> USE DEF ThreadInv, RequestStop
<1>1. TypeOK'
  BY DEF TypeOK, Resumes
<1>2. CancelInv'
  BY DEF TypeOK, CancelInv, LifeInv
<1>3. WorkerInv'
  BY DEF TypeOK, WorkerInv
<1>4. StopInv' /\ WorkerAwake'
  BY DEF TypeOK, StopInv, WorkerAwake, LifeInv, Resumes
<1>5. LifeInv'
  BY DEF TypeOK, LifeInv, CancelInv
<1>6. PlacesInv' /\ (EventPerTask => EventPerTask')
  BY Frame DEF TypeOK, LifeInv
<1> QED BY <1>1, <1>2, <1>3, <1>4, <1>5, <1>6

\* A processed task is taken back for an event.
LEMMA TakeBackInv ==
    ASSUME ThreadInv, NEW c \in Clients, NEW i \in Tasks, TakeBack(c, i)
    PROVE  ThreadInv' /\ (EventPerTask => EventPerTask')
<1> USE DEF ThreadInv, TakeBack, Counter!Take
<1>1. TypeOK'
  BY DEF TypeOK
<1>2. CancelInv' /\ WorkerInv' /\ StopInv' /\ WorkerAwake' /\ LifeInv'
  BY DEF CancelInv, WorkerInv, StopInv, WorkerAwake, LifeInv
<1>3. PlacesInv'
  <2>1. Canceling' = Canceling
    BY DEF Canceling
  <2>2. \A k \in Tasks : state'[k] = QUEUED <=> state[k] = QUEUED
    BY DEF TypeOK, NULL, QUEUED, OK, ERROR, CANCELED, Ready
  <2> QED BY <2>1, <2>2 DEF PlacesInv
<1>4. EventPerTask => EventPerTask'
  <2> SUFFICES ASSUME EventPerTask PROVE EventPerTask'
    OBVIOUS
  <2>1. CountingClients' = CountingClients
    BY DEF CountingClients
  <2>2. i \in Processed /\ Processed' = Processed \ {i}
    BY DEF Processed, TypeOK, NULL, OK, ERROR, CANCELED, Ready
  <2>3. Cardinality(Processed') = Cardinality(Processed) - 1
    <3>1. IsFiniteSet(Processed)
      BY FiniteClientsAndTasks DEF Processed
    <3> QED BY <2>2, <3>1, FS_RemoveElement
  <2>4. Cardinality(CountingClients) \in Nat /\ ready \in Nat
    BY FiniteClientsAndTasks DEF CountingClients, TypeOK
  <2>5. Cardinality(Processed) = ready + Cardinality(CountingClients) + (IF wpc = "count" THEN 1 ELSE 0)
    BY <2>4 DEF EventPerTask, Counting, CountingClients, Processed
  <2> QED BY <2>1, <2>3, <2>4, <2>5 DEF EventPerTask, Counting, CountingClients, Processed
<1> QED BY <1>1, <1>2, <1>3, <1>4

-----------------------------------------------------------------------------
(* cancelall_iolist *)

\* The call waits for the lock.
LEMMA CancelAllInv ==
    ASSUME ThreadInv, NEW c \in Clients, CancelAll(c)
    PROVE  ThreadInv' /\ (EventPerTask => EventPerTask')
<1> USE DEF ThreadInv, CancelAll
<1>1. TypeOK'
  BY DEF TypeOK
<1>2. CancelInv'
  BY DEF TypeOK, CancelInv, LifeInv
<1>3. WorkerInv'
  BY DEF TypeOK, WorkerInv
<1>4. StopInv' /\ WorkerAwake'
  BY DEF TypeOK, StopInv, WorkerAwake, LifeInv, Resumes
<1>5. LifeInv'
  BY DEF TypeOK, LifeInv, CancelInv
<1>6. PlacesInv' /\ (EventPerTask => EventPerTask')
  BY Frame DEF TypeOK, LifeInv
<1> QED BY <1>1, <1>2, <1>3, <1>4, <1>5, <1>6

\* All tasks move from the list to the client, the last one first.
LEMMA CancelStartInv ==
    ASSUME ThreadInv, NEW c \in Clients, CancelStart(c)
    PROVE  ThreadInv' /\ (EventPerTask => EventPerTask')
<1> USE DEF ThreadInv, CancelStart
<1>1. /\ CancelOrder(iolist) \in Seq(Tasks)
      /\ IsInjective(CancelOrder(iolist))
      /\ ToSet(CancelOrder(iolist)) = ToSet(iolist)
  BY EmptyList, RotateList DEF CancelOrder, TypeOK, PlacesInv
<1>2. TypeOK'
  BY <1>1 DEF TypeOK
<1>3. CancelInv' /\ WorkerInv'
  BY IOThreadAssumption DEF TypeOK, CancelInv, WorkerInv
<1>4. StopInv' /\ WorkerAwake'
  BY DEF TypeOK, StopInv, WorkerAwake, Resumes
<1>5. LifeInv'
  BY DEF TypeOK, LifeInv
<1>6. PlacesInv'
  <2>1. Canceling = <<>> /\ Canceling' = CancelOrder(iolist)
    BY DEF Canceling, CancelInv, TypeOK
  <2> QED BY <1>1, <2>1, EmptyList DEF PlacesInv
<1>7. EventPerTask => EventPerTask'
  <2> SUFFICES ASSUME EventPerTask PROVE EventPerTask'
    OBVIOUS
  <2>1. CountingClients' = CountingClients
    BY DEF CountingClients, TypeOK
  <2> QED BY <2>1 DEF EventPerTask, Counting, CountingClients
<1> QED BY <1>2, <1>3, <1>4, <1>5, <1>6, <1>7

\* The next task is cancelled, and its event is about to be counted.
LEMMA CancelStateInv ==
    ASSUME ThreadInv, NEW c \in Clients, CancelState(c)
    PROVE  ThreadInv' /\ (EventPerTask => EventPerTask')
<1> USE DEF ThreadInv, CancelState
<1>0. /\ Canceling = cancels /\ Canceling' = Tail(cancels)
      /\ cancels \in Seq(Tasks)
      /\ CountingClients = {}
  BY DEF Canceling, CancelInv, TypeOK, CountingClients
<1>1. /\ Head(cancels) \in Tasks /\ Head(cancels) \in ToSet(cancels)
      /\ IsInjective(Tail(cancels))
      /\ ToSet(Tail(cancels)) = ToSet(cancels) \ {Head(cancels)}
  BY <1>0, TailList DEF PlacesInv
<1>2. TypeOK'
  BY <1>1 DEF TypeOK, Ready
<1>3. CancelInv' /\ WorkerInv'
  BY DEF TypeOK, CancelInv, WorkerInv
<1>4. StopInv' /\ WorkerAwake'
  BY DEF TypeOK, StopInv, WorkerAwake, Resumes
<1>5. LifeInv'
  BY DEF TypeOK, LifeInv
<1>6. state[Head(cancels)] = QUEUED
  BY <1>0, <1>1 DEF PlacesInv
<1>7. PlacesInv'
  <2>1. \A i \in Tasks : state'[i] = QUEUED <=> state[i] = QUEUED /\ i # Head(cancels)
    BY <1>1 DEF TypeOK, QUEUED, CANCELED
  <2>2. wpc \in Processes => task # Head(cancels)
    BY <1>0, <1>1 DEF PlacesInv
  <2>3. Head(cancels) \notin ToSet(iolist)
    BY <1>0, <1>1 DEF PlacesInv
  <2> QED BY <1>0, <1>1, <2>1, <2>2, <2>3 DEF PlacesInv
<1>8. EventPerTask => EventPerTask'
  <2> SUFFICES ASSUME EventPerTask PROVE EventPerTask'
    OBVIOUS
  <2>1. CountingClients' = {c}
    BY <1>0 DEF CountingClients, TypeOK
  <2>2. Processed' = Processed \cup {Head(cancels)} /\ Head(cancels) \notin Processed
    BY <1>1, <1>6 DEF Processed, TypeOK, QUEUED, OK, ERROR, CANCELED, Ready
  <2>3. Cardinality(Processed') = Cardinality(Processed) + 1
    BY <2>2, FiniteClientsAndTasks, FS_AddElement DEF Processed
  <2>4. Cardinality(CountingClients) = 0 /\ Cardinality(CountingClients') = 1 /\ ready \in Nat
    BY <1>0, <2>1, FS_EmptySet, FS_Singleton DEF TypeOK
  <2>5. Cardinality(Processed) = ready + (IF wpc = "count" THEN 1 ELSE 0)
    BY <2>4 DEF EventPerTask, Counting, CountingClients, Processed
  <2> QED BY <2>3, <2>4, <2>5 DEF EventPerTask, Counting, CountingClients, Processed
<1> QED BY <1>2, <1>3, <1>4, <1>5, <1>7, <1>8

\* The event of the cancelled task is counted, and the walk goes on behind it.
LEMMA CancelCountInv ==
    ASSUME ThreadInv, NEW c \in Clients, CancelCount(c)
    PROVE  ThreadInv' /\ (EventPerTask => EventPerTask')
<1> USE DEF ThreadInv, CancelCount, Counter!Count
<1>0. /\ Canceling = Tail(cancels) /\ Canceling' = Tail(cancels)
      /\ Tail(cancels) \in Seq(Tasks)
      /\ CountingClients = {c} /\ CountingClients' = {}
  BY DEF Canceling, CancelInv, TypeOK, CountingClients
<1>1. TypeOK'
  BY <1>0 DEF TypeOK
<1>2. CancelInv' /\ WorkerInv'
  BY DEF TypeOK, CancelInv, WorkerInv
<1>3. StopInv' /\ WorkerAwake'
  BY DEF TypeOK, StopInv, WorkerAwake, Resumes
<1>4. LifeInv'
  BY DEF TypeOK, LifeInv
<1>5. PlacesInv'
  BY <1>0 DEF PlacesInv
<1>6. EventPerTask => EventPerTask'
  <2> SUFFICES ASSUME EventPerTask PROVE EventPerTask'
    OBVIOUS
  <2>1. Cardinality(CountingClients) = 1 /\ Cardinality(CountingClients') = 0 /\ ready \in Nat
    BY <1>0, FS_EmptySet, FS_Singleton DEF TypeOK
  <2>2. Processed' = Processed
    BY DEF Processed
  <2>3. Cardinality(Processed) = ready + 1 + (IF wpc = "count" THEN 1 ELSE 0)
    BY <2>1 DEF EventPerTask, Counting, CountingClients, Processed
  <2> QED BY <2>1, <2>2, <2>3 DEF EventPerTask, Counting, CountingClients, Processed
<1> QED BY <1>1, <1>2, <1>3, <1>4, <1>5, <1>6

\* Everything was cancelled: the lock is given up.
LEMMA CancelEndInv ==
    ASSUME ThreadInv, NEW c \in Clients, CancelEnd(c)
    PROVE  ThreadInv' /\ (EventPerTask => EventPerTask')
<1> USE DEF ThreadInv, CancelEnd
<1>1. TypeOK'
  BY DEF TypeOK
<1>2. CancelInv'
  BY IOThreadAssumption DEF TypeOK, CancelInv, LifeInv
<1>3. WorkerInv'
  BY DEF TypeOK, WorkerInv
<1>4. StopInv' /\ WorkerAwake'
  BY DEF TypeOK, StopInv, WorkerAwake, LifeInv, Resumes
<1>5. LifeInv'
  BY DEF TypeOK, LifeInv, CancelInv
<1>6. PlacesInv' /\ (EventPerTask => EventPerTask')
  BY Frame DEF TypeOK, LifeInv
<1> QED BY <1>1, <1>2, <1>3, <1>4, <1>5, <1>6

-----------------------------------------------------------------------------
(* init_iothread and free_iothread *)

\* By LifeInv the worker before was joined: it left no task behind.
LEMMA InitThreadInv ==
    ASSUME ThreadInv, InitThread
    PROVE  ThreadInv' /\ (EventPerTask => EventPerTask')
<1> USE DEF ThreadInv, InitThread
<1>1. TypeOK'
  BY DEF TypeOK
<1>2. CancelInv'
  BY DEF TypeOK, CancelInv, LifeInv
<1>3. WorkerInv'
  BY DEF TypeOK, WorkerInv, Processes
<1>4. StopInv' /\ WorkerAwake'
  BY DEF TypeOK, StopInv, WorkerAwake, LifeInv
<1>5. LifeInv'
  BY IOThreadAssumption DEF TypeOK, LifeInv, CancelInv
<1>6. PlacesInv' /\ (EventPerTask => EventPerTask')
  BY Frame DEF TypeOK, LifeInv, Processes
<1> QED BY <1>1, <1>2, <1>3, <1>4, <1>5, <1>6

\* By LifeInv the list is empty already.
LEMMA InitSetInv ==
    ASSUME ThreadInv, InitSet
    PROVE  ThreadInv' /\ (EventPerTask => EventPerTask')
<1> USE DEF ThreadInv, InitSet
<1>1. TypeOK'
  <2>1. <<>> \in Seq(Tasks)
    OBVIOUS
  <2> QED BY <2>1 DEF TypeOK, Resumes
<1>2. CancelInv'
  BY DEF TypeOK, CancelInv, LifeInv
<1>3. WorkerInv'
  BY DEF TypeOK, WorkerInv
<1>4. StopInv' /\ WorkerAwake'
  BY DEF TypeOK, StopInv, WorkerAwake, LifeInv
<1>5. LifeInv'
  BY DEF TypeOK, LifeInv, CancelInv
<1>6. PlacesInv' /\ (EventPerTask => EventPerTask')
  BY Frame DEF TypeOK, LifeInv
<1> QED BY <1>1, <1>2, <1>3, <1>4, <1>5, <1>6

\* The object can be used.
LEMMA InitResumeInv ==
    ASSUME ThreadInv, InitResume
    PROVE  ThreadInv' /\ (EventPerTask => EventPerTask')
<1> USE DEF ThreadInv, InitResume
<1>1. TypeOK'
  BY DEF TypeOK
<1>2. CancelInv'
  BY DEF TypeOK, CancelInv, LifeInv
<1>3. WorkerInv'
  BY DEF TypeOK, WorkerInv
<1>4. StopInv' /\ WorkerAwake'
  BY DEF TypeOK, StopInv, WorkerAwake, LifeInv
<1>5. LifeInv'
  BY IOThreadAssumption DEF TypeOK, LifeInv, CancelInv
<1>6. PlacesInv' /\ (EventPerTask => EventPerTask')
  BY Frame DEF TypeOK, LifeInv
<1> QED BY <1>1, <1>2, <1>3, <1>4, <1>5, <1>6

\* No client is in a call and none is started.
LEMMA FreeInv ==
    ASSUME ThreadInv, Free
    PROVE  ThreadInv' /\ (EventPerTask => EventPerTask')
<1> USE DEF ThreadInv, Free
<1>1. TypeOK'
  BY DEF TypeOK, Resumes
<1>2. CancelInv'
  BY DEF TypeOK, CancelInv, LifeInv
<1>3. WorkerInv'
  BY DEF TypeOK, WorkerInv
<1>4. StopInv' /\ WorkerAwake'
  BY IOThreadAssumption DEF TypeOK, StopInv, WorkerAwake, LifeInv, Resumes
<1>5. LifeInv'
  BY IOThreadAssumption DEF TypeOK, LifeInv, CancelInv
<1>6. PlacesInv' /\ (EventPerTask => EventPerTask')
  BY Frame DEF TypeOK, LifeInv
<1> QED BY <1>1, <1>2, <1>3, <1>4, <1>5, <1>6

\* The worker learns of the stop.
LEMMA FreeResumeInv ==
    ASSUME ThreadInv, FreeResume
    PROVE  ThreadInv' /\ (EventPerTask => EventPerTask')
<1> USE DEF ThreadInv, FreeResume
<1>1. TypeOK'
  BY DEF TypeOK
<1>2. CancelInv'
  BY DEF TypeOK, CancelInv, LifeInv
<1>3. WorkerInv'
  BY DEF TypeOK, WorkerInv
<1>4. StopInv' /\ WorkerAwake'
  BY DEF TypeOK, StopInv, WorkerAwake, LifeInv
<1>5. LifeInv'
  BY DEF TypeOK, LifeInv, CancelInv
<1>6. PlacesInv' /\ (EventPerTask => EventPerTask')
  BY Frame DEF TypeOK, LifeInv
<1> QED BY <1>1, <1>2, <1>3, <1>4, <1>5, <1>6

\* The worker has ended and holds no task.
LEMMA FreeJoinInv ==
    ASSUME ThreadInv, FreeJoin
    PROVE  ThreadInv' /\ (EventPerTask => EventPerTask')
<1> USE DEF ThreadInv, FreeJoin, AfterJoin
<1>1. TypeOK'
  BY DEF TypeOK
<1>2. CancelInv'
  BY DEF TypeOK, CancelInv, LifeInv
<1>3. WorkerInv'
  BY DEF TypeOK, WorkerInv, Processes
<1>4. StopInv' /\ WorkerAwake'
  BY DEF TypeOK, StopInv, WorkerAwake, LifeInv
<1>5. LifeInv'
  BY IOThreadAssumption DEF TypeOK, LifeInv, CancelInv
<1>6. PlacesInv' /\ (EventPerTask => EventPerTask')
  BY Frame DEF TypeOK, LifeInv, Processes
<1> QED BY <1>1, <1>2, <1>3, <1>4, <1>5, <1>6

\* After cancelall_iolist the object is free.
LEMMA FreeDeleteInv ==
    ASSUME ThreadInv, FreeDelete
    PROVE  ThreadInv' /\ (EventPerTask => EventPerTask')
<1> USE DEF ThreadInv, FreeDelete
<1>1. TypeOK'
  BY DEF TypeOK
<1>2. CancelInv'
  BY DEF TypeOK, CancelInv, LifeInv
<1>3. WorkerInv'
  BY DEF TypeOK, WorkerInv
<1>4. StopInv' /\ WorkerAwake'
  BY DEF TypeOK, StopInv, WorkerAwake, LifeInv
<1>5. LifeInv'
  BY DEF TypeOK, LifeInv, CancelInv
<1>6. PlacesInv' /\ (EventPerTask => EventPerTask')
  BY Frame DEF TypeOK, LifeInv
<1> QED BY <1>1, <1>2, <1>3, <1>4, <1>5, <1>6

\* A foreign SIGINT only lets the worker look again.
LEMMA SpuriousInv ==
    ASSUME ThreadInv, Spurious
    PROVE  ThreadInv' /\ (EventPerTask => EventPerTask')
<1> USE DEF ThreadInv, Spurious
<1>1. TypeOK'
  BY DEF TypeOK
<1>2. CancelInv'
  BY DEF TypeOK, CancelInv, LifeInv
<1>3. WorkerInv'
  BY DEF TypeOK, WorkerInv
<1>4. StopInv' /\ WorkerAwake'
  BY DEF TypeOK, StopInv, WorkerAwake, LifeInv
<1>5. LifeInv'
  BY DEF TypeOK, LifeInv, CancelInv
<1>6. PlacesInv' /\ (EventPerTask => EventPerTask')
  BY Frame DEF TypeOK, LifeInv
<1> QED BY <1>1, <1>2, <1>3, <1>4, <1>5, <1>6

-----------------------------------------------------------------------------

\* The steps of the worker.
LEMMA WorkerStepInv ==
    ASSUME ThreadInv, WorkerStep
    PROVE  ThreadInv' /\ (EventPerTask => EventPerTask')
BY WorkerStartInv, WorkerLoopInv, RemoveTaskInv, RemoveNoDataInv, WorkerSleepInv,
   ProcessInv, DoIOInv, PublishInv, CountReadyInv DEF WorkerStep

\* The steps of functions which were called.
LEMMA CallInv ==
    ASSUME ThreadInv,
           OwnerStep \/ \E c \in Clients : ResumeWorker(c) \/ CancelStep(c)
    PROVE  ThreadInv' /\ (EventPerTask => EventPerTask')
<1>1. CASE OwnerStep
  BY <1>1, InitSetInv, InitResumeInv, FreeResumeInv, FreeJoinInv, FreeDeleteInv DEF OwnerStep
<1>2. ASSUME NEW c \in Clients, ResumeWorker(c) \/ CancelStep(c)
      PROVE  ThreadInv' /\ (EventPerTask => EventPerTask')
  BY <1>2, ResumeWorkerInv, CancelStartInv, CancelStateInv, CancelCountInv, CancelEndInv DEF CancelStep
<1> QED BY <1>1, <1>2

\* A step of somebody else.
LEMMA StutterInv ==
    ASSUME ThreadInv, UNCHANGED vars
    PROVE  ThreadInv' /\ (EventPerTask => EventPerTask')
<1> USE DEF vars
<1>1. PlacesInv' /\ (EventPerTask => EventPerTask')
  BY Frame
<1> QED BY <1>1 DEF ThreadInv, TypeOK, CancelInv, WorkerInv, StopInv, LifeInv, WorkerAwake

\* Every step of the worker, the clients and the owner keeps the invariant.
LEMMA NextInv == IOInv /\ [Next]_vars => IOInv'
<1> SUFFICES ASSUME ThreadInv, [Next]_vars PROVE ThreadInv' /\ (EventPerTask => EventPerTask')
  BY DEF IOInv
<1>1. CASE WorkerStep \/ OwnerStep
  BY <1>1, WorkerStepInv, CallInv
<1>2. CASE InitThread \/ Free \/ Spurious
  BY <1>2, InitThreadInv, FreeInv, SpuriousInv
<1>3. ASSUME NEW c \in Clients,
             \/ \E ts \in Arrays : InsertLast(c, ts)
             \/ \E i \in Tasks : TakeBack(c, i)
             \/ RequestStop(c)
             \/ ResumeWorker(c)
             \/ CancelAll(c)
             \/ CancelStep(c)
      PROVE  ThreadInv' /\ (EventPerTask => EventPerTask')
  <2>1. CASE \E ts \in Arrays : InsertLast(c, ts)
    <3>1. \A ts \in Arrays : ts \in Seq(Tasks) /\ IsInjective(ts)
      BY IOThreadAssumption DEF Arrays, SeqOf
    <3> QED BY <2>1, <3>1, InsertLastInv
  <2>2. CASE ResumeWorker(c) \/ CancelStep(c)
    BY <2>2, CallInv
  <2> QED BY <1>3, <2>1, <2>2, TakeBackInv, RequestStopInv, CancelAllInv
<1>4. CASE UNCHANGED vars
  BY <1>4, StutterInv
<1> QED BY <1>1, <1>2, <1>3, <1>4 DEF Next

\* List, lock, tasks, worker and clients agree in every state which the functions
\* of iothread.c and iolist.c can reach, through any number of objects' lives.
THEOREM IOInvariant == Spec => []IOInv
<1> QED BY InitInv, NextInv, PTL DEF Spec

\* All variables keep their types; the worker never uses the null pointer as a task.
THEOREM TypeCorrect == Spec => []TypeOK
<1>1. IOInv => TypeOK
  BY DEF IOInv, ThreadInv
<1> QED BY <1>1, IOInvariant, PTL

\* The worker never sleeps through an insertion or a request to stop, in whatever
\* order SIGINTs are sent, merged and consumed.
THEOREM WorkerIsAwake == Spec => []WorkerAwake
<1>1. IOInv => WorkerAwake
  BY DEF IOInv, ThreadInv
<1> QED BY <1>1, IOInvariant, PTL

\* A queued task is in one place: no task is lost, executed twice, or cancelled
\* while the worker executes it, also when the object is stopped and freed.
THEOREM TasksAreTracked == Spec => []TasksTracked
<1>1. IOInv => TasksTracked
  <2> SUFFICES ASSUME IOInv PROVE TasksTracked
    OBVIOUS
  <2>1. /\ iolist \in Seq(Tasks) /\ Canceling \in Seq(Tasks)
        /\ wpc \in Processes => task \in Tasks
    BY CancelingIsList DEF IOInv, ThreadInv, TypeOK, WorkerInv
  <2>2. /\ Held \in Seq(Tasks) /\ IsInjective(Held)
        /\ ToSet(Held) = {i \in Tasks : wpc \in Processes /\ i = task}
    <3>1. CASE wpc \in Processes
      <4>1. Held = <<task>> /\ task \in Tasks
        BY <2>1, <3>1 DEF Held
      <4>2. Held \in Seq(Tasks) /\ Len(Held) = 1 /\ Held[1] = task /\ DOMAIN Held = 1..1
        BY <4>1
      <4>3. ToSet(Held) = {task} /\ IsInjective(Held)
        BY <4>2 DEF ToSet, IsInjective
      <4> QED BY <3>1, <4>1, <4>2, <4>3
    <3>2. CASE wpc \notin Processes
      BY <3>2, EmptyList DEF Held
    <3> QED BY <3>1, <3>2
  <2> DEFINE first == iolist \o Held
  <2>3. /\ first \in Seq(Tasks)
        /\ IsInjective(first)
        /\ ToSet(first) = ToSet(iolist) \cup ToSet(Held)
    <3>1. ToSet(iolist) \cap ToSet(Held) = {}
      BY <2>2 DEF IOInv, ThreadInv, PlacesInv
    <3> QED BY <2>1, <2>2, <3>1, ConcatList DEF IOInv, ThreadInv, PlacesInv
  <2>4. TasksTracked <=> /\ IsInjective(first \o Canceling)
                         /\ ToSet(first \o Canceling) = {i \in Tasks : state[i] = QUEUED}
    BY DEF TasksTracked
  <2>5. IsInjective(Canceling) /\ ToSet(first) \cap ToSet(Canceling) = {}
    BY <2>2, <2>3 DEF IOInv, ThreadInv, PlacesInv
  <2>6. {i \in Tasks : state[i] = QUEUED} = ToSet(first) \cup ToSet(Canceling)
    BY <2>2, <2>3 DEF IOInv, ThreadInv, PlacesInv
  <2> HIDE DEF first
  <2>7. /\ IsInjective(first \o Canceling)
        /\ ToSet(first \o Canceling) = ToSet(first) \cup ToSet(Canceling)
    BY <2>1, <2>3, <2>5, ConcatList
  <2> QED BY <2>4, <2>6, <2>7
<1> QED BY <1>1, IOInvariant, PTL

\* One event for each processed or cancelled task, however worker, clients and
\* cancelall_iolist interleave: a client never waits for an event in vain.
THEOREM EventsMatchTasks == Spec => []EventPerTask
<1>1. IOInv => EventPerTask
  BY DEF IOInv, ThreadInv
<1> QED BY <1>1, IOInvariant, PTL


-----------------------------------------------------------------------------
(* The ring of buffers *)

\* The buffers are numbered from 0.
LEMMA RingNumbers ==
    /\ NrTasks \in Nat /\ NrTasks > 1
    /\ \A i : i \in Tasks <=> i \in Nat /\ i < NrTasks
    /\ BufferSize \in Nat \ {0} /\ MaxFileSize \in Nat \ {0}
    /\ Clients = {Owner} /\ NoTask \notin Tasks
<1>1. NrTasks \in Nat
  BY IOThreadAssumption, FS_CardinalityType DEF NrTasks
<1>2. Tasks = 0 .. NrTasks - 1 /\ NrTasks > 1
  BY IOStreamAssumption DEF NrTasks
<1> QED BY <1>1, <1>2, IOStreamAssumption, IOThreadAssumption

\* Counting on in the ring and back.
LEMMA Modulo ==
    ASSUME NEW m \in Nat \ {0}, NEW a \in Nat, a < m
    PROVE  a % m = a /\ (a + m) % m = a
OBVIOUS

\* The buffers on both sides of a buffer.
LEMMA Neighbours ==
    ASSUME nextbuffer \in Tasks
    PROVE  /\ Following \in Tasks /\ Previous \in Tasks
           /\ Following = IF nextbuffer = NrTasks - 1 THEN 0 ELSE nextbuffer + 1
           /\ Previous = IF nextbuffer = 0 THEN NrTasks - 1 ELSE nextbuffer - 1
<1> DEFINE m == NrTasks
           n == nextbuffer
<1>1. m \in Nat /\ m > 1 /\ n \in Nat /\ n < m
  BY RingNumbers
<1> HIDE DEF m, n
<1>2. (n + 1) % m = IF n = m - 1 THEN 0 ELSE n + 1
  <2>1. CASE n = m - 1
    <3>1. (0 + m) % m = 0
      BY <1>1, Modulo
    <3>2. n + 1 = 0 + m
      BY <1>1, <2>1
    <3> QED BY <2>1, <3>1, <3>2
  <2>2. CASE n # m - 1
    <3>1. n + 1 \in Nat /\ n + 1 < m
      BY <1>1, <2>2
    <3>2. (n + 1) % m = n + 1
      BY <1>1, <3>1, Modulo
    <3> QED BY <2>2, <3>2
  <2> QED BY <2>1, <2>2
<1>3. (n + m - 1) % m = IF n = 0 THEN m - 1 ELSE n - 1
  <2>1. CASE n = 0
    <3>1. m - 1 \in Nat /\ m - 1 < m /\ n + m - 1 = m - 1
      BY <1>1, <2>1
    <3>2. (m - 1) % m = m - 1
      BY <1>1, <3>1, Modulo
    <3> QED BY <2>1, <3>1, <3>2
  <2>2. CASE n # 0
    <3>1. n - 1 \in Nat /\ n - 1 < m /\ n + m - 1 = (n - 1) + m
      BY <1>1, <2>2
    <3>2. ((n - 1) + m) % m = n - 1
      BY <1>1, <3>1, Modulo
    <3> QED BY <2>2, <3>1, <3>2
  <2> QED BY <2>1, <2>2
<1>4. Following = (n + 1) % m /\ Previous = (n + m - 1) % m
  BY DEF Following, Previous, n, m
<1>5. \A i : i \in Tasks <=> i \in Nat /\ i < m
  BY RingNumbers DEF m
<1> QED BY <1>1, <1>2, <1>3, <1>4, <1>5 DEF m, n

\* Distances in the ring.
LEMMA Distances ==
    ASSUME NEW f \in Tasks
    PROVE  /\ Distance(f, f) = 0
           /\ \A i \in Tasks : Distance(i, f) \in Nat /\ Distance(i, f) < NrTasks
           /\ \A i, j \in Tasks : Distance(i, f) = Distance(j, f) => i = j
BY RingNumbers DEF Distance

\* The distances from the following buffer are less by one.
LEMMA DistancesNext ==
    ASSUME NEW f \in Tasks, NEW g \in Tasks, g = IF f = NrTasks - 1 THEN 0 ELSE f + 1
    PROVE  /\ Distance(g, f) = 1
           /\ Distance(f, g) = NrTasks - 1
           /\ \A i \in Tasks \ {f} : Distance(i, f) = Distance(i, g) + 1
BY RingNumbers DEF Distance

\* The first buffer is taken.
LEMMA RingTake ==
    ASSUME NEW A, NEW f \in Tasks, NEW g \in Tasks, g = IF f = NrTasks - 1 THEN 0 ELSE f + 1,
           NEW n \in Nat, n < NrTasks, f \in A, NEW pos \in Nat, NEW end \in Nat,
           NEW off \in [Tasks -> Nat], NEW size \in [Tasks -> Nat],
           Ring(A, f, n, pos, end, off, size)
    PROVE  n > 0 /\ off[f] = pos /\ Ring(A \ {f}, g, n - 1, pos + size[f], end, off, size)
<1>1. /\ Distance(f, f) = 0
      /\ \A i \in Tasks : Distance(i, f) \in Nat /\ Distance(i, f) < NrTasks
  BY ONLY f \in Tasks, Distances
<1>2. /\ Distance(g, f) = 1 /\ Distance(f, g) = NrTasks - 1
      /\ \A i \in Tasks \ {f} : Distance(i, f) = Distance(i, g) + 1
  BY DistancesNext
<1>3. \A i \in Tasks : Distance(i, g) \in Nat /\ Distance(i, g) < NrTasks
  BY ONLY g \in Tasks, Distances
<1>4. NrTasks \in Nat /\ \A i \in Tasks : off[i] \in Nat /\ size[i] \in Nat
  BY RingNumbers
<1>5. n > 0
  BY <1>1 DEF Ring
<1>6. off[f] = pos
  BY <1>5 DEF Ring
<1>7. \A i \in Tasks : i \in A \ {f} <=> Distance(i, g) < n - 1
  <2> SUFFICES ASSUME NEW i \in Tasks PROVE i \in A \ {f} <=> Distance(i, g) < n - 1
    OBVIOUS
  <2>1. i \in A <=> Distance(i, f) < n
    BY DEF Ring
  <2>2. CASE i = f
    BY <1>2, <1>4, <2>2
  <2>3. CASE i # f
    BY <1>2, <1>3, <1>4, <2>1, <2>3
  <2> QED BY <2>2, <2>3
<1>8. IF n - 1 = 0 THEN pos + size[f] = end ELSE off[g] = pos + size[f]
  <2>1. CASE n = 1
    <3>1. off[f] + size[f] = end
      BY <1>1, <2>1 DEF Ring
    <3> QED BY <1>6, <2>1, <3>1
  <2>2. CASE n # 1
    <3>1. Distance(g, f) < n /\ Distance(g, f) = Distance(f, f) + 1
      BY <1>1, <1>2, <1>5, <2>2
    <3>2. off[g] = off[f] + size[f]
      BY <3>1 DEF Ring
    <3> QED BY <1>6, <2>2, <3>2
  <2> QED BY <2>1, <2>2
<1>9. \A i \in Tasks : Distance(i, g) < n - 1 => i # f /\ Distance(i, f) < n
  BY <1>2, <1>3, <1>4
<1>10. \A i \in Tasks : Distance(i, g) < n - 1 => off[i] + size[i] <= end
  BY <1>9 DEF Ring
<1>11. \A i \in Tasks : Distance(i, g) = n - 1 - 1 => off[i] + size[i] = end
  <2>1. \A i \in Tasks : Distance(i, g) = n - 1 - 1 => Distance(i, f) = n - 1
    BY <1>2, <1>3, <1>4
  <2> QED BY <2>1 DEF Ring
<1>12. ASSUME NEW i \in Tasks, NEW j \in Tasks,
              Distance(j, g) < n - 1, Distance(j, g) = Distance(i, g) + 1
       PROVE  off[j] = off[i] + size[i]
  <2>1. i # f /\ j # f
    BY <1>2, <1>3, <1>4, <1>12
  <2>2. Distance(j, f) < n /\ Distance(j, f) = Distance(i, f) + 1
    BY <1>2, <1>3, <1>12, <2>1
  <2> QED BY <2>2 DEF Ring
<1>13. Ring(A \ {f}, g, n - 1, pos + size[f], end, off, size)
  BY <1>7, <1>8, <1>10, <1>11, <1>12 DEF Ring
<1> QED BY <1>5, <1>6, <1>13

\* One more block is queued, behind the last one.
LEMMA RingAppend ==
    ASSUME NEW A, NEW f \in Tasks, NEW n \in Nat, n < NrTasks, NEW j \in Tasks, Distance(j, f) = n,
           NEW pos \in Nat, NEW end \in Nat, NEW z \in Nat,
           NEW off \in [Tasks -> Nat], NEW size \in [Tasks -> Nat],
           Ring(A, f, n, pos, end, off, size)
    PROVE  Ring(A \cup {j}, f, n + 1, pos, end + z, [off EXCEPT ![j] = end], [size EXCEPT ![j] = z])
<1> DEFINE off2 == [off EXCEPT ![j] = end]
           size2 == [size EXCEPT ![j] = z]
<1>1. /\ Distance(f, f) = 0
      /\ \A i \in Tasks : Distance(i, f) \in Nat
      /\ \A i, k \in Tasks : Distance(i, f) = Distance(k, f) => i = k
  BY ONLY f \in Tasks, Distances
<1>2. /\ \A i \in Tasks : off[i] \in Nat /\ size[i] \in Nat /\ off2[i] \in Nat /\ size2[i] \in Nat
      /\ off2[j] = end /\ size2[j] = z
      /\ \A i \in Tasks \ {j} : off2[i] = off[i] /\ size2[i] = size[i]
  OBVIOUS
<1> HIDE DEF off2, size2
<1>3. \A i \in Tasks : Distance(i, f) < n + 1 <=> Distance(i, f) < n \/ i = j
  BY <1>1
<1>4. \A i \in Tasks : Distance(i, f) < n => i # j
  BY <1>1
<1>5. \A i \in Tasks : i \in A \cup {j} <=> Distance(i, f) < n + 1
  BY <1>3 DEF Ring
<1>6. off2[f] = pos
  <2>1. CASE n = 0
    <3>1. j = f /\ pos = end
      BY <1>1, <2>1 DEF Ring
    <3> QED BY <1>2, <3>1
  <2>2. CASE n # 0
    <3>1. f # j /\ off[f] = pos
      BY <1>1, <2>2 DEF Ring
    <3> QED BY <1>2, <3>1
  <2> QED BY <2>1, <2>2
<1>7. \A i \in Tasks : Distance(i, f) < n + 1 => off2[i] + size2[i] <= end + z
  <2>1. \A i \in Tasks : Distance(i, f) < n => off2[i] + size2[i] <= end
    BY <1>2, <1>4 DEF Ring
  <2>2. off2[j] + size2[j] <= end + z
    BY <1>2
  <2>3. \A i \in Tasks : off2[i] + size2[i] <= end => off2[i] + size2[i] <= end + z
    BY <1>2
  <2> QED BY <1>3, <2>1, <2>2, <2>3
<1>8. \A i \in Tasks : Distance(i, f) = n + 1 - 1 => off2[i] + size2[i] = end + z
  <2>1. \A i \in Tasks : Distance(i, f) = n + 1 - 1 => i = j
    BY <1>1
  <2> QED BY <1>2, <2>1
<1>9. ASSUME NEW i \in Tasks, NEW k \in Tasks,
             Distance(k, f) < n + 1, Distance(k, f) = Distance(i, f) + 1
      PROVE  off2[k] = off2[i] + size2[i]
  <2>1. i # j
    BY <1>1, <1>9
  <2>2. CASE k = j
    <3>1. Distance(i, f) = n - 1
      BY <1>1, <1>9, <2>2
    <3>2. off[i] + size[i] = end
      BY <3>1 DEF Ring
    <3> QED BY <1>2, <2>1, <2>2, <3>2
  <2>3. CASE k # j
    <3>1. Distance(k, f) < n
      BY <1>3, <1>9, <2>3
    <3>2. off[k] = off[i] + size[i]
      BY <1>9, <3>1 DEF Ring
    <3> QED BY <1>2, <2>1, <2>3, <3>2
  <2> QED BY <2>2, <2>3
<1>10. n + 1 # 0
  OBVIOUS
<1> QED BY <1>5, <1>6, <1>7, <1>8, <1>9, <1>10 DEF Ring, off2, size2

\* Multiples in order.
LEMMA Multiples ==
    ASSUME NEW a \in Nat, NEW b \in Nat, NEW m \in Nat
    PROVE  /\ a * m \in Nat /\ (a + 1) * m = a * m + m
           /\ a <= b => a * m <= b * m
<1>1. ASSUME a <= b PROVE a * m <= b * m
  <2> DEFINE d == b - a
  <2>1. d \in Nat /\ b = a + d
    BY <1>1
  <2> HIDE DEF d
  <2>2. (a + d) * m = a * m + d * m /\ d * m \in Nat /\ a * m \in Nat
    BY <2>1
  <2> QED BY <2>1, <2>2
<1> QED BY <1>1

\* The number of blocks of a file: the last of them may be shorter.
LEMMA NumberOfBlocks ==
    ASSUME NEW F \in Nat, NEW B \in Nat \ {0}, NEW q, q = (F + B - 1) \div B
    PROVE  q \in Nat /\ F <= q * B /\ \A i \in Nat : i < q => i * B < F
<1>1. q \in Nat /\ q * B <= F + B - 1 /\ F + B - 1 < q * B + B
  <2> DEFINE x == F + B - 1
  <2>1. x \in Nat
    OBVIOUS
  <2> HIDE DEF x
  <2>2. x \div B \in Nat /\ (x \div B) * B <= x /\ x < (x \div B) * B + B
    BY <2>1
  <2> QED BY <2>2 DEF x
<1>2. F <= q * B
  BY <1>1
<1>3. ASSUME NEW i \in Nat, i < q PROVE i * B < F
  <2>1. (i + 1) * B <= q * B /\ (i + 1) * B = i * B + B /\ i * B \in Nat
    BY <1>1, <1>3, Multiples
  <2>2. q * B \in Nat
    BY <1>1
  <2> QED BY <1>1, <2>1, <2>2
<1> QED BY <1>1, <1>2, <1>3

\* start_reading: the blocks from the start of the file on, as many as there are
\* buffers but one.
LEMMA RingStart ==
    ASSUME NEW F \in Nat, NEW nr, nr = NrStart(F),
           NEW off, off = [i \in Tasks |-> IF i < nr THEN i * BufferSize ELSE 0],
           NEW size, size = [i \in Tasks |-> IF i < nr THEN Smaller(BufferSize, F - i * BufferSize)
                                             ELSE BufferSize],
           NEW end, end = Smaller(F, nr * BufferSize)
    PROVE  /\ nr \in 0 .. NrTasks - 1 /\ end \in 0 .. F /\ (end < F => nr = NrTasks - 1)
           /\ off \in [Tasks -> 0 .. F] /\ size \in [Tasks -> 0 .. BufferSize]
           /\ Ring({i \in Tasks : i < nr}, 0, nr, 0, end, off, size)
<1> DEFINE B == BufferSize
           q == (F + B - 1) \div B
<1>1. /\ NrTasks \in Nat /\ NrTasks > 1 /\ B \in Nat \ {0}
      /\ \A i : i \in Tasks <=> i \in Nat /\ i < NrTasks
  BY RingNumbers
<1>2. q \in Nat /\ F <= q * B /\ \A i \in Nat : i < q => i * B < F
  BY <1>1, NumberOfBlocks
<1>3. nr = IF NrTasks - 1 < q THEN NrTasks - 1 ELSE q
  BY DEF NrStart, Smaller
<1>. end = IF F < nr * B THEN F ELSE nr * B
  BY DEF Smaller
<1>4. \A i \in Tasks : /\ off[i] = IF i < nr THEN i * B ELSE 0
                       /\ size[i] = IF i < nr THEN (IF B < F - i * B THEN B ELSE F - i * B) ELSE B
  BY DEF Smaller
<1>5. off \in [Tasks -> {off[i] : i \in Tasks}] /\ size \in [Tasks -> {size[i] : i \in Tasks}]
  OBVIOUS
<1> HIDE DEF q, B
<1>6. nr \in Nat /\ nr <= NrTasks - 1 /\ nr <= q
  BY <1>1, <1>2, <1>3
<1>7. nr * B \in Nat /\ (nr < NrTasks - 1 => F <= nr * B)
  BY <1>1, <1>2, <1>3, <1>6
<1>8. \A i \in Tasks : i < nr => /\ i * B \in Nat /\ i * B < F /\ (i + 1) * B = i * B + B
                                 /\ i * B + B <= nr * B
  <2> SUFFICES ASSUME NEW i \in Tasks, i < nr
               PROVE  /\ i * B \in Nat /\ i * B < F /\ (i + 1) * B = i * B + B
                      /\ i * B + B <= nr * B
    OBVIOUS
  <2>1. i \in Nat /\ i + 1 <= nr /\ i < q
    <3>1. i \in Nat /\ i < nr
      BY <1>1
    <3> QED BY ONLY <1>2, <1>6, <3>1
  <2>2. i * B \in Nat /\ (i + 1) * B = i * B + B /\ (i + 1) * B <= nr * B
    BY <1>1, <1>6, <2>1, Multiples
  <2> QED BY <1>2, <2>1, <2>2
<1>9. \A i \in Tasks : /\ off[i] \in 0 .. F /\ size[i] \in 0 .. B
                       /\ i < nr => off[i] + size[i] = IF F < (i + 1) * B THEN F ELSE (i + 1) * B
  <2> SUFFICES ASSUME NEW i \in Tasks
               PROVE  /\ off[i] \in 0 .. F /\ size[i] \in 0 .. B
                      /\ i < nr => off[i] + size[i] = IF F < (i + 1) * B THEN F ELSE (i + 1) * B
    OBVIOUS
  <2>1. CASE i < nr
    <3> DEFINE x == i * B
    <3>1. x \in Nat /\ x < F /\ (i + 1) * B = x + B /\ off[i] = x
      BY <1>4, <1>8, <2>1
    <3>2. size[i] = IF B < F - x THEN B ELSE F - x
      BY <1>4, <2>1
    <3> HIDE DEF x
    <3> QED BY <1>1, <3>1, <3>2
  <2>2. CASE ~(i < nr)
    BY <1>1, <1>4, <2>2
  <2> QED BY <2>1, <2>2
<1>10. \A i \in Tasks : Distance(i, 0) = i
  BY <1>1 DEF Distance
<1>11. end \in 0 .. F /\ (end < F => nr = NrTasks - 1)
  BY <1>1, <1>6, <1>7
<1>12. IF nr = 0 THEN 0 = end ELSE off[0] = 0
  <2>1. CASE nr = 0
    <3>1. nr * B = 0
      BY <1>1, <2>1
    <3> QED BY <2>1, <3>1
  <2>2. CASE nr # 0
    <3>1. 0 \in Tasks /\ 0 < nr /\ 0 * B = 0
      BY <1>1, <1>6, <2>2
    <3> QED BY <1>4, <2>2, <3>1
  <2> QED BY <2>1, <2>2
<1>13. \A i \in Tasks : i < nr => off[i] + size[i] <= end
  <2> SUFFICES ASSUME NEW i \in Tasks, i < nr PROVE off[i] + size[i] <= end
    OBVIOUS
  <2>1. /\ off[i] + size[i] = IF F < (i + 1) * B THEN F ELSE (i + 1) * B
        /\ (i + 1) * B \in Nat /\ (i + 1) * B <= nr * B
    BY <1>1, <1>8, <1>9
  <2> QED BY <1>7, <2>1
<1>14. \A i \in Tasks : i = nr - 1 => off[i] + size[i] = end
  <2> SUFFICES ASSUME NEW i \in Tasks, i = nr - 1 PROVE off[i] + size[i] = end
    OBVIOUS
  <2>1. i < nr /\ i + 1 = nr
    BY <1>1, <1>6
  <2> QED BY <1>9, <2>1
<1>15. \A i, j \in Tasks : j < nr /\ j = i + 1 => off[j] = off[i] + size[i]
  <2> SUFFICES ASSUME NEW i \in Tasks, NEW j \in Tasks, j < nr, j = i + 1
               PROVE  off[j] = off[i] + size[i]
    OBVIOUS
  <2>1. i < nr /\ off[j] = j * B /\ j * B < F /\ j * B \in Nat
    BY <1>1, <1>4, <1>6, <1>8
  <2>2. off[i] + size[i] = IF F < j * B THEN F ELSE j * B
    BY <1>9, <2>1
  <2> QED BY <2>1, <2>2
<1>16. Ring({i \in Tasks : i < nr}, 0, nr, 0, end, off, size)
  BY <1>10, <1>12, <1>13, <1>14, <1>15 DEF Ring
<1>17. off \in [Tasks -> 0 .. F] /\ size \in [Tasks -> 0 .. B]
  BY <1>5, <1>9
<1>18. nr \in 0 .. NrTasks - 1
  BY <1>1, <1>6
<1> QED BY <1>11, <1>16, <1>17, <1>18 DEF B

-----------------------------------------------------------------------------
(* The tasks while a stream uses them *)

\* Outside of the reader's own steps, tasks only become ready which were queued.
OnlyQueuedEnd == \A i \in Tasks : state'[i] = state[i] \/ (state[i] = QUEUED /\ state'[i] \in Ready)

\* The names of the states differ.
LEMMA StateNames == NULL # QUEUED /\ NULL \notin Ready /\ QUEUED \notin Ready /\ OK \in Ready
BY DEF NULL, QUEUED, Ready, OK, ERROR, CANCELED

\* The worker has a queued task until it publishes the state.
LEMMA WorkersTask ==
    ASSUME ThreadInv, wpc \in Processes
    PROVE  task \in Tasks /\ state[task] = QUEUED
BY DEF ThreadInv, WorkerInv, PlacesInv

\* What the functions of iothread.c and the worker do to tasks.
LEMMA ThreadSteps ==
    ASSUME ThreadInv,
           \/ WorkerStep \/ OwnerStep \/ InitThread \/ Free \/ Spurious
           \/ \E c \in Clients : ResumeWorker(c) \/ CancelStep(c)
    PROVE  OnlyQueuedEnd
<1>0. state \in [Tasks -> {NULL, QUEUED} \cup Ready]
  BY DEF ThreadInv, TypeOK
<1>1. CASE Publish
  <2>1. task \in Tasks /\ state[task] = QUEUED /\ result \in Ready
    BY <1>1, WorkersTask DEF Publish, Processes, ThreadInv, WorkerInv
  <2> QED BY <1>0, <1>1, <2>1 DEF Publish, OnlyQueuedEnd
<1>2. ASSUME NEW c \in Clients, CancelState(c) PROVE OnlyQueuedEnd
  <2>1. /\ Canceling = cancels /\ cancels \in Seq(Tasks) /\ cancels # <<>>
        /\ IsInjective(cancels)
    BY <1>2 DEF CancelState, Canceling, ThreadInv, CancelInv, TypeOK, PlacesInv
  <2>2. Head(cancels) \in Tasks /\ Head(cancels) \in ToSet(cancels)
    BY <2>1, TailList
  <2>3. state[Head(cancels)] = QUEUED
    BY <2>1, <2>2 DEF ThreadInv, PlacesInv
  <2>4. CANCELED \in Ready
    BY DEF Ready
  <2> QED BY <1>0, <1>2, <2>2, <2>3, <2>4 DEF CancelState, OnlyQueuedEnd
<1>3. CASE UNCHANGED state
  BY <1>3 DEF OnlyQueuedEnd
<1>4. CASE WorkerStep
  <2>1. Publish \/ UNCHANGED state
    BY <1>4 DEF WorkerStep, WorkerStart, WorkerLoop, RemoveTask, RemoveNoData, WorkerSleep,
                Process, DoIO, CountReady
  <2> QED BY <1>1, <1>3, <2>1
<1>5. CASE OwnerStep \/ InitThread \/ Free \/ Spurious
  BY <1>3, <1>5 DEF OwnerStep, InitSet, InitResume, FreeResume, FreeJoin, FreeDelete, InitThread,
                    Free, Spurious
<1>6. ASSUME NEW c \in Clients, ResumeWorker(c) \/ CancelStep(c) PROVE OnlyQueuedEnd
  <2>1. CancelState(c) \/ UNCHANGED state
    BY <1>6 DEF CancelStep, ResumeWorker, CancelStart, CancelCount, CancelEnd
  <2> QED BY <1>2, <1>3, <2>1
<1> QED BY <1>4, <1>5, <1>6

\* The types of the reader's variables which the steps below use.
LEMMA StreamTypes ==
    ASSUME StreamTypeOK
    PROVE  /\ nextbuffer \in Tasks /\ held \in Tasks \cup {NoTask}
           /\ filesize \in 0 .. MaxFileSize /\ readpos \in Nat /\ filesize \in Nat /\ consumed \in Nat
           /\ offset \in [Tasks -> Nat] /\ bufsize \in [Tasks -> Nat]
           /\ Position \in Nat /\ First \in Tasks /\ NrTasks \in Nat
           /\ MaxAhead \in Nat /\ MaxAhead < NrTasks
<1>1. /\ nextbuffer \in Tasks /\ held \in Tasks \cup {NoTask}
      /\ filesize \in 0 .. MaxFileSize /\ readpos \in Nat /\ filesize \in Nat /\ consumed \in Nat
  BY RingNumbers DEF StreamTypeOK
<1>2. offset \in [Tasks -> 0 .. MaxFileSize] /\ bufsize \in [Tasks -> 0 .. BufferSize]
  BY DEF StreamTypeOK
<1>3. offset \in [Tasks -> Nat] /\ bufsize \in [Tasks -> Nat]
  BY <1>2, RingNumbers
<1>4. Position \in Nat
  BY <1>1, <1>3 DEF Position
<1>5. First \in Tasks
  BY <1>1, Neighbours DEF First
<1>6. NrTasks \in Nat /\ MaxAhead \in Nat /\ MaxAhead < NrTasks
  BY RingNumbers DEF MaxAhead
<1> QED BY <1>1, <1>3, <1>4, <1>5, <1>6

\* What the reader has and what is ahead of it does not exceed what was queued.
LEMMA PositionBound ==
    ASSUME StreamTypeOK, RingInv, rpc \in Reading
    PROVE  Position <= readpos /\ readpos <= filesize
<1>1. /\ readpos <= filesize
      /\ \E n \in 0 .. MaxAhead : Ring(Ahead, First, n, Position, readpos, offset, bufsize)
  BY DEF RingInv
<1>2. PICK n \in 0 .. MaxAhead : Ring(Ahead, First, n, Position, readpos, offset, bufsize)
  BY <1>1
<1>3. /\ Position \in Nat /\ First \in Tasks /\ readpos \in Nat /\ MaxAhead \in Nat
      /\ offset[First] \in Nat /\ bufsize[First] \in Nat
  BY StreamTypes
<1>4. CASE n = 0
  BY <1>1, <1>2, <1>3, <1>4 DEF Ring
<1>5. CASE n # 0
  <2>1. Distance(First, First) = 0
    BY ONLY <1>3, Distances
  <2>2. offset[First] = Position /\ offset[First] + bufsize[First] <= readpos
    BY <1>2, <1>3, <1>5, <2>1 DEF Ring
  <2> QED BY <1>1, <1>3, <2>2
<1> QED BY <1>4, <1>5

\* A buffer which is ahead is none the reader has.
LEMMA HeldIsBehind ==
    ASSUME StreamTypeOK, RingInv, HeldInv, held # NoTask
    PROVE  held \in Tasks /\ state[held] = NULL
<1>1. /\ rpc \in {"idle", "queue"} /\ Distance(held, First) = NrTasks - 1 /\ held \in Tasks
      /\ NrTasks \in Nat /\ MaxAhead \in Nat /\ MaxAhead < NrTasks
  BY StreamTypes DEF HeldInv
<1>2. PICK n \in 0 .. MaxAhead : Ring(Ahead, First, n, Position, readpos, offset, bufsize)
  BY <1>1 DEF RingInv, Reading
<1>3. held \notin Ahead
  BY <1>1, <1>2 DEF Ring
<1> QED BY <1>1, <1>3 DEF Ahead

-----------------------------------------------------------------------------
(* Steps which leave the ring alone *)

\* The reader's buffers stay in the ring as long as none is queued or taken.
LEMMA RingFrame ==
    ASSUME StreamTypeOK, RingInv, OnlyQueuedEnd, UNCHANGED ringVars, UNCHANGED readerVars,
           rpc' \in Reading => rpc \in Reading,
           rpc' = "queue" <=> rpc = "queue",
           rpc' = "insert" <=> rpc = "insert"
    PROVE  RingInv' /\ First' = First /\ Position' = Position
<1>1. /\ nextbuffer' = nextbuffer /\ filesize' = filesize /\ readpos' = readpos
      /\ offset' = offset /\ bufsize' = bufsize /\ held' = held /\ consumed' = consumed
  BY DEF ringVars, readerVars
<1>2. First' = First
  BY <1>1 DEF First, Following
<1>3. Position' = Position
  BY <1>1 DEF Position
<1>4. MaxAhead' = MaxAhead
  BY DEF MaxAhead
<1>5. Ahead' = Ahead
  <2>1. \A i \in Tasks : state'[i] # NULL <=> state[i] # NULL
    BY StateNames DEF OnlyQueuedEnd
  <2> QED BY <1>1, <2>1 DEF Ahead
<1>6. RingInv'
  BY <1>1, <1>2, <1>3, <1>4, <1>5 DEF RingInv, Ring
<1> QED BY <1>2, <1>3, <1>6

\* Steps of the worker and of functions of iothread.c.
LEMMA OthersInv ==
    ASSUME StreamInv, StreamTypeOK', ThreadInv', OnlyQueuedEnd,
           UNCHANGED rpc, UNCHANGED ringVars, UNCHANGED readerVars,
           rpc = "closing" => ~alive' /\ pc'[Owner] \notin {"init", "initresume"}
    PROVE  StreamInv'
<1>1. RingInv' /\ First' = First /\ Position' = Position
  BY RingFrame DEF StreamInv
<1>2. filesize' = filesize /\ held' = held /\ consumed' = consumed /\ offset' = offset /\ rpc' = rpc
  BY DEF ringVars, readerVars
<1>3. HeldInv'
  BY <1>1, <1>2 DEF StreamInv, HeldInv, Distance
<1>4. QuietInv'
  <2>1. \A i \in Tasks : /\ state'[i] = QUEUED => state[i] = QUEUED
                         /\ state[i] = NULL => state'[i] = NULL
    BY StateNames DEF OnlyQueuedEnd
  <2>2. InFile => InFile'
    BY <1>2, <2>1 DEF InFile, ringVars
  <2> QED BY <1>2, <2>1, <2>2 DEF StreamInv, QuietInv
<1>5. EndMeansAllRead'
  BY <1>2 DEF StreamInv, EndMeansAllRead
<1> QED BY <1>1, <1>3, <1>4, <1>5 DEF StreamInv

\* Steps of readnext_iobufferstream which neither queue nor take a buffer.
LEMMA ReaderInv ==
    ASSUME StreamInv, UNCHANGED ringVars, UNCHANGED readerVars, UNCHANGED content, UNCHANGED state,
           rpc \in {"next", "wait"}, rpc' \in {"next", "wait", "eof", "failed"},
           rpc' = "eof" => consumed = filesize,
           ThreadInv'
    PROVE  StreamInv'
<1>1. OnlyQueuedEnd
  BY DEF OnlyQueuedEnd
<1>2. RingInv'
  BY <1>1, RingFrame DEF StreamInv, Reading
<1>3. /\ filesize' = filesize /\ held' = held /\ consumed' = consumed /\ offset' = offset
      /\ nextbuffer' = nextbuffer /\ readpos' = readpos /\ bufsize' = bufsize
  BY DEF ringVars, readerVars
<1>4. StreamTypeOK'
  BY <1>3 DEF StreamInv, StreamTypeOK
<1>5. HeldInv'
  BY <1>3 DEF StreamInv, HeldInv
<1>6. QuietInv' /\ EndMeansAllRead'
  BY <1>3 DEF QuietInv, EndMeansAllRead
<1> QED BY <1>2, <1>4, <1>5, <1>6 DEF StreamInv

\* What the reader does with tasks which are not queued, and with events, concerns
\* nobody else.
LEMMA NotQueuedInv ==
    ASSUME ThreadInv, UNCHANGED <<objectVars, listVars, pending, workerVars, pc, alive>>,
           ready' \in Nat, state' \in [Tasks -> {NULL, QUEUED} \cup Ready],
           \A i \in Tasks : state'[i] = QUEUED <=> state[i] = QUEUED
    PROVE  ThreadInv'
<1> USE DEF ThreadInv
<1>1. TypeOK'
  BY DEF TypeOK
<1>2. CancelInv' /\ WorkerInv' /\ StopInv' /\ LifeInv' /\ WorkerAwake'
  BY DEF CancelInv, WorkerInv, StopInv, LifeInv, WorkerAwake
<1>3. PlacesInv'
  <2>1. Canceling' = Canceling
    BY DEF Canceling
  <2>2. {i \in Tasks : state'[i] = QUEUED} = {i \in Tasks : state[i] = QUEUED}
    OBVIOUS
  <2> QED BY <2>1, <2>2 DEF PlacesInv
<1> QED BY <1>1, <1>2, <1>3

-----------------------------------------------------------------------------
(* init_iobufferstream and readnext_iobufferstream *)

\* Before the stream is opened there is no worker, and no buffer is given out.
LEMMA StreamInitInv == StreamInit => StreamInv
<1> SUFFICES ASSUME StreamInit PROVE StreamInv
  OBVIOUS
<1> USE DEF StreamInit
<1>1. ThreadInv
  BY InitInv DEF IOInv
<1>2. StreamTypeOK
  <2>1. 0 \in Tasks /\ 0 \in 0 .. MaxFileSize /\ 0 \in 0 .. BufferSize
    BY RingNumbers
  <2>2. -1 \in -1 .. MaxFileSize - 1
    BY RingNumbers
  <2> QED BY <2>1, <2>2 DEF StreamTypeOK
<1>3. RingInv /\ HeldInv /\ EndMeansAllRead
  BY DEF RingInv, HeldInv, EndMeansAllRead, Reading
<1>4. QuietInv
  BY StateNames DEF QuietInv, Init
<1> QED BY <1>1, <1>2, <1>3, <1>4 DEF StreamInv

\* init_iothread is called.
LEMMA OpenInv ==
    ASSUME StreamInv, Open
    PROVE  StreamInv'
<1> USE DEF Open
<1>1. ThreadInv'
  BY InitThreadInv DEF StreamInv
<1>2. StreamTypeOK'
  <2>1. filesize' \in 0 .. MaxFileSize
    BY RingNumbers
  <2> QED BY <2>1 DEF StreamInv, StreamTypeOK, readerVars
<1>3. held' = NoTask
  BY DEF StreamInv, HeldInv, readerVars
<1>4. RingInv' /\ HeldInv' /\ EndMeansAllRead'
  BY <1>3 DEF RingInv, HeldInv, EndMeansAllRead, Reading
<1>5. QuietInv'
  BY DEF StreamInv, QuietInv, InitThread
<1> QED BY <1>1, <1>2, <1>4, <1>5 DEF StreamInv

\* The blocks which are read first are chosen.
LEMMA StartReadingInv ==
    ASSUME StreamInv, StartReading
    PROVE  StreamInv'
<1> USE DEF StartReading
<1> DEFINE nr == NrStart(filesize)
<1>0. /\ filesize \in Nat /\ filesize <= MaxFileSize /\ filesize' = filesize
      /\ NrTasks \in Nat /\ NrTasks > 1 /\ 0 \in Tasks /\ MaxFileSize \in Nat
  <2>1. filesize \in 0 .. MaxFileSize /\ filesize' = filesize
    BY DEF StreamInv, StreamTypeOK
  <2> QED BY ONLY <2>1, RingNumbers
<1>1. /\ nr \in 0 .. NrTasks - 1 /\ readpos' \in 0 .. filesize
      /\ (readpos' < filesize => nr = NrTasks - 1)
      /\ offset' \in [Tasks -> 0 .. filesize] /\ bufsize' \in [Tasks -> 0 .. BufferSize]
      /\ Ring({i \in Tasks : i < nr}, 0, nr, 0, readpos', offset', bufsize')
  BY <1>0, RingStart
<1>2. held = NoTask /\ held' = NoTask
  BY DEF StreamInv, HeldInv
<1>3. \A i \in Tasks : state'[i] = NULL /\ state[i] # QUEUED
  BY DEF StreamInv, QuietInv
<1>4. ThreadInv'
  <2>1. ready' \in Nat
    BY DEF StreamInv, ThreadInv, TypeOK
  <2>2. \A i \in Tasks : state'[i] = QUEUED <=> state[i] = QUEUED
    BY <1>3, StateNames
  <2> QED BY <2>1, <2>2, NotQueuedInv DEF StreamInv
<1>5. StreamTypeOK'
  <2>1. readpos' \in 0 .. MaxFileSize
    BY <1>0, <1>1
  <2>2. 0 .. filesize \subseteq 0 .. MaxFileSize
    BY <1>0
  <2>3. offset' \in [Tasks -> 0 .. MaxFileSize]
    BY <1>1, <2>2
  <2>4. consumed' \in 0 .. MaxFileSize
    BY <1>0
  <2> QED BY <1>0, <1>1, <2>1, <2>3, <2>4 DEF StreamInv, StreamTypeOK
<1>6. RingInv'
  <2>1. Ahead' = {i \in Tasks : i < nr}
    BY DEF Ahead
  <2>2. First' = 0 /\ Position' = 0 /\ MaxAhead' = NrTasks - 1
    BY <1>2 DEF First, Position, MaxAhead
  <2>3. Ring(Ahead', First', nr, Position', readpos', offset', bufsize')
    BY <1>1, <2>1, <2>2
  <2> HIDE DEF nr
  <2>4. nr \in 0 .. MaxAhead' /\ (readpos' < filesize' => nr = MaxAhead') /\ readpos' <= filesize'
    BY <1>0, <1>1, <2>2
  <2> QED BY <2>3, <2>4 DEF RingInv, Ring, Distance
<1>7. HeldInv' /\ EndMeansAllRead' /\ QuietInv'
  BY <1>2, <1>3 DEF HeldInv, EndMeansAllRead, QuietInv
<1> QED BY <1>4, <1>5, <1>6, <1>7 DEF StreamInv

\* At least one buffer is not queued at first.
LEMMA StartCount ==
    ASSUME NEW F \in Nat
    PROVE  NrStart(F) \in Nat /\ NrStart(F) <= NrTasks - 1
<1> DEFINE nr == NrStart(F)
           off == [i \in Tasks |-> IF i < nr THEN i * BufferSize ELSE 0]
           size == [i \in Tasks |-> IF i < nr THEN Smaller(BufferSize, F - i * BufferSize)
                                    ELSE BufferSize]
           end == Smaller(F, nr * BufferSize)
<1>1. /\ off = [i \in Tasks |-> IF i < nr THEN i * BufferSize ELSE 0]
      /\ size = [i \in Tasks |-> IF i < nr THEN Smaller(BufferSize, F - i * BufferSize)
                                 ELSE BufferSize]
      /\ end = Smaller(F, nr * BufferSize) /\ nr = NrStart(F)
  OBVIOUS
<1> HIDE DEF nr, off, size, end
<1>2. nr \in 0 .. NrTasks - 1
  BY <1>1, RingStart
<1> QED BY <1>1, <1>2, RingNumbers

\* They are queued, all at once and in order.
LEMMA StartInsertInv ==
    ASSUME StreamInv, StartInsert
    PROVE  StreamInv'
<1> USE DEF StartInsert
<1> DEFINE nr == NrStart(filesize)
           ts == [k \in 1 .. nr |-> k - 1]
<1>0. /\ filesize \in Nat /\ \A i : i \in Tasks <=> i \in Nat /\ i < NrTasks
      /\ NrTasks \in Nat /\ Owner \in Clients
  BY RingNumbers, IOThreadAssumption DEF StreamInv, StreamTypeOK
<1>1. nr \in Nat /\ nr <= NrTasks - 1
  BY <1>0, StartCount
<1>2. ts \in Seq(Tasks) /\ IsInjective(ts) /\ DOMAIN ts = 1 .. nr /\ InsertLast(Owner, ts)
  <2> HIDE DEF nr
  <2>1. \A k \in 1 .. nr : k - 1 \in Tasks
    BY <1>0, <1>1
  <2>2. ts \in Seq(Tasks)
    BY <1>1, <2>1
  <2>3. IsInjective(ts)
    BY <1>1 DEF IsInjective
  <2> QED BY <2>2, <2>3 DEF nr
<1>3. ToSet(ts) = {i \in Tasks : i < nr}
  <2> HIDE DEF nr
  <2>1. \A k \in 1 .. nr : ts[k] \in Tasks /\ ts[k] < nr
    BY <1>0, <1>1
  <2>2. \A i \in Tasks : i < nr => i + 1 \in 1 .. nr /\ ts[i + 1] = i
    BY <1>0, <1>1
  <2> QED BY <1>2, <2>1, <2>2 DEF ToSet
<1>4. \A i \in Tasks : state'[i] = IF i < nr THEN QUEUED ELSE NULL
  <2>1. \A i \in Tasks : state[i] = NULL
    BY DEF StreamInv, QuietInv
  <2>2. state' = [i \in Tasks |-> IF i \in ToSet(ts) THEN QUEUED ELSE state[i]]
    BY <1>2 DEF InsertLast
  <2> HIDE DEF ts, nr
  <2> QED BY <1>3, <2>1, <2>2
<1>5. ThreadInv'
  BY <1>0, <1>2, InsertLastInv DEF StreamInv
<1>6. /\ filesize' = filesize /\ held' = held /\ consumed' = consumed /\ offset' = offset
      /\ nextbuffer' = nextbuffer /\ readpos' = readpos /\ bufsize' = bufsize
      /\ content' = content /\ rpc' = "idle" /\ rpc = "insert"
  BY DEF ringVars, readerVars
<1> HIDE DEF StartInsert
<1>7. StreamTypeOK'
  BY <1>6 DEF StreamInv, StreamTypeOK
<1>8. RingInv'
  <2>1. Ahead' = Ahead
    BY <1>4, <1>6, StateNames DEF Ahead
  <2>2. First' = First /\ Position' = Position /\ MaxAhead' = MaxAhead
    BY <1>6 DEF First, Position, MaxAhead
  <2> QED BY <1>6, <2>1, <2>2 DEF StreamInv, RingInv, Ring, Reading
<1>9. HeldInv' /\ EndMeansAllRead' /\ QuietInv'
  BY <1>6 DEF StreamInv, HeldInv, EndMeansAllRead, QuietInv
<1> QED BY <1>5, <1>7, <1>8, <1>9 DEF StreamInv

\* The reader gives its buffer back.
LEMMA ReadNextInv ==
    ASSUME StreamInv, ReadNext
    PROVE  StreamInv'
<1>0. /\ rpc = "idle" /\ rpc' = "next" /\ held' = NoTask
      /\ consumed' = IF held = NoTask THEN consumed ELSE consumed + bufsize[held]
      /\ filesize' = filesize /\ offset' = offset /\ content' = content
      /\ nextbuffer' = nextbuffer /\ readpos' = readpos /\ bufsize' = bufsize
      /\ state' = state /\ UNCHANGED vars
  BY DEF ReadNext, ringVars, vars
<1>1. ThreadInv'
  BY <1>0, StutterInv DEF StreamInv
<1>2. consumed' = Position /\ Position' = Position
  <2>1. consumed \in Nat
    BY StreamTypes DEF StreamInv
  <2>2. consumed + 0 = consumed
    BY <2>1
  <2>3. consumed' = Position
    BY <1>0, <2>2 DEF Position
  <2>4. Position \in Nat
    BY StreamTypes DEF StreamInv
  <2>5. Position' = consumed' + 0
    BY <1>0 DEF Position
  <2> QED BY <2>3, <2>4, <2>5
<1>3. StreamTypeOK'
  <2>1. /\ Position <= readpos /\ readpos <= filesize
        /\ Position \in Nat /\ readpos \in Nat /\ filesize \in 0 .. MaxFileSize
    BY <1>0, PositionBound, StreamTypes DEF StreamInv, Reading
  <2>2. consumed' \in 0 .. MaxFileSize
    BY <1>2, <2>1, RingNumbers
  <2> QED BY <1>0, <2>2 DEF StreamInv, StreamTypeOK
<1>4. RingInv'
  <2>1. Ahead' = Ahead
    BY <1>0 DEF Ahead
  <2>2. First' = First /\ MaxAhead' = MaxAhead
    BY <1>0 DEF First, MaxAhead
  <2> QED BY <1>0, <1>2, <2>1, <2>2 DEF StreamInv, RingInv, Ring, Reading
<1>5. HeldInv' /\ EndMeansAllRead' /\ QuietInv'
  BY <1>0 DEF HeldInv, EndMeansAllRead, QuietInv
<1> QED BY <1>1, <1>3, <1>4, <1>5 DEF StreamInv

\* A buffer which is neither ahead nor queued is the end of what was read ahead; the
\* other buffers were not queued because the file has ended.
LEMMA NextNoDataInv ==
    ASSUME StreamInv, NextNoData
    PROVE  StreamInv'
<1>0. /\ rpc = "next" /\ state[nextbuffer] = NULL /\ rpc' = "eof" /\ UNCHANGED vars
      /\ UNCHANGED ringVars /\ UNCHANGED readerVars /\ UNCHANGED content /\ UNCHANGED state
  BY DEF NextNoData, vars
<1>1. ThreadInv'
  BY <1>0, StutterInv DEF StreamInv
<1>2. consumed = filesize
  <2>1. /\ nextbuffer \in Tasks /\ readpos \in Nat /\ filesize \in Nat /\ consumed \in Nat
        /\ MaxAhead \in Nat /\ NrTasks \in Nat /\ NrTasks > 1
    BY StreamTypes, RingNumbers DEF StreamInv
  <2>2. PICK n \in 0 .. MaxAhead :
            /\ Ring(Ahead, First, n, Position, readpos, offset, bufsize)
            /\ readpos < filesize => n = MaxAhead
    BY <1>0 DEF StreamInv, RingInv, Reading
  <2>3. readpos <= filesize
    BY <1>0 DEF StreamInv, RingInv, Reading
  <2>4. First = nextbuffer /\ MaxAhead = NrTasks - 1 /\ nextbuffer \notin Ahead
    BY <1>0 DEF First, MaxAhead, Ahead
  <2>5. Distance(nextbuffer, nextbuffer) = 0
    BY ONLY <2>1, Distances
  <2>6. n = 0
    <3>1. ~(0 < n)
      BY <2>1, <2>2, <2>4, <2>5 DEF Ring
    <3> QED BY <2>1, <2>2, <3>1
  <2>7. Position = readpos
    BY <2>2, <2>6 DEF Ring
  <2>8. Position = consumed
    <3>1. held = NoTask
      BY <1>0 DEF StreamInv, HeldInv
    <3> QED BY <2>1, <3>1 DEF Position
  <2> QED BY <2>1, <2>2, <2>3, <2>4, <2>6, <2>7, <2>8
<1> QED BY <1>0, <1>1, <1>2, ReaderInv

\* The other ways to go on with a buffer which is not ready.
LEMMA NextWaitErrorInv ==
    ASSUME StreamInv, NextWait \/ NextError
    PROVE  StreamInv'
<1>0. /\ rpc = "next" /\ rpc' \in {"wait", "failed"} /\ UNCHANGED vars
      /\ UNCHANGED ringVars /\ UNCHANGED readerVars /\ UNCHANGED content /\ UNCHANGED state
  BY DEF NextWait, NextError, vars
<1>1. ThreadInv'
  BY <1>0, StutterInv DEF StreamInv
<1> QED BY <1>0, <1>1, ReaderInv

\* An event is taken.
LEMMA WaitEventInv ==
    ASSUME StreamInv, WaitEvent
    PROVE  StreamInv'
<1>0. /\ rpc = "wait" /\ rpc' = "next"
      /\ UNCHANGED <<objectVars, listVars, pending, workerVars, pc, alive>>
      /\ UNCHANGED ringVars /\ UNCHANGED readerVars /\ UNCHANGED content /\ UNCHANGED state
      /\ ready > 0 /\ ready' = ready - 1
  BY DEF WaitEvent, Counter!Take
<1>1. ThreadInv'
  <2>1. ready' \in Nat
    BY <1>0 DEF StreamInv, ThreadInv, TypeOK
  <2>2. state' \in [Tasks -> {NULL, QUEUED} \cup Ready]
    BY <1>0 DEF StreamInv, ThreadInv, TypeOK
  <2> QED BY <1>0, <2>1, <2>2, NotQueuedInv DEF StreamInv
<1> QED BY <1>0, <1>1, ReaderInv

\* The first buffer of the ring is given to the reader.
LEMMA NextTakeInv ==
    ASSUME StreamInv, NextTake
    PROVE  StreamInv'
<1>0. /\ rpc = "next" /\ rpc' = "queue" /\ held' = nextbuffer /\ state[nextbuffer] = OK
      /\ state' = [state EXCEPT ![nextbuffer] = NULL]
      /\ UNCHANGED <<objectVars, listVars, pending, workerVars, pc, alive>> /\ ready' = ready
      /\ filesize' = filesize /\ consumed' = consumed /\ offset' = offset /\ content' = content
      /\ nextbuffer' = nextbuffer /\ readpos' = readpos /\ bufsize' = bufsize
  BY DEF NextTake, ringVars
<1>1. /\ nextbuffer \in Tasks /\ readpos \in Nat /\ filesize \in Nat /\ consumed \in Nat
      /\ MaxAhead \in Nat /\ NrTasks \in Nat /\ NrTasks > 1 /\ MaxAhead < NrTasks
      /\ offset \in [Tasks -> Nat] /\ bufsize \in [Tasks -> Nat] /\ Position \in Nat
      /\ state \in [Tasks -> {NULL, QUEUED} \cup Ready]
  BY StreamTypes, RingNumbers DEF StreamInv, ThreadInv, TypeOK
<1>2. held = NoTask /\ held' # NoTask
  BY <1>0, <1>1, RingNumbers DEF StreamInv, HeldInv
<1>3. /\ Following \in Tasks
      /\ Following = IF nextbuffer = NrTasks - 1 THEN 0 ELSE nextbuffer + 1
  BY <1>1, Neighbours
<1>4. Distance(nextbuffer, Following) = NrTasks - 1
  BY <1>1, <1>3, DistancesNext
<1>5. ThreadInv'
  <2>1. ready' \in Nat
    BY <1>0 DEF StreamInv, ThreadInv, TypeOK
  <2>2. state' \in [Tasks -> {NULL, QUEUED} \cup Ready]
    BY <1>0, <1>1
  <2>3. \A i \in Tasks : state'[i] = QUEUED <=> state[i] = QUEUED
    BY <1>0, <1>1, StateNames
  <2> QED BY <1>0, <2>1, <2>2, <2>3, NotQueuedInv DEF StreamInv
<1>6. StreamTypeOK'
  BY <1>0, <1>1 DEF StreamInv, StreamTypeOK
<1>7. PICK n \in 0 .. MaxAhead :
          /\ Ring(Ahead, First, n, Position, readpos, offset, bufsize)
          /\ readpos < filesize => n = MaxAhead
  BY <1>0 DEF StreamInv, RingInv, Reading
<1>8. readpos <= filesize
  BY <1>0 DEF StreamInv, RingInv, Reading
<1>9. /\ First = nextbuffer /\ First' = Following
      /\ MaxAhead = NrTasks - 1 /\ MaxAhead' = NrTasks - 2
      /\ Position = consumed /\ Position' = consumed + bufsize[nextbuffer]
  <2>1. First' = Following
    BY <1>0 DEF First, Following
  <2>2. Position = consumed /\ Position' = consumed + bufsize[nextbuffer]
    BY <1>0, <1>1, <1>2 DEF Position
  <2> QED BY <1>0, <2>1, <2>2 DEF First, MaxAhead
<1>10. Ahead' = Ahead \ {nextbuffer} /\ nextbuffer \in Ahead
  BY <1>0, <1>1, StateNames DEF Ahead
<1>11. /\ n > 0 /\ offset[nextbuffer] = consumed
       /\ Ring(Ahead', First', n - 1, Position', readpos, offset, bufsize)
  <2>1. n \in Nat /\ n < NrTasks
    BY <1>1, <1>7
  <2>2. Ring(Ahead, nextbuffer, n, consumed, readpos, offset, bufsize)
    BY <1>7, <1>9
  <2>3. /\ n > 0 /\ offset[nextbuffer] = consumed
        /\ Ring(Ahead \ {nextbuffer}, Following, n - 1, consumed + bufsize[nextbuffer],
                readpos, offset, bufsize)
    <3>1. nextbuffer \in Tasks /\ readpos \in Nat /\ consumed \in Nat
      BY <1>1
    <3>2. offset \in [Tasks -> Nat] /\ bufsize \in [Tasks -> Nat]
      BY <1>1
    <3>3. nextbuffer \in Ahead
      BY <1>10
    <3>4. Following \in Tasks
      BY <1>3
    <3>5. Following = IF nextbuffer = NrTasks - 1 THEN 0 ELSE nextbuffer + 1
      BY <1>3
    <3>6. n > 0
      BY ONLY <2>1, <2>2, <3>1, <3>2, <3>3, <3>4, <3>5, RingTake
    <3>7. offset[nextbuffer] = consumed
      BY <2>1, <2>2, <3>6 DEF Ring
    <3>8. Ring(Ahead \ {nextbuffer}, Following, n - 1, consumed + bufsize[nextbuffer],
               readpos, offset, bufsize)
      BY ONLY <2>1, <2>2, <3>1, <3>2, <3>3, <3>4, <3>5, RingTake
    <3> QED BY <3>6, <3>7, <3>8
  <2> QED BY <1>9, <1>10, <2>3
<1>12. RingInv'
  <2>1. n - 1 \in 0 .. MaxAhead' /\ (readpos < filesize => n - 1 = MaxAhead')
    BY <1>1, <1>7, <1>9, <1>11
  <2>2. readpos' <= filesize' /\ (readpos' < filesize' => n - 1 = MaxAhead')
    BY <1>0, <1>8, <2>1
  <2>3. Ring(Ahead', First', n - 1, Position', readpos', offset', bufsize')
    BY <1>0, <1>11
  <2> QED BY <2>1, <2>2, <2>3 DEF RingInv, Ring, Distance
<1>13. HeldInv'
  BY <1>0, <1>4, <1>9, <1>11 DEF HeldInv, Distance
<1>14. QuietInv' /\ EndMeansAllRead'
  BY <1>0 DEF QuietInv, EndMeansAllRead
<1> QED BY <1>5, <1>6, <1>12, <1>13, <1>14 DEF StreamInv

\* There is one buffer between the one which is given out and the last one ahead.
LEMMA PreviousDistance ==
    ASSUME nextbuffer \in Tasks
    PROVE  Distance(Previous, Following) = NrTasks - 2
<1> DEFINE a == Previous
           b == Following
           m == NrTasks
           x == nextbuffer
<1>1. /\ b = IF x = m - 1 THEN 0 ELSE x + 1
      /\ a = IF x = 0 THEN m - 1 ELSE x - 1
      /\ m \in Nat /\ m > 1 /\ x \in Nat /\ x < m
  BY Neighbours, RingNumbers
<1>2. Distance(a, b) = IF a >= b THEN a - b ELSE a - b + m
  BY DEF Distance
<1> HIDE DEF a, b, m, x
<1> QED BY <1>1, <1>2 DEF a, b, m

\* The buffer the reader had before is queued for the next block of the file.
LEMMA NextQueueInv ==
    ASSUME StreamInv, NextQueue
    PROVE  StreamInv'
<1> DEFINE size == Smaller(BufferSize, filesize - readpos)
           j == Previous
<1>0. /\ rpc = "queue" /\ rpc' = "idle" /\ readpos < filesize
      /\ bufsize' = [bufsize EXCEPT ![j] = size]
      /\ offset' = [offset EXCEPT ![j] = readpos]
      /\ readpos' = readpos + size
      /\ InsertLast(Owner, <<j>>)
      /\ nextbuffer' = Following
      /\ filesize' = filesize /\ content' = content /\ held' = held /\ consumed' = consumed
  BY DEF NextQueue, MoreToRead, readerVars
<1>1. /\ nextbuffer \in Tasks /\ readpos \in Nat /\ filesize \in Nat /\ consumed \in Nat
      /\ MaxAhead \in Nat /\ NrTasks \in Nat /\ NrTasks > 1 /\ MaxAhead < NrTasks
      /\ offset \in [Tasks -> Nat] /\ bufsize \in [Tasks -> Nat] /\ Position \in Nat
      /\ state \in [Tasks -> {NULL, QUEUED} \cup Ready]
      /\ BufferSize \in Nat \ {0} /\ MaxFileSize \in Nat /\ filesize \in 0 .. MaxFileSize
      /\ held \in Tasks \cup {NoTask} /\ Owner \in Clients
  BY StreamTypes, RingNumbers, IOThreadAssumption DEF StreamInv, ThreadInv, TypeOK
<1>2. j \in Tasks /\ Following \in Tasks /\ Distance(j, Following) = NrTasks - 2
  BY <1>1, Neighbours, PreviousDistance
<1>3. size \in 0 .. BufferSize /\ size \in Nat /\ readpos + size <= filesize
  BY <1>0, <1>1 DEF Smaller
<1> HIDE DEF size, j
<1>4. ThreadInv' /\ \A i \in Tasks : state'[i] = IF i = j THEN QUEUED ELSE state[i]
  <2>1. <<j>> \in Seq(Tasks) /\ IsInjective(<<j>>) /\ ToSet(<<j>>) = {j}
    <3> DEFINE s == <<j>>
    <3>1. s \in Seq(Tasks) /\ Len(s) = 1 /\ s[1] = j /\ DOMAIN s = 1 .. 1
      BY <1>2
    <3> HIDE DEF s
    <3>2. ToSet(s) = {j} /\ IsInjective(s)
      BY <3>1 DEF ToSet, IsInjective
    <3> QED BY <3>1, <3>2 DEF s
  <2>2. ThreadInv'
    BY <1>0, <1>1, <2>1, InsertLastInv DEF StreamInv
  <2>3. state' = [i \in Tasks |-> IF i \in ToSet(<<j>>) THEN QUEUED ELSE state[i]]
    BY <1>0 DEF InsertLast
  <2> QED BY <2>1, <2>2, <2>3
<1>5. StreamTypeOK'
  <2>1. offset' \in [Tasks -> 0 .. MaxFileSize] /\ bufsize' \in [Tasks -> 0 .. BufferSize]
    <3>1. readpos \in 0 .. MaxFileSize
      BY DEF StreamInv, StreamTypeOK
    <3> QED BY <1>0, <1>3, <3>1 DEF StreamInv, StreamTypeOK
  <2>2. readpos' \in 0 .. MaxFileSize
    BY <1>0, <1>1, <1>3
  <2> QED BY <1>0, <1>2, <2>1, <2>2 DEF StreamInv, StreamTypeOK
<1>6. PICK n \in 0 .. MaxAhead :
          /\ Ring(Ahead, First, n, Position, readpos, offset, bufsize)
          /\ readpos < filesize => n = MaxAhead
  BY <1>0 DEF StreamInv, RingInv, Reading
<1>7. First = Following /\ First' = Following /\ MaxAhead = NrTasks - 2 /\ MaxAhead' = NrTasks - 1
  BY <1>0 DEF First, MaxAhead
<1>8. n = NrTasks - 2
  BY <1>0, <1>6, <1>7
<1>9. held # NoTask => held # j /\ offset'[held] = offset[held] /\ bufsize'[held] = bufsize[held]
  <2>1. held # NoTask => Distance(held, Following) = NrTasks - 1
    BY <1>7 DEF StreamInv, HeldInv
  <2>2. held # NoTask => held # j
    BY <1>1, <1>2, <2>1
  <2> QED BY <1>0, <1>1, <1>2, <2>2
<1>10. Position' = Position
  BY <1>0, <1>9 DEF Position
<1>11. Ahead' = Ahead \cup {j}
  BY <1>0, <1>2, <1>4, StateNames DEF Ahead
<1>12. Ring(Ahead', First', n + 1, Position', readpos', offset', bufsize')
  <2>1. n \in Nat /\ n < NrTasks /\ Distance(j, Following) = n
    BY <1>1, <1>2, <1>6, <1>8
  <2>2. Ring(Ahead, Following, n, Position, readpos, offset, bufsize)
    BY <1>6, <1>7
  <2>3. Ring(Ahead \cup {j}, Following, n + 1, Position, readpos + size,
             [offset EXCEPT ![j] = readpos], [bufsize EXCEPT ![j] = size])
    BY ONLY <1>1, <1>2, <1>3, <2>1, <2>2, RingAppend
  <2> QED BY <1>0, <1>7, <1>10, <1>11, <2>3
<1>13. RingInv'
  <2>1. n + 1 \in 0 .. MaxAhead' /\ n + 1 = MaxAhead'
    BY <1>1, <1>7, <1>8
  <2>2. readpos' <= filesize'
    BY <1>0, <1>3
  <2> QED BY <1>12, <2>1, <2>2 DEF RingInv, Ring, Distance
<1>14. HeldInv'
  BY <1>0, <1>7, <1>9 DEF StreamInv, HeldInv, Distance
<1>15. QuietInv' /\ EndMeansAllRead'
  BY <1>0 DEF QuietInv, EndMeansAllRead
<1> QED BY <1>4, <1>5, <1>13, <1>14, <1>15 DEF StreamInv

\* The whole file was read or is being read.
LEMMA NextLastInv ==
    ASSUME StreamInv, NextLast
    PROVE  StreamInv'
<1>0. /\ rpc = "queue" /\ rpc' = "idle" /\ ~(readpos < filesize)
      /\ nextbuffer' = Following /\ UNCHANGED vars /\ state' = state
      /\ filesize' = filesize /\ content' = content /\ held' = held /\ consumed' = consumed
      /\ readpos' = readpos /\ offset' = offset /\ bufsize' = bufsize
  BY DEF NextLast, MoreToRead, readerVars, vars
<1>1. ThreadInv'
  BY <1>0, StutterInv DEF StreamInv
<1>2. nextbuffer \in Tasks /\ Following \in Tasks /\ NrTasks \in Nat /\ NrTasks > 1
  BY StreamTypes, Neighbours, RingNumbers DEF StreamInv
<1>3. StreamTypeOK'
  BY <1>0, <1>2 DEF StreamInv, StreamTypeOK
<1>4. /\ First = Following /\ First' = Following /\ MaxAhead = NrTasks - 2 /\ MaxAhead' = NrTasks - 1
      /\ Position' = Position /\ Ahead' = Ahead
  BY <1>0 DEF First, MaxAhead, Position, Ahead
<1>5. RingInv'
  <2>1. /\ readpos <= filesize
        /\ \E n \in 0 .. MaxAhead : Ring(Ahead, First, n, Position, readpos, offset, bufsize)
    BY <1>0 DEF StreamInv, RingInv, Reading
  <2>2. PICK n \in 0 .. MaxAhead : Ring(Ahead, First, n, Position, readpos, offset, bufsize)
    BY <2>1
  <2>3. n \in 0 .. MaxAhead'
    BY <1>2, <1>4
  <2>4. Ring(Ahead', First', n, Position', readpos', offset', bufsize')
    BY <1>0, <1>4, <2>2
  <2> QED BY <1>0, <2>1, <2>3, <2>4 DEF RingInv, Ring, Distance
<1>6. HeldInv'
  BY <1>0, <1>4 DEF StreamInv, HeldInv, Distance
<1>7. QuietInv' /\ EndMeansAllRead'
  BY <1>0 DEF QuietInv, EndMeansAllRead
<1> QED BY <1>1, <1>3, <1>5, <1>6, <1>7 DEF StreamInv

-----------------------------------------------------------------------------
(* free_iobufferstream and the other steps *)

\* The blocks which are read were chosen from the file.
LEMMA TasksInFile ==
    ASSUME StreamInv
    PROVE  InFile
<1> SUFFICES ASSUME NEW i \in Tasks, state[i] = QUEUED
             PROVE  offset[i] + bufsize[i] <= filesize
  BY DEF InFile
<1>1. CASE rpc \in Reading
  <2>1. /\ readpos \in Nat /\ filesize \in Nat /\ offset[i] \in Nat /\ bufsize[i] \in Nat
        /\ readpos <= filesize
    BY <1>1, StreamTypes DEF StreamInv, RingInv
  <2>2. i \in Ahead
    BY <1>1, StateNames DEF StreamInv, QuietInv, Ahead
  <2>3. PICK n \in 0 .. MaxAhead : Ring(Ahead, First, n, Position, readpos, offset, bufsize)
    BY <1>1 DEF StreamInv, RingInv
  <2>4. offset[i] + bufsize[i] <= readpos
    BY <2>2, <2>3 DEF Ring
  <2> QED BY <2>1, <2>4
<1>2. CASE rpc \notin Reading
  BY <1>2 DEF StreamInv, StreamTypeOK, QuietInv, Reading, InFile
<1> QED BY <1>1, <1>2

\* The reader's buffer belongs to nobody any more.
LEMMA CloseInv ==
    ASSUME StreamInv, Close
    PROVE  StreamInv'
<1>0. /\ rpc' = "closing" /\ held' = NoTask /\ Free
      /\ filesize' = filesize /\ consumed' = consumed /\ offset' = offset /\ content' = content
      /\ nextbuffer' = nextbuffer /\ readpos' = readpos /\ bufsize' = bufsize
  BY DEF Close, ringVars
<1>1. ThreadInv'
  BY <1>0, FreeInv DEF StreamInv
<1>2. StreamTypeOK'
  BY <1>0 DEF StreamInv, StreamTypeOK
<1>3. RingInv' /\ HeldInv' /\ EndMeansAllRead'
  BY <1>0 DEF RingInv, HeldInv, EndMeansAllRead, Reading
<1>4. QuietInv'
  <2>1. pc'[Owner] = "freeresume" /\ alive' = FALSE
    BY <1>0, IOThreadAssumption DEF Free, StreamInv, ThreadInv, TypeOK
  <2>2. InFile'
    BY <1>0, TasksInFile DEF InFile, Free
  <2> QED BY <1>0, <2>1, <2>2 DEF QuietInv
<1> QED BY <1>1, <1>2, <1>3, <1>4 DEF StreamInv

\* free_iothread has ended: every task was processed or cancelled.
LEMMA CloseDoneInv ==
    ASSUME StreamInv, CloseDone
    PROVE  StreamInv'
<1>0. /\ rpc = "closing" /\ rpc' = "closed" /\ pc[Owner] = "idle" /\ ~alive
      /\ UNCHANGED <<objectVars, listVars, pending, workerVars, pc, alive>>
      /\ state' = state /\ ready' = 0
      /\ filesize' = filesize /\ consumed' = consumed /\ offset' = offset /\ content' = content
      /\ nextbuffer' = nextbuffer /\ readpos' = readpos /\ bufsize' = bufsize /\ held' = held
  BY DEF CloseDone, Counter!Reset, ringVars, readerVars, StreamInv, QuietInv
<1>1. ThreadInv'
  <2>1. ready' \in Nat /\ state' \in [Tasks -> {NULL, QUEUED} \cup Ready]
    BY <1>0 DEF StreamInv, ThreadInv, TypeOK
  <2> QED BY <1>0, <2>1, NotQueuedInv DEF StreamInv
<1>2. StreamTypeOK'
  BY <1>0 DEF StreamInv, StreamTypeOK
<1>3. \A i \in Tasks : state[i] # QUEUED
  <2>1. wpc = "none" /\ iolist = <<>>
    BY <1>0 DEF StreamInv, ThreadInv, LifeInv
  <2>2. Canceling = <<>>
    <3>1. \A c \in Clients : pc[c] = "idle"
      BY <1>0, RingNumbers
    <3>2. lock = NoClient
      BY <3>1 DEF StreamInv, ThreadInv, TypeOK, CancelInv
    <3>3. cancels = <<>>
      BY <3>2 DEF StreamInv, ThreadInv, CancelInv
    <3> QED BY <3>1, <3>3 DEF Canceling
  <2>3. {i \in Tasks : state[i] = QUEUED} = {}
    BY <2>1, <2>2, EmptyList DEF StreamInv, ThreadInv, PlacesInv, Processes
  <2> QED BY <2>3
<1>4. held = NoTask
  BY <1>0 DEF StreamInv, HeldInv
<1>5. RingInv' /\ HeldInv' /\ EndMeansAllRead' /\ QuietInv'
  BY <1>0, <1>3, <1>4 DEF RingInv, HeldInv, EndMeansAllRead, QuietInv, Reading
<1> QED BY <1>1, <1>2, <1>5 DEF StreamInv

\* A block is transferred, in whole or in part.
LEMMA ReadBlockInv ==
    ASSUME StreamInv, ReadBlock
    PROVE  StreamInv'
<1>0. /\ DoIO /\ UNCHANGED rpc /\ UNCHANGED ringVars /\ UNCHANGED readerVars
      /\ state' = state /\ alive' = alive /\ pc' = pc
  BY DEF ReadBlock, DoIO
<1>1. ThreadInv'
  BY <1>0, DoIOInv DEF StreamInv
<1>2. content' \in [Tasks -> [0 .. BufferSize - 1 -> -1 .. MaxFileSize - 1]]
  <2>1. PICK t \in Transfers(bufsize[task]) :
            content' = [content EXCEPT ![task] =
                           [k \in DOMAIN @ |-> IF k < t.bytes THEN offset[task] + k ELSE @[k]]]
    BY DEF ReadBlock
  <2>2. task \in Tasks /\ state[task] = QUEUED
    BY <1>0, WorkersTask DEF StreamInv, DoIO, Processes
  <2>3. content \in [Tasks -> [0 .. BufferSize - 1 -> -1 .. MaxFileSize - 1]]
    BY DEF StreamInv, StreamTypeOK
  <2>4. /\ offset[task] \in Nat /\ offset[task] <= MaxFileSize
        /\ bufsize[task] \in Nat /\ bufsize[task] <= BufferSize
        /\ BufferSize \in Nat /\ MaxFileSize \in Nat
    BY <2>2, RingNumbers DEF StreamInv, StreamTypeOK
  <2>5. t.bytes \in Nat /\ t.bytes <= bufsize[task]
    BY <2>4 DEF Transfers
  <2>6. offset[task] + bufsize[task] <= MaxFileSize
    <3>1. offset[task] + bufsize[task] <= filesize
      BY <2>2, TasksInFile DEF InFile
    <3>2. filesize \in Nat /\ filesize <= MaxFileSize
      BY <2>4 DEF StreamInv, StreamTypeOK
    <3> QED BY <2>4, <3>1, <3>2
  <2>7. ASSUME NEW k \in 0 .. BufferSize - 1, k < t.bytes
        PROVE  offset[task] + k \in -1 .. MaxFileSize - 1
    BY <2>4, <2>5, <2>6, <2>7
  <2> DEFINE new == [k \in 0 .. BufferSize - 1 |->
                        IF k < t.bytes THEN offset[task] + k ELSE content[task][k]]
  <2>8. new \in [0 .. BufferSize - 1 -> -1 .. MaxFileSize - 1]
    BY <2>2, <2>3, <2>7
  <2>9. content' = [content EXCEPT ![task] = new]
    <3>1. DOMAIN content[task] = 0 .. BufferSize - 1
      BY <2>2, <2>3
    <3> QED BY <2>1, <2>2, <2>3, <3>1
  <2> HIDE DEF new
  <2> QED BY <2>2, <2>3, <2>8, <2>9
<1>3. StreamTypeOK'
  BY <1>0, <1>2 DEF StreamInv, StreamTypeOK, ringVars, readerVars
<1>4. OnlyQueuedEnd
  BY <1>0 DEF OnlyQueuedEnd
<1>5. rpc = "closing" => ~alive' /\ pc'[Owner] \notin {"init", "initresume"}
  BY <1>0 DEF StreamInv, QuietInv
<1> QED BY <1>0, <1>1, <1>3, <1>4, <1>5, OthersInv

\* The steps of the worker and of iothread.c which do not touch a buffer.
LEMMA ThreadStepInv ==
    ASSUME StreamInv, UNCHANGED streamVars,
           WorkerStep \/ OwnerStep \/ Spurious \/ \E c \in Clients : ResumeWorker(c) \/ CancelStep(c)
    PROVE  StreamInv'
<1>0. /\ UNCHANGED rpc /\ UNCHANGED ringVars /\ UNCHANGED readerVars /\ UNCHANGED content
  BY DEF streamVars
<1>1. ThreadInv'
  BY WorkerStepInv, CallInv, SpuriousInv DEF StreamInv
<1>2. OnlyQueuedEnd
  BY ThreadSteps DEF StreamInv
<1>3. StreamTypeOK'
  BY <1>0 DEF StreamInv, StreamTypeOK, ringVars, readerVars
<1>4. rpc = "closing" => ~alive' /\ pc'[Owner] \notin {"init", "initresume"}
  <2> SUFFICES ASSUME rpc = "closing" PROVE ~alive' /\ pc'[Owner] \notin {"init", "initresume"}
    OBVIOUS
  <2>1. ~alive /\ pc[Owner] \notin {"init", "initresume"} /\ Clients = {Owner}
        /\ pc \in [Clients -> {"idle", "init", "join", "cancelall", "cancel", "cancelcount", "delete"}
                              \cup Resumes]
    BY RingNumbers DEF StreamInv, QuietInv, ThreadInv, TypeOK
  <2>2. CASE WorkerStep \/ Spurious
    BY <2>1, <2>2 DEF WorkerStep, WorkerStart, WorkerLoop, RemoveTask, RemoveNoData, WorkerSleep,
                      Process, DoIO, Publish, CountReady, Spurious
  <2>3. CASE OwnerStep
    BY <2>1, <2>3 DEF OwnerStep, InitSet, InitResume, FreeResume, FreeJoin, FreeDelete, AfterJoin
  <2>4. ASSUME NEW c \in Clients, ResumeWorker(c) \/ CancelStep(c)
        PROVE  ~alive' /\ pc'[Owner] \notin {"init", "initresume"}
    BY <2>1, <2>4 DEF ResumeWorker, CancelStep, CancelStart, CancelState, CancelCount, CancelEnd
  <2> QED BY <2>2, <2>3, <2>4
<1> QED BY <1>0, <1>1, <1>2, <1>3, <1>4, OthersInv

\* Every step of the reader and of its thread keeps the invariant.
LEMMA StreamNextInv == StreamInv /\ [StreamNext]_allVars => StreamInv'
<1> SUFFICES ASSUME StreamInv, [StreamNext]_allVars PROVE StreamInv'
  OBVIOUS
<1>1. CASE Open \/ ReadNext \/ Close \/ ReadBlock
  BY <1>1, OpenInv, ReadNextInv, CloseInv, ReadBlockInv
<1>2. CASE ReaderCall
  BY <1>2, StartReadingInv, StartInsertInv, NextNoDataInv, NextWaitErrorInv, WaitEventInv,
     NextTakeInv, NextQueueInv, NextLastInv, CloseDoneInv DEF ReaderCall
<1>3. CASE ThreadCall
  BY <1>3, IOThreadAssumption, ThreadStepInv DEF ThreadCall
<1>4. CASE WorkerOther \/ (Spurious /\ UNCHANGED streamVars)
  BY <1>4, ThreadStepInv DEF WorkerOther
<1>5. CASE UNCHANGED allVars
  <2>1. UNCHANGED vars /\ UNCHANGED streamVars
    BY <1>5 DEF allVars
  <2>2. /\ UNCHANGED rpc /\ UNCHANGED ringVars /\ UNCHANGED readerVars /\ UNCHANGED content
        /\ state' = state /\ alive' = alive /\ pc' = pc
    BY <2>1 DEF streamVars, vars
  <2>3. ThreadInv'
    BY <2>1, StutterInv DEF StreamInv
  <2>4. StreamTypeOK' /\ OnlyQueuedEnd
    BY <2>2 DEF StreamInv, StreamTypeOK, ringVars, readerVars, OnlyQueuedEnd
  <2>5. rpc = "closing" => ~alive' /\ pc'[Owner] \notin {"init", "initresume"}
    BY <2>2 DEF StreamInv, QuietInv
  <2> QED BY <2>2, <2>3, <2>4, <2>5, OthersInv
<1> QED BY <1>1, <1>2, <1>3, <1>4, <1>5 DEF StreamNext

-----------------------------------------------------------------------------
(* What is in the buffers *)

\* Buffer i was read: its task ended with success, or is about to, and whoever has the
\* buffer did not give it back.
WasRead(i) == state[i] = OK \/ i = held \/ (wpc = "publish" /\ result = OK /\ i = task)

\* FilledInv, in terms of WasRead.
LEMMA FilledWhenRead == FilledInv <=> \A i \in Tasks : WasRead(i) => Filled(i)
BY DEF FilledInv, WasRead

\* Nothing which was read is changed as long as tasks and contents stay the same.
LEMMA FilledFrame ==
    ASSUME FilledInv, offset' = offset, bufsize' = bufsize, content' = content,
           \A i \in Tasks : WasRead(i)' => WasRead(i)
    PROVE  FilledInv'
<1> SUFFICES ASSUME NEW i \in Tasks, WasRead(i)' PROVE Filled(i)'
  BY DEF FilledInv, WasRead
<1>1. Filled(i)
  BY FilledWhenRead
<1> QED BY <1>1 DEF Filled

\* A buffer which the worker or the reader has is not taken into use for another block.
LEMMA ReadIsNotNull ==
    ASSUME StreamInv, NEW i \in Tasks, wpc = "publish" /\ i = task
    PROVE  state[i] = QUEUED /\ i # held
<1>1. state[i] = QUEUED
  BY WorkersTask DEF StreamInv, Processes
<1>2. held = NoTask \/ state[held] = NULL
  BY HeldIsBehind DEF StreamInv
<1> QED BY <1>1, <1>2, StateNames, RingNumbers

\* The worker: the state is published after the block was transferred.
LEMMA WorkerFills ==
    ASSUME StreamInv, FilledInv, UNCHANGED streamVars,
           WorkerStep \/ OwnerStep \/ Spurious \/ \E c \in Clients : ResumeWorker(c) \/ CancelStep(c),
           ~DoIO
    PROVE  FilledInv'
<1>0. offset' = offset /\ bufsize' = bufsize /\ content' = content /\ held' = held
  BY DEF streamVars, ringVars, readerVars
<1>1. state \in [Tasks -> {NULL, QUEUED} \cup Ready]
  BY DEF StreamInv, ThreadInv, TypeOK
<1>2. SUFFICES \A i \in Tasks : WasRead(i)' => WasRead(i)
  BY <1>0, FilledFrame
<1>3. CASE Publish
  BY <1>0, <1>1, <1>3 DEF Publish, WasRead
<1>4. ASSUME NEW c \in Clients, CancelState(c) PROVE \A i \in Tasks : WasRead(i)' => WasRead(i)
  BY <1>0, <1>1, <1>4 DEF CancelState, WasRead, CANCELED, OK
<1>5. CASE Process
  BY <1>0, <1>5 DEF Process, WasRead, CANCELED, ERROR, OK
<1>6. CASE WorkerStart \/ WorkerLoop \/ RemoveTask \/ RemoveNoData \/ WorkerSleep \/ CountReady
  BY <1>0, <1>6 DEF WorkerStart, WorkerLoop, RemoveTask, RemoveNoData, WorkerSleep, CountReady, WasRead
<1>7. CASE WorkerStep
  BY <1>3, <1>5, <1>6, <1>7 DEF WorkerStep
<1>8. CASE OwnerStep \/ Spurious
  BY <1>0, <1>8 DEF OwnerStep, InitSet, InitResume, FreeResume, FreeJoin, FreeDelete, Spurious, WasRead
<1>9. ASSUME NEW c \in Clients, ResumeWorker(c) \/ CancelStep(c)
      PROVE  \A i \in Tasks : WasRead(i)' => WasRead(i)
  <2>1. CASE CancelState(c)
    BY <1>4, <2>1
  <2>2. CASE ResumeWorker(c) \/ CancelStart(c) \/ CancelCount(c) \/ CancelEnd(c)
    BY <1>0, <2>2 DEF ResumeWorker, CancelStart, CancelCount, CancelEnd, WasRead
  <2> QED BY <1>9, <2>1, <2>2 DEF CancelStep
<1> QED BY <1>7, <1>8, <1>9

\* A block which was read as a whole fills what the task asked for.
LEMMA BlockFills ==
    ASSUME ~ShortReads, StreamInv, FilledInv, ReadBlock
    PROVE  FilledInv'
<1>0. /\ wpc = "io" /\ task' = task /\ state' = state
      /\ held' = held /\ offset' = offset /\ bufsize' = bufsize
  BY DEF ReadBlock, DoIO, ringVars, readerVars
<1>1. PICK t \in Transfers(bufsize[task]) :
          /\ result' = t.state
          /\ content' = [content EXCEPT ![task] =
                            [k \in DOMAIN @ |-> IF k < t.bytes THEN offset[task] + k ELSE @[k]]]
  BY DEF ReadBlock
<1>2. task \in Tasks /\ state[task] = QUEUED
  BY <1>0, WorkersTask DEF StreamInv, Processes
<1>3. /\ content \in [Tasks -> [0 .. BufferSize - 1 -> -1 .. MaxFileSize - 1]]
      /\ bufsize[task] \in 0 .. BufferSize /\ BufferSize \in Nat
  BY <1>2, RingNumbers DEF StreamInv, StreamTypeOK
<1>4. t.state = OK => t.bytes = bufsize[task]
  BY DEF Transfers, OK, ERROR
<1>5. \A i \in Tasks \ {task} : content'[i] = content[i]
  BY <1>1, <1>3
<1> SUFFICES ASSUME NEW i \in Tasks, WasRead(i)' PROVE Filled(i)'
  BY DEF FilledInv, WasRead
<1>6. CASE i = task
  <2>1. held # task
    <3>1. held = NoTask \/ state[held] = NULL
      BY HeldIsBehind DEF StreamInv
    <3> QED BY <1>2, <3>1, StateNames, RingNumbers
  <2>2. t.state = OK
    BY <1>0, <1>1, <1>2, <1>6, <2>1, StateNames DEF WasRead
  <2>3. \A k \in 0 .. bufsize[task] - 1 : content'[task][k] = offset[task] + k
    <3> SUFFICES ASSUME NEW k \in 0 .. bufsize[task] - 1
                 PROVE  content'[task][k] = offset[task] + k
      OBVIOUS
    <3>1. k \in DOMAIN content[task] /\ k < t.bytes
      <4>1. DOMAIN content[task] = 0 .. BufferSize - 1
        BY <1>2, <1>3
      <4>2. k \in 0 .. BufferSize - 1 /\ k < bufsize[task]
        BY ONLY <1>3, k \in 0 .. bufsize[task] - 1
      <4> QED BY <1>4, <2>2, <4>1, <4>2
    <3>2. content'[task] = [m \in DOMAIN content[task] |->
                               IF m < t.bytes THEN offset[task] + m ELSE content[task][m]]
      BY <1>1, <1>2, <1>3
    <3> QED BY <3>1, <3>2
  <2> QED BY <1>0, <1>6, <2>3 DEF Filled
<1>7. CASE i # task
  <2>1. WasRead(i)
    BY <1>0, <1>7 DEF WasRead
  <2>2. Filled(i)
    BY <2>1, FilledWhenRead
  <2> QED BY <1>0, <1>5, <1>7, <2>2 DEF Filled
<1> QED BY <1>6, <1>7

\* The steps of the reader: a buffer which was read is not queued again before the
\* reader has given it back.
LEMMA ReaderKeeps ==
    ASSUME StreamInv, FilledInv, Open \/ ReadNext \/ Close \/ ReaderCall
    PROVE  FilledInv'
<1>0. /\ state \in [Tasks -> {NULL, QUEUED} \cup Ready] /\ NoTask \notin Tasks
      /\ nextbuffer \in Tasks
  BY RingNumbers, StreamTypes DEF StreamInv, ThreadInv, TypeOK
<1>1. CASE Open
  <2>1. held' = held /\ offset' = offset /\ bufsize' = bufsize /\ content' = content /\ state' = state
    BY <1>1 DEF Open, InitThread, readerVars
  <2>2. wpc' = "start"
    BY <1>1 DEF Open, InitThread
  <2> QED BY <2>1, <2>2, FilledFrame DEF WasRead
<1>2. CASE ReadNext \/ Close
  <2>1. /\ held' = NoTask /\ offset' = offset /\ bufsize' = bufsize /\ content' = content
        /\ state' = state /\ wpc' = wpc /\ result' = result /\ task' = task
    BY <1>2 DEF ReadNext, Close, Free, ringVars, vars
  <2> QED BY <1>0, <2>1, FilledFrame DEF WasRead
<1>3. CASE NextNoData \/ NextWait \/ WaitEvent \/ NextError \/ NextLast \/ CloseDone
  <2>1. /\ held' = held /\ offset' = offset /\ bufsize' = bufsize /\ content' = content
        /\ state' = state /\ wpc' = wpc /\ result' = result /\ task' = task
    BY <1>3 DEF NextNoData, NextWait, WaitEvent, NextError, NextLast, CloseDone, ringVars, readerVars, vars
  <2> QED BY <2>1, FilledFrame DEF WasRead
<1>4. CASE StartInsert
  <2>1. /\ held' = held /\ offset' = offset /\ bufsize' = bufsize /\ content' = content
        /\ wpc' = wpc /\ result' = result /\ task' = task
    BY <1>4 DEF StartInsert, InsertLast, ringVars, readerVars
  <2>2. \A i \in Tasks : state'[i] = OK => state[i] = OK
    BY <1>4, StateNames DEF StartInsert, InsertLast
  <2> QED BY <2>1, <2>2, FilledFrame DEF WasRead
<1>5. CASE NextTake
  <2>1. /\ offset' = offset /\ bufsize' = bufsize /\ content' = content
        /\ wpc' = wpc /\ result' = result /\ task' = task
        /\ held' = nextbuffer /\ state[nextbuffer] = OK
        /\ state' = [state EXCEPT ![nextbuffer] = NULL]
    BY <1>5 DEF NextTake, ringVars
  <2>2. \A i \in Tasks : state'[i] = OK => state[i] = OK
    BY <1>0, <2>1, StateNames
  <2> QED BY <2>1, <2>2, FilledFrame DEF WasRead
<1>6. CASE StartReading
  <2>1. /\ rpc = "opening" /\ held' = held /\ \A i \in Tasks : state'[i] = NULL
        /\ wpc' = wpc /\ result' = result /\ task' = task
    BY <1>6 DEF StartReading
  <2>2. held = NoTask /\ \A i \in Tasks : state[i] # QUEUED
    BY <2>1 DEF StreamInv, HeldInv, QuietInv
  <2>3. \A i \in Tasks : ~(wpc = "publish" /\ i = task)
    BY <2>2, ReadIsNotNull
  <2>4. \A i \in Tasks : ~WasRead(i)'
    BY <1>0, <2>1, <2>2, <2>3, StateNames DEF WasRead
  <2> QED BY <2>4 DEF FilledInv, WasRead
<1>7. CASE NextQueue
  <2> DEFINE j == Previous
  <2>1. /\ rpc = "queue" /\ held' = held /\ content' = content
        /\ bufsize' = [bufsize EXCEPT ![j] = Smaller(BufferSize, filesize - readpos)]
        /\ offset' = [offset EXCEPT ![j] = readpos]
        /\ InsertLast(Owner, <<j>>)
    BY <1>7 DEF NextQueue, readerVars
  <2>2. /\ wpc' = wpc /\ result' = result /\ task' = task
        /\ state' = [i \in Tasks |-> IF i \in ToSet(<<j>>) THEN QUEUED ELSE state[i]]
    BY <2>1 DEF InsertLast
  <2>3. state[j] = NULL
    <3>1. 1 \in DOMAIN <<j>> /\ <<j>>[1] = j
      OBVIOUS
    <3> QED BY <2>1, <3>1 DEF InsertLast
  <2>4. j \in ToSet(<<j>>)
    <3>1. 1 \in DOMAIN <<j>> /\ <<j>>[1] = j
      OBVIOUS
    <3> QED BY <3>1 DEF ToSet
  <2>5. j \in Tasks /\ Distance(j, Following) = NrTasks - 2 /\ NrTasks \in Nat
    BY <1>0, Neighbours, PreviousDistance, RingNumbers
  <2>6. held # j
    <3>1. held # NoTask => Distance(held, Following) = NrTasks - 1
      BY <2>1 DEF StreamInv, HeldInv, First
    <3> QED BY <1>0, <2>5, <3>1
  <2>7. \A i \in Tasks : ~(wpc = "publish" /\ i = task /\ i = j)
    BY <2>3, ReadIsNotNull, StateNames
  <2> HIDE DEF j
  <2>8. \A i \in Tasks : i = j => ~WasRead(i)'
    BY <2>1, <2>2, <2>4, <2>5, <2>6, <2>7, StateNames DEF WasRead
  <2> SUFFICES ASSUME NEW i \in Tasks, WasRead(i)' PROVE Filled(i)'
    BY DEF FilledInv, WasRead
  <2>9. i # j
    BY <2>8
  <2>10. WasRead(i)
    BY <2>1, <2>2, StateNames DEF WasRead
  <2>11. Filled(i)
    BY <2>10, FilledWhenRead
  <2>12. bufsize'[i] = bufsize[i] /\ offset'[i] = offset[i] /\ content' = content
    BY <2>1, <2>9 DEF StreamInv, StreamTypeOK
  <2> QED BY <2>11, <2>12 DEF Filled
<1> QED BY <1>1, <1>2, <1>3, <1>4, <1>5, <1>6, <1>7 DEF ReaderCall

\* If every transfer which succeeds is complete, all buffers which were read are filled.
LEMMA FilledNext ==
    ASSUME ~ShortReads, StreamInv, FilledInv, [StreamNext]_allVars
    PROVE  FilledInv'
<1>1. CASE Open \/ ReadNext \/ Close \/ ReaderCall
  BY <1>1, ReaderKeeps
<1>2. CASE ReadBlock
  BY <1>2, BlockFills
<1>3. CASE ThreadCall
  <2>1. ~DoIO
    BY <1>3 DEF ThreadCall, OwnerStep, InitSet, InitResume, FreeResume, FreeJoin, FreeDelete,
                ResumeWorker, CancelStep, CancelStart, CancelState, CancelCount, CancelEnd, DoIO,
                StreamInv, ThreadInv, LifeInv
  <2> QED BY <1>3, <2>1, IOThreadAssumption, WorkerFills DEF ThreadCall
<1>4. CASE WorkerOther \/ (Spurious /\ UNCHANGED streamVars)
  <2>1. ~DoIO
    BY <1>4 DEF WorkerOther, Spurious, DoIO
  <2> QED BY <1>4, <2>1, WorkerFills DEF WorkerOther
<1>5. CASE UNCHANGED allVars
  <2>1. /\ held' = held /\ offset' = offset /\ bufsize' = bufsize /\ content' = content
        /\ state' = state /\ wpc' = wpc /\ result' = result /\ task' = task
    BY <1>5 DEF allVars, streamVars, ringVars, readerVars, vars
  <2> QED BY <2>1, FilledFrame DEF WasRead
<1> QED BY <1>1, <1>2, <1>3, <1>4, <1>5 DEF StreamNext

-----------------------------------------------------------------------------

\* The buffers which are read ahead, the one the reader works with and those it gave
\* back follow each other in the file, whatever the worker does in the meantime and
\* whether transfers succeed, fail or end early.
THEOREM StreamInvariant == StreamSpec => []StreamInv
<1> QED BY StreamInitInv, StreamNextInv, PTL DEF StreamSpec

\* readnext_iobufferstream returns ENODATA only after the reader had the whole file,
\* for any number and size of buffers.
THEOREM EndIsEnd == StreamSpec => []EndMeansAllRead
<1>1. StreamInv => EndMeansAllRead
  BY DEF StreamInv
<1> QED BY <1>1, StreamInvariant, PTL

\* The reader gets the file block by block, and no block is overwritten while the reader
\* works with it, provided that no transfer which is reported as a success is short.
THEOREM BlocksAreInOrder ==
    ASSUME ~ShortReads
    PROVE  StreamSpec => []BlocksInOrder
<1>1. StreamInit => FilledInv
  <2> SUFFICES ASSUME StreamInit PROVE FilledInv
    OBVIOUS
  <2>1. wpc = "none" /\ held = NoTask /\ \A i \in Tasks : state[i] = NULL
    BY DEF StreamInit, Init
  <2> QED BY <2>1, StateNames, RingNumbers DEF FilledInv
<1>2. StreamInv /\ FilledInv /\ [StreamNext]_allVars => FilledInv'
  BY FilledNext
<1>3. StreamInv /\ FilledInv => BlocksInOrder
  <2> SUFFICES ASSUME StreamInv, FilledInv, held # NoTask,
                      NEW k \in 0 .. bufsize[held] - 1
               PROVE  content[held][k] = consumed + k
    BY DEF BlocksInOrder
  <2>1. held \in Tasks /\ offset[held] = consumed
    BY DEF StreamInv, StreamTypeOK, HeldInv
  <2>2. Filled(held)
    BY <2>1 DEF FilledInv
  <2> QED BY <2>1, <2>2 DEF Filled
<1> QED BY <1>1, <1>2, <1>3, StreamInvariant, PTL DEF StreamSpec

=============================================================================
