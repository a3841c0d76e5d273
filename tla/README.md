# A verification development for C-kern (js-projekt)

`src/C-kern` is a C library for Linux: threads and their synchronisation, a
scheduler for cooperative functions, memory management, input/output, data
structures, and wrappers of graphics libraries.  This directory holds TLA+
models of the parts whose correctness depends on the order in which things
happen, the TLC configurations which check them on small instances, and TLAPS
proofs for the properties which matter most.

    tlc -config MCIOThread.cfg MCIOThread   # any of the twelve configurations
    tlapm RWLockProofs.tla                  # any of the proof modules

`PROJECT.json` lists the components, the runs, the source lines every definition
stands for, the hazards, and for every property a plausible mistake in the code
which it finds.

## 1. Inventory

Paths are relative to `src/C-kern`; headers are in `api/`.

### Blocking objects of threads

They share one scheme.  An object has a spin lock `lockflag` (an atomic bit) and
a list of waiting threads, linked through the one wait node `thread_t.wait`.  A
thread which has to wait appends itself under `lockflag`, clears it and calls
`suspend_thread`; a thread which lets it continue removes it from the list
(`wait.next` becomes 0) and calls `resume_thread`.  Suspending consumes the
signal SIGINT, resuming sends it.  The signal belongs to the thread and not to
the object, is one pending bit and may be sent by anybody, so every waiting loop
tests `wait.next` after it was resumed.

| component | state | operations | what makes it correct |
|---|---|---|---|
| thread (`platform/Linux/task/thread.c`) | task, return code, wait node, `lockflag`, stack | suspend, resume, new, join, exit, delete | a resume is never lost, only merged with another one; a thread is joined once |
| rwlock (`platform/Linux/sync/rwlock.c`) | two wait lists, `writer`, `nrofreader` | lock and unlock for reading and writing | readers share, a writer is alone; the lock is handed over without being free in between; nobody starves; no overflow |
| thrmutex (`…/sync/thrmutex.c`) | wait list, `lockholder` | lock, unlock, free | one owner, through every hand-over; first come first served; what the unprotected queries read is consistent |
| eventcount (`…/sync/eventcount.c`) | atomic `nrevents`, wait list | count, trywait, wait with timeout, free | no event lost or invented, no thread forgotten, a timeout racing a wakeup |
| waitlist (`…/sync/waitlist.c`) | wait list, `nr_waiting` | wait, wake with a new task | a woken thread sees the task it was woken for |
| mutex, semaphore, signal | kernel objects | thin wrappers | – |

### Scheduler of cooperative functions

`syncrunner_t` (`task/syncrunner.c`, with `task/syncfunc.c`, `task/syncwait.c`)
runs functions which are called again and again until they end; a function yields,
waits for a condition (`syncwait_t`) or exits.  Its state is two queues made of
memory pages, RUN and WAIT, each with a list of free slots; lists of wait nodes
which refer to slots of the WAIT queue by address; and a list of nodes to be
woken up.  Operations: `addfunc`, `wakeup`, `wakeupall`, `run`, `terminate`, and
what a function may do while it is called, which includes the first three.
Correct means: every function is called exactly once per run; a move between the
queues never fails for want of a slot, as the room is reserved when a function is
added; compacting and giving back pages loses no function and leaves no list with
a dangling node; a woken function runs; termination ends all of them.

### Input and output

`io/iosys`: a list of I/O tasks (`iolist.c`) filled by threads and emptied by a
worker thread (`iothread.c`), which executes a task, publishes its state and counts an
event of the `readycount` the task refers to.  The worker sleeps on an empty list and
is resumed by the insertion of a first task or by a request to stop.  On top
(`iobuffer.c`) a file is read ahead into a ring of buffers.  Hard: ownership of a
task after its state was published; stopping and cancelling while tasks are queued or
being executed; the worker going to sleep while a task is inserted; a buffer which is
ready before its event was taken.
`io/log`: the log writer with its bounded buffer, truncation and flushing.
Filesystem, network, terminal and readers: formats and system calls.

### Memory

`memory/pagecache_impl.c`: blocks of memory, cut into sub-blocks whose pages have one
size each.  There is no memory besides the pages: the header of a sub-block lies on
one of its free pages and moves when this page is the last one handed out, the
header of a block on the first pages of sub-block 0.  A page must be handed out once,
a release of what is not allocated must be found, every free page must be reachable,
and a block is released when it is empty and not the only one.  Object cache, memory managers and streams are
small sequential wrappers.

### Contexts and process start

`main/maincontext.c`, `task/threadcontext.c`, `task/module.c`: initialising a
sequence of services and undoing the part which succeeded when one fails.

### Automata and regular expressions

`proglang/automat.c`: an automaton is a list of states with ranges of characters as
transitions; operations (sequence, repeat, or, and, not, and-not, reverse, make
deterministic, minimize) take the states of their operands apart and put them
together.  The states lie on heaps which count their users (`automat_mman.c`);
operands on different heaps are copied first.  `regexpr.c` parses a text and builds the
automaton on the way.  Correct means: the language is the one the operations stand
for; an operation which fails leaves operands with the languages they had.

### Other sequential algorithms

Data structures (`ds/inmem`: splay, red-black and patricia trees, extendible
hashing, heap, queue, stack, lists), merge sort, big integers and decimals, strings,
time.  Pure code without actors; some of it is a
candidate for a reference definition over bounded inputs.

### Left aside

Graphics and windows (`platform/X11`, `platform/OpenGL`, `graphic`), unit tests
and their error timers, command line tools (`src/C-kern/tools` and the generators
of the build).  Their logic is in the libraries which they call.

## 2. Plan

Done, in this order, because everything which blocks is built on the first of them:
the thread signals, the locks, the event count, the scheduler of functions, the wait
list, the I/O system (worker, then the buffered reader), the page cache, automata and
regular expressions.  Next:

1. `ThreadLife` — new, run, exit, join, delete, and resuming a thread which may be
   gone (`eventcount.c:72` resumes after it gave up `lockflag`).
2. The page queues of `SyncQueue` on top of `PageCache`.
3. `LogBuffer`, `LogWriter`: truncation, flushing, nested begin and end; the
   initialisation order of the contexts and its undoing.
4. Reference definitions for extendible hashing, the heap and merge sort.

## 3. Modules

| module | models | kind |
|---|---|---|
| `Thread` | `suspend_thread`, `resume_thread`, SIGINT, the wait node | building block |
| `RWLock` | `rwlock.c` | component |
| `PhaseFairLock` | what `rwlock.h` promises | abstract specification |
| `RWLockRefinement` | the mapping of `RWLock` to `PhaseFairLock` | refinement |
| `ThrMutex` | `thrmutex.c` | component |
| `FifoLock` | what `thrmutex.h` promises | abstract specification |
| `EventCount` | `eventcount.c` | component |
| `EventCounter` | what the clients of `eventcount_t` rely on | abstract specification |
| `WaitList` | `waitlist.c` | component |
| `LocksInTurn` | threads which use a rwlock_t, then a thrmutex_t | composition |
| `WaitsInTurn` | threads which use an eventcount_t, then a waitlist_t | composition |
| `LinkedList` | unlinking from the lists of `link.h` and `dlist.h`, used by `SyncQueue` and `PageCache` | building block |
| `SyncQueue` | `syncrunner_queue_t`: operators from queue to queue | building block |
| `SyncRunner` | `syncrunner.c` with `syncfunc.c`, `syncwait.c` | component |
| `FunctionScheduler` | what `syncrunner.h` promises | abstract specification |
| `IOThread` | `iothread.c`, `iolist.c`, on `EventCounter` | component |
| `IOStream` | `iobuffer.c`, extends `IOThread` | component |
| `PageCache` | `pagecache_impl.c` | component |
| `Automaton` | operators of `automat.c`: lists of states | building block |
| `Automat` | the objects of `automat.c` and the heaps of `automat_mman.c` | component |
| `Regexpr` | `regexpr.c` and the grammar in `regexpr.h`, extends `Automat` | component |
| `MC…` | instances for TLC: symmetry sets, inputs and texts | model checking |
| `WaitListLemmas` | facts about lists without duplicates, and induction over the natural numbers | proofs |
| `RWLockProofs`, `ThrMutexProofs`, `EventCountProofs`, `IOSystemProofs`, `SyncRunnerProofs`, `PageCacheProofs` | theorems about the component of that name | proofs |
| `AutomatProofs` | theorems about `Automat`, in its last section about `WaitList` | proofs |

`Thread` is extended by the four blocking objects.  `LocksInTurn` and `WaitsInTurn` put two of
them into one program, extending the module of the first and taking that of the second with
`INSTANCE … WITH`; `pending` is the one variable both share.  `EventCount` is shown to implement
`EventCounter`, and `IOThread` uses `EventCounter` in its place.

### Threads and signals

`pending[t]` is the signal SIGINT of thread t, `linked[t]` says that
`t->wait.next` is not 0.  `SuspendThread` consumes the bit, `ResumeThread` sets it
whether it was set before or not.  `SpuriousResume` is a signal from outside, for
the threads in the constant `Signalled`; it is why every waiting loop needs its
test.  What `thread.c` does beyond that (new, join, exit, delete) is not modelled.

### The blocking objects

`pc[t]` names the place of a thread in the code; `lockflag` is the thread which
set the flag (the code has the bit only, and nothing in the model reads more).
Setting `lockflag` is a step of its own, and so is everything another thread can
see: a wakeup (the woken thread reads its wait node without holding `lockflag` in
`rwlock.c` and `eventcount.c`), the assignment of `lockholder` after the wakeup in
`thrmutex.c`, the atomic addition of `count_eventcount` before it takes `lockflag`,
the reset of `nrevents` in `free_eventcount`.  The other statements between
`lockflag` set and cleared are one step, because the members they use are
protected by it.  Clearing the flag is part of the last such step, except where
the code does something visible in between.

`held` (`holds` in `ThrMutex`) is what the client has locked.  Clients are
arbitrary: wrong calls which the code detects are made (EDEADLK, EPERM, EOVERFLOW).
What the code does not detect is excluded by `MayCall`: a reader which locks a second
time waits for itself if a writer waits, and `unlockreader_rwlock` called by a
thread which owns nothing takes the lock from somebody else.

`EventCount` has three history variables.  `counted` and `granted` are the events
counted and the waits which succeeded; `crossed` becomes true when a timeout takes a
thread out of the list while `count_eventcount` is between its addition and
`lockflag` (see *Findings*).  `free_eventcount` starts a new life of the object and
resets them.

`WaitList` has two kinds of flags: `lockflag` of the list, and the lock which every
thread has of its own.  `trywakeup_waitlist` removes the first thread under `lockflag`, gives
that up and only then sets the task, under the lock of the thread it removed; the
woken thread takes its own lock before it reads.  `due[t]` is a history variable: the
task with which t was removed from the list.

*Objects in turn.*  SIGINT belongs to the thread, so a signal which one object sent too late can
wake a wait on another: the thread saw `wait.next` cleared after a spurious resume and went on, or
its time was over.  In `LocksInTurn` and `WaitsInTurn` the threads use one object, and at any
moment when none of them is in a call or owns a lock (`UseThrMutex`), or after
`free_eventcount` (`UseWaitList`), they turn to the other one for good.  The first object behaves
as it does alone, and the second starts with every combination of pending signals the first
can leave; after `eventcount.c` this includes a thread which nobody else sends signals to, but which timed out
while it was being woken.  They do not use both at
a time: the two are coupled by nothing but `pending`, which every waiting loop may find set
anyway.

### The scheduler

A slot of a queue has a number, counted from the first page on; `slot[i]` is the
function in it, `freelist` the list of holes.  The address of a wait node is the
number of its slot, so `compact_sq` changes numbers in the lists when it moves a
function, as `initmove_syncfunc` relinks the node.  All members the code keeps
redundantly (`size`, `nrfree`, `freelist_size`, `nextfree`) are in the record: that they
agree is `QueueOK`.  `Kept(list, T)` of `LinkedList` is what remains of a list after the
members which are not in T were unlinked.

There is one thread, and the interleaving is that of callbacks: while
`run_syncrunner` calls a function, the function may add functions and wake others
any number of times (`ClientStep` with `CallerActive`) before it yields, waits or
exits.  `phase` is where `run_syncrunner` or `terminate_syncrunner` is, `cursor` and
`last` are the loop over the slots.  Every place where the page cache can fail
has an alternative with the failure (`CanFail`).  `Free` is `free_syncrunner` and the `init_syncrunner` after it.

`FunctionScheduler` is what the functions can see of this: a set of functions which every
run calls (`ready`), for every condition those which wait for it in their order, those
which were woken up, and those the run has still to call (`due`, `calling`).  There are no
slots, pages or holes in it and nothing can fail but a run (`RunError`).  `ReadyFuncs`,
`WaitingFuncs`, `WokenFuncs` and `CallingFuncs` read these out of the two queues and the
lists of nodes; `due` is the history variable of `SyncRunner`.

### The I/O system

`wpc` is where the worker is in `ioop_worker_thread`, `pc[c]` where a client is.
`insertlast_iolist` and `tryremovefirst_iolist` do nothing but change the list with
its lock set and are one step; `cancelall_iolist` counts events with the lock set and is
many.  Publishing the state and counting the event are two steps.  All tasks share one
`readycount`, the variable `ready`, which changes by the actions of `EventCounter` only.
A client takes a task back (`TakeBack`) when it took an event and finds the task
processed, which need not be the task the event was counted for.  The owner stops
and frees the object at any time, and starts a new one.

`IOStream` is the composition of the reader in `iobuffer.c` with this worker: the reader
is the only client, a buffer and its task have the same index.  Files are counted in
pieces; `content[i][k]` is the piece of the file which lies at place k of buffer i, so
that a stale or misplaced piece can be told from the right one.  `held` and `consumed`
are history variables: the buffer returned last, and how much was in the earlier ones.

### The page cache

Actions are whole calls, as a page cache belongs to one thread.  A page is named by its
block, sub-block, first piece and size; so two pages of different sizes which lie
on the same memory are different names for overlapping pieces, and that they are not
both handed out is a property.  `held` is the set of pages the clients have.  Clients
release what they hold; that the tests in the code would accept nothing else — a page
released twice, or one with the wrong size — is the property `AcceptsAllocated`, which
applies these tests to every page of every size in every state.

### Automata and regular expressions

An automaton is a sequence of states, each with its empty transitions and its ranges of
characters in the order of the code's lists, because the operations rely on this
order (the last empty transition of an end state leads to itself).  `multistate_t` and
`statevector_t`, which number sets of states, are sets and functions; `rangemap_t` is
the sequence of disjoint ranges it computes.  `refcount` and `onHeaps` follow the use
counts.  Failed allocations which leave something behind are actions (`CombineFails`:
the copy replaces the operand; `MakeDFAFails`: the object lost empty transitions).
`lang[x]` is the reference: the words up to `MaxWord` the operations stand for,
computed without looking at the automaton.

`Regexpr` translates the recursive descent (`ParseAtom` … `ParseRegexpr`), which builds
automata as it reads.  Its reference is `ReLangs`: the languages a text has by the grammar in
`regexpr.h`, found by splitting it at every place and not by reading it from left to right.
An expression must have exactly one.  The reference follows the header and not the code:
one not before an atom, at least one char in a set, a character behind every backslash.
Where the header is silent it is read so: spaces separate terminals, and "&!" is one, so
"& !" is an and with a not behind it (`Terminals`); '!', '?', '^' and '-' are no chars unless they are masked;
a masked character is any character, as the text below the grammar says.  `lang[x]` is
what the grammar says; if the code accepts a text which is no expression, it is what the
automaton recognizes, and `MatchesLanguage` then says only that the two ways of matching
agree.

### Bounds

Constants of the code become constants: `N` is `NRELEMPERPAGE`, `MaxReader` is
`UINT32_MAX`, `SubSize` and `NrSubblocks` are those of `pagecache_impl_t`, `MaxChar` is the
largest character.  Bounds of the model: `MaxCounted` (events in one life of an event
count; the code asserts that the counter does not overflow), `MaxInsert` (tasks in one
call), `MaxFileSize`, `MaxAllocated` (`sizeallocated` of the page cache), `MaxWord`,
`MaxStates` and `MaxOps` (automata), `Heaps`, and the sets of threads, clients, functions,
conditions, tasks, blocks and texts.

## 4. Runs

All runs visit every action.  Deadlock is checked everywhere but in `automat` and `regexpr_beyond`, whose
clients stop after `MaxOps` operations.  Symmetry is used in `automat` (objects) and
`pagecache` (blocks), which check no liveness.

| run | bounds | what it shows |
|---|---|---|
| `locks` | 3 threads, signals to two, 2 readers | `rwlock.c`: the inductive invariant `RWInv`, exclusion, the branch marked "should never enter this branch" is dead, refinement of `PhaseFairLock`; `WriterEnters`, `ReaderEnters`.  Then `thrmutex.c`: `MutexInv`, `OneOwner`; the mutex is the lock of `FifoLock` (`ImplementsFifoLock`); `LockGranted` |
| `waits` | 3 threads, 2 with timeout, signals to one, 2 events | `eventcount.c`: `EventInv`, which includes that waiters are counted; `EventCounter` is implemented until a timeout crosses a wakeup; waiters are served, the woken return.  Then `waitlist.c`: `WLInv`, which includes that a thread which returns has the task it was woken with; `free_waitlist` wakes all |
| `eventcount_phantom` | 2 threads, 1 with timeout | violated, see *Findings* |
| `syncrunner` | 3 functions, 2 conditions, pages of 2 slots, failing page cache | queues, moves, exactly-once, nothing lost; the functions are called as `FunctionScheduler` says (`ImplementsScheduler`); a woken function runs |
| `iothread` | 2 clients, 3 tasks (1 invalid), 2 in one call | no insertion slept through, a task in one place, one event for each, every task processed or cancelled unless the worker was stopped and nobody freed the object |
| `iothread_return` | 2 clients, 2 tasks | violated, see *Findings* |
| `iothread_stop` | 2 clients, 2 tasks | violated, see *Findings* |
| `iostream` | 3 buffers of 2 pieces, files of 1 to 9 pieces | blocks in order up to the end of the file; `readnext_iobufferstream` returns |
| `iostream_short` | the same, reads may be short | violated, see *Findings* |
| `pagecache` | 2 blocks of 3 sub-blocks of 3 pieces, pages of 1 and 3 pieces | `PagesAccounted`, `ListsComplete`, `AcceptsAllocated`, `OneIdleBlock` |
| `automat` | 2 characters, 2 objects, 3 heaps, words up to 3, 10 states, 5 operations, the texts of `MCAutomat` | languages, determinism, heaps, minimality; every expression of the grammar is accepted |
| `regexpr_beyond` | the texts in `MCBeyond` | violated, see *Findings* |

### Why these bounds

*Locks*: three threads are an owner and a waiting writer with a waiting reader, or two
waiting readers, each with a waking thread in the middle of its loop; a thread which is
to be starved and two which take turns.  `MaxReader` is one less than the number of
threads, the smallest value the unchecked increment in `wakeupreader_rwlock` allows, so
EOVERFLOW happens.  That more threads change nothing is what the proofs show.

*Event count*: three threads are one that counts, one that times out and one that
is forgotten or served instead; the list of three is the longest a timeout can take a
thread out of the middle of.  A counter of two lets one event be in flight while
another is counted.

*Wait list*: the thread which is woken, the one which wakes it, and one which wakes or
waits in between.

*Scheduler*: with pages of two slots, three functions need a second page in either
queue, so queues grow, compact over a page boundary and shrink; a failing page cache
leaves the queues unequal.  Two conditions let a function wait for one of them while
another list refers to the page which is moved.

*I/O*: three tasks are one the worker executes, one in the list and one which is being
inserted, refused or cancelled; the second client stops, inserts or frees while the
first is inside a call.  Three buffers are one held by the reader, one being read into
and one queued; nine pieces fill the ring once, reuse two buffers and end in the middle
of one.

*Page cache*: a sub-block of three pages has a first, a last and a middle one; a page of
the size of a whole sub-block is the case where the header lies on the only page.  Three
sub-blocks are the one with the block's header, one in use and one unused; two blocks are one
which becomes idle while the other is in use.

*Automata*: `MCTexts` holds all texts of up to two parts, those of three and four of the
characters which combine, and longer ones with nesting and masking; none is left out because code and
header differ on it.  `AcceptsGrammar` is about those which are expressions; on which others they differ shows
`regexpr_beyond`.

### Mistakes

Every property has a mutant in `PROJECT.json`: an operator of the same module marked
*Mistake* which replaces one definition (a forgotten test, a wrong order, an off-by-one),
and for which TLC finds that property violated with the bounds above.

### Fairness

`WF` of a thread's steps: the kernel schedules threads which can run.  `SF` of
`LockFlag` and `LockCounter`: the spin loop yields the processor (`yield_thread`), sections are
short and never block, so a thread which tries again and again is not always late.
`SF` of `Release` (locks only): a client does not keep a lock for ever; without
it nobody could promise anything.  No fairness for calls which a client may or
may not make, for timeouts, and for signals from outside, nor for the change of the object in
`LocksInTurn` and `WaitsInTurn`.  There the fairness of the two modules is one: only the object in use has
steps, so being fair to the steps of a thread on whatever object is the same.

*Scheduler*: `Run` is called again and again, every function returns (`RunStep`,
`TerminateStep`), and `SF` of `RunDone`: the page cache does not fail at the end of every
run, as this would postpone the woken functions for ever.

*I/O*: the worker and the owner within its calls are scheduled, a client which is about
to resume the worker does so, and `cancelall_iolist` gets the lock of the list (`SF`, a
spin loop again).  Nobody has to stop the worker or to call
`free_iothread`.  So `EveryTaskProcessed` leaves the tasks of a worker which was stopped to
`free_iothread`: as long as the owner does not call it they stay queued (see *Findings*).
In `IOStream` both the
reader, within its calls, and the worker are scheduled.

### Findings

`eventcount_phantom` (`eventcount.c:108`): `count_eventcount` adds one and takes `lockflag` to
wake a thread only afterwards.  If the thread the event was meant for times out in between,
it corrects the counter, and its next wait takes the event without waiting; when it
waits once more it is in the list again, and `count_eventcount` wakes it a second
time for the same event.  Two waits return 0 for one event.
`eventcount.h:137-138` and `eventcount.h:145` say otherwise.  Until a timeout crosses a
wakeup the object behaves as promised (`ImplementsEventCounter`); afterwards
no thread is forgotten (`EventInv`, `WaitersServed`).

`iothread_return` (`iothread.c:164`): the worker publishes the state of a task and reads the
task's `readycount` afterwards.  A client woken by the event of another task finds its own
task processed and takes it back, and may reuse or free it, before that read.
`iothread.h:102-103` and `iothread.h:106-107` say that the task belongs to the caller
again as soon as it was processed.

`iothread_stop` (`iothread.c:228-232`): `requeststop_iothread` sets `request_stop` and resumes the
worker.  The worker ends the task it has, or cancels it if it did not begin it, and leaves its loop; the
tasks in the list stay queued, and their events are not counted, until somebody calls `free_iothread`, which
calls `cancelall_iolist`.  `iothread.h:118-120` says of `requeststop_iothread` itself that
all tasks not yet executed "werden storniert (<iostate_CANCELED>)".

`iostream_short` (`iobuffer.c:239`): `readnext_iobufferstream` returns the size it asked
for and does not look at `bytesrw`.  The worker ends a task with `iostate_OK` if at least
one byte was transferred (`iothread.c:153`); if the file became shorter or an error ended the
read early, the rest of the block is what the buffer held before.
`iobuffer.h:157` says that the buffer "ist gültig und enthält Daten".

`regexpr_beyond` (`regexpr.c:359` and other lines): `regexpr.c` does not read the grammar in
`regexpr.h:67-76`.  It accepts `[]`, unmasked special characters within a set, several nots
before an atom, a not and a backslash at the end of the text; it refuses
`[a-\]]`, because it compares the end of a range with `]` after it was unmasked; and a
point within a set is the point itself.  Each text in `MCBeyond` alone violates `FollowsGrammar`.  Two of
these are expected by unit tests (`regexpr.c:922` and `regexpr.c:945`): there the grammar is what is
incomplete.  Every other expression is accepted with its language (`AcceptsGrammar`,
`MatchesLanguage`).

## 5. Proofs

Assumptions: `ThreadsAssumption` (a finite set of threads which does not contain the
null pointer); `MaxReaderAssumption` (the counter of readers is at least the number
of threads less one: `wakeupreader_rwlock` increments it without a test);
`EventCountAssumption` (the bound is a number, the threads with timeout are threads);
`IOThreadAssumption` (finitely many clients
and tasks, because events are counted); `SyncQueueAssumption` (a page has at least one slot, and the
null pointer is no function); `PageCacheAssumption` (sizes of pages divide the size of a
sub-block, `block_t` leaves at least one page of sub-block 0, and there is another sub-block:
what the static checks of `pagecache_impl.c` and its constants say); `AutomatAssumption`
(finitely many objects, heaps are numbers other than 0, the ranges given to `initmatch` and
`extendmatch` are pairs of characters, and `MaxWord` is at least 1).  The number of threads, clients, functions, conditions and slots of a page, of characters,
objects and heaps, the sizes of automata and the length of words are arbitrary otherwise.

**`RWLockProofs`.**  None of the safety properties is inductive.  `OwnersCounted` says
that `nrofreader` is the number of owners, but an unlock function could leave with it
wrong unless it is known that the client which calls it has the lock (`HeldInv`);
`wakeupwriter_rwlock` would make a second owner unless it is known that the lock
is free while somebody is about to wake others (`WakingInv`); this is kept only
because one thread at a time has `lockflag` (`FlagInv`); and a wakeup makes an owner
of the right thread only if lists and wait nodes agree (`WaitListsConsistent`).
`RWInv` is the conjunction of these with `NobodyWaitsForFreeLock` and `NoLostWakeup`; there
is one lemma for every action, with a step for every conjunct.  The counting steps need
that an owner which is added or removed was not or was one, and theorems about
`Cardinality`; that the 32 bit counter does not wrap in `wakeupreader_rwlock` follows
because the waking thread is no owner (`OneLessReader`).

**`ThrMutexProofs`.**  `MutexInv` adds to the checked properties what `lockholder`,
`nextwait` and the woken thread are between the wakeup and the assignment
(`HandoverInv`, `WokenInv`), where the old holder is still entered although the next
one has been resumed; the latter cannot return yet, because it needs `lockflag` to test
its wait node.  `OneOwner` follows from it, and with it `Implements`: every step of
`thrmutex.c` is a step of `FifoLock` or leaves it alone.  The abstract lock changes its
owner when `unlock_thrmutex` takes the first thread out of the list (`WakeFirstRefines`);
the assignment of `lockholder` and the return of the woken thread are invisible.  So
nobody overtakes a waiting thread, and between unlocking and handing over the mutex is
not free.

**Refinement (`RWLockProofs`, second part).**  `Implements`: every step of `RWLock` is a step of
`PhaseFairLock` or leaves it alone.  The abstract lock changes where the body of a
lock or unlock function is executed; the wakeups which follow are invisible, because
the mapping counts the threads in the list which is being woken as owners already.
`NobodyWaitsForFreeLock` is what rules out the branch which would wake readers from
`unlockreader_rwlock`.

**`AutomatProofs`, last section: `WaitList`.**  `TaskDelivered` would follow from nothing but itself if a thread
tested its wait node under `lockflag`.  It tests it under its own lock, so `WLInv` has to say
who holds that lock (`LockInv`: the waker which removed the thread, until it has set
the task, so that no two wakers have the same thread) and what the task is while it
does (`TaskInv`).  `ListInv` says
that the list has no duplicates, that its members wait and that `nr_waiting` is its length.

**`EventCountProofs`.**  `NoStrandedWaiter` and `Balance` compare `nrevents` with the
length of the list and with the number of threads between the addition and `lockflag`
(`Counting`).  An addition and a subtraction keep them only together with the wakeup they
lead to, so the invariant says who has removed a thread and not resumed it
(`WakesInv`), that such a thread has `lockflag` or frees the object (`FlagInv`), and what
`free_eventcount` may have left behind after it reset the counter (`FreeingInv`).
`Implements`: the abstract counter is `counted - granted` until a timeout crosses a
wakeup; a step which takes an event finds one because of `Balance` and
`WaitersCounted`.

**`IOSystemProofs`, first part: `IOThread`.**  `IOInv` consists of what is checked and of what makes it inductive.
`WorkerInv`: from the removal of a task to the counting of its event the worker has it.
`StopInv`: a worker which found the list empty before a request to stop is resumed by the
client which made it; without it `WorkerAwake` would be lost when the worker goes to sleep.
`LifeInv`: only the owner is in a function while the object is initialised or freed,
and an object which was freed has neither worker nor tasks.  `CancelInv`: the client which
cancels has the lock of the list until the last cancelled task is counted.  `PlacesInv` says in
which of the three places (list, worker, being cancelled) a task is, and is what
`TasksTracked` says about one sequence, taken apart so that a step which changes one
place leaves the others alone.  `WorkerAwake` needs no counting.  `EventPerTask` does: a task is published in
one step and counted in the next, so one step of the worker changes a set whose
cardinality the counter is compared with, and the other one changes the counter.
`ThreadInv` is `IOInv` without `EventPerTask`; every lemma shows it without using the events,
because the reader of `IOStream` takes a task without its event and waits for an event
without its task.

**`IOSystemProofs`, second part: `IOStream`.**  That the reader gets the file in order is a fact
about the whole ring: the buffers which are ahead, counted from the one the reader gets next
(`Ring`), read consecutive parts of the file from `Position` to `readpos`, and there are
fewer than buffers (`MaxAhead`), exactly that many until the file has ended.  The last
says that a buffer which is found unused means the end of the file (`EndIsEnd`).  The buffer the
reader works with is the last one of the ring (`HeldInv`), so the one which is queued next,
`Previous`, is another one (`PreviousDistance`), and it is free because it is just the one which
follows the last buffer ahead.  `RingTake` and `RingAppend` say what
happens to the ring if its first buffer is taken or one is appended, `RingStart` that `start_reading`
makes one; all three are about any ring, not about the variables.  Steps of the worker and of
`iothread.c` leave the ring alone, as they only end tasks which were queued
(`OnlyQueuedEnd`); for the rest they keep `ThreadInv` by the lemmas of the first part.
`StreamInv` holds whatever the worker transfers.  `BlocksAreInOrder` also needs `FilledInv`, that a
buffer whose task ended with success holds what was asked for, and this has the assumption
`~ShortReads`: a transfer reported as a success was complete.  The run `iostream_short` shows that the
code does not guarantee it.  `IOStreamAssumption` (the reader is the only client, the
buffers are numbered from 0 and at least two) is used in this part only.  `StreamInv` and
`FilledInv` hold in the instance of `MCIOStream.cfg` too when they are added to its invariants.

**`SyncRunnerProofs`.**  The first half is about one queue, whatever the number of slots of a
page: `GrowQueue`, `ShrinkQueue`, `AllocQueue`, `FreeQueue` and `CompactQueue` say
that an operation keeps `QueueOK` and what it does to the functions in the slots and to
the two numbers `Nrfree` and `Inuse`.  The hard one is `compact_sq`: there are
at least as many holes in front of the slots which are given up as functions in them
(`HolesAndMovers`: both numbers are cardinalities of sets of slots), so every
function moves, to a slot of its own (`CompactMoves`), and `freelist` consists
of the holes which are left.  What `Kept` returns is shown by induction over the length of the list
(`CountInReaches`, `KeptList`).
The second half is about both queues and the lists.  `RunnerInv` adds to the checked
properties what `phase` says about the loop (`PhaseInv`) and which slots are empty already
while functions are ended (`TerminateInv`).  Most steps are compositions of a few changes,
each with its lemma: functions move within a queue (`SameFuncs`), one is added or removed
(`Adds`, `Drops`), a node changes its list (`Linked…`).  `MovePossible` follows from the numbers:
`SpareRun` and `SpareWait` look at the queues before either is shrunk, and this is enough because
compacting and shrinking change no `Inuse`.
The last part is the refinement: `Implements` says that every step of `SyncRunner` is a step of
`FunctionScheduler` or leaves it alone (compacting, giving back pages, growing, slots
which are empty).  A list of nodes is compared with the list of functions in their slots:
the same when all nodes are moved and relinked (`ListFuncsMove`), when slots outside of
the list change (`ListFuncsStay`), and changed in the same place when a node is
unlinked from the middle (`ListFuncsWithout`), for which a function has to be stored once.
`SchedulerInv` adds that nothing is due outside of the loop, which `RunsEachOnce` says for its
end only.  That `terminate_syncrunner` ends everything (`TerminateEndsAll`, theorem
`TerminationIsComplete`) is the guard of `EndTermination`, and so model-checked with the
refinement.

**`PageCacheProofs`.**  The four properties which are checked need each other, and two facts
more.  A header remains on the last free page (`SubShape`: without a header the list of free
pages is empty and no page was left unused), otherwise `allocpage_subheader` could hand out
the page of the header while others are free.  A sub-block with a page size is used by
somebody (`InUse`), otherwise the block counts as idle although it is not in the list of
unused sub-blocks.  `CacheInv` is the conjunction.  The proof states it as a
relation between memory and the set of pages which clients hold, one relation for each level
of the structure: `SubOK` for a sub-block, `BlockOK` for a block, `CacheOK` for the cache.  A
change of one level is proved once, from what it does to the level below (`ChangedSub`,
`ChangedLists`, `CachePlaced`), and the lists of blocks change by one lemma for all
operations (`ListsFit`).  Counting is in three places: used pages of a sub-block, used pages of a
block, and `sizeallocated`, which is the number of occupied pieces because pages of one
sub-block have one size and so share none (`PiecesDisjoint`).  Allocation has an intermediate
state, a sub-block which was taken but has no used page yet; `Prepared` says that it is the only
one, and that its block may be the only idle one.  `AcceptsOnlyAllocated` is no part of the
invariant but follows from it: the test of `releasepage_pagecacheimpl` computes the complement of
the free pages (`IsFreeExact`).

**`WaitListLemmas`.**  Appending, removing the first, starting with the last and removing
any element of a list without duplicates, joining two lists, and what `Kept` and
`Without` return (`KeptList`, `WithoutList`).  `SetInduction` is induction over the
natural numbers for a set instead of a predicate: the provers cannot instantiate theorems with
an operator as parameter, and a set of numbers is a value.

**`AutomatProofs`.**  What `automat.c` does to lists is described in three levels.

*Transitions.*  `EmptyMove` and `CharMove` say which transitions a state has.  One lemma for every
function says which transitions its result has, in terms of those of its operands (`IsJoined`,
`IsRepeated`, `IsReversed`, `IsMatch`, `IsShortened`, `IsConverted`); nothing after it opens the
lists again.  The hard parts are the loops.  A loop is a function which `CHOOSE` takes from those
that satisfy a recursive equation, so a lemma first shows that there is one (`LoopFunction`, from the
steps which are left), and then what every step keeps holds at the end (`LoopEnds`).  So the
exploration of `makedfa2_automat` finds every set which can be reached, each of them once
(`ExploreFacts`), and the binary search finds the range which holds a character (`SearchFacts`).

*The inductive invariant* `AutomatInv`.  `Deterministic` and `HeapsHoldStates` are not inductive.
`remove_single_empty_transitions` follows a chain of single empty transitions and would leave the
states of the automaton, or go round for ever, if the chain did not end.  That every automaton
is well formed (states 1 to n, an end state which leads to itself) is not enough: two states
whose only transitions lead to each other would be well formed as well.  `NoTraps` rules this out for
chains in both directions, because `initreverse_automat` turns them round; `JoinedTraps`,
`RepeatTraps`, `ReverseTraps`, `ShortenedGood` and `DeterministicTraps` show that every function
keeps it.  `GoodAutomaton` is the conjunction, and
`AutomatInv` says it of every object; the rest is counting the users of heaps, with
`UsersChange` for an object which changes its heap and one lemma for every way in
which operations use heaps (`AllocateHeaps`, `ReleaseHeaps`, `MoveHeaps`, `RebuildHeaps`).

*Languages.*  `Language` is defined without paths: a family X of positions, one set for every
state, is `Closed` if it follows all transitions, and a word is accepted if every
closed family which starts at 0 has reached the end (`Accepts`).  So that an automaton
accepts a word is shown by following transitions, and that it accepts no others by giving one closed
family (`JoinedFamily`, `RepeatedFamily`), which replaces induction over paths.  There is a
lemma for every function: `OrLanguage`, `SequenceLanguage`, `RepeatLanguage`, `ReverseLanguage`,
`ShortenedLanguage`, `MakeDFALanguage` (from `SimSet`, the set of states after k characters, which
`DFAFollows` shows to be the one the DFA is in), `AndLanguage`, `NotLanguage`, `MinimizeLanguage`.
`AutomatLanguages` says that every object accepts exactly what its operations stand for,
`lang[x] = Language(states[x])`, and `ObjectsMatchTheirLanguage` that the two matching functions, the
one which follows sets of states (`NFAFollows`) and the one which searches the ranges of a DFA
(`DFAMatches`), return the longest and the shortest prefix in the language (`MatchesLanguage`).

*Minimality.*  `minimize_automat` makes a DFA of the reverse of a DFA D, and so a state of the result is a
set of states of D.  That two sets which no string tells apart are equal
(`AlikeEqual`) needs no words either: the pairs which `Distinct` leaves out keep each
other's transitions (`DistinctFacts`), every state of D was entered from one with a
smaller number (`DFAFound`), and D has one transition for a character.  So membership in both sets
agrees for a state of D if it does for the one it was entered from (`AlikeStep`), beginning with the
start state, which became the end of the reverse.  The argument needs that the end state of D is in neither of the
sets.  The transitions of the reverse lead back to it from nowhere, so this holds for every
set but the first, which is the exception in `MinimalBehindStart`.

The theorems are about `AutomatSpec`, clients which combine automata with the operations of `automat.c`.

**Only model-checked.**  `AcceptsGrammar` and `FollowsGrammar`: the parser of `regexpr.c` is a recursive descent and the
grammar is a recursive relation between texts and languages; both use RECURSIVE operators, for which the
provers have no rule.  That the automaton a text is parsed into has the right language is checked by
the run `automat`, which includes `InitRegexpr`; the theorems say it for the operations the parser
calls.  All liveness properties (`WriterEnters`, `ReaderEnters`, `LockGranted`, `WaitersServed`,
`WokenReturns`, `FreeWakesAll`, `WokenRuns`, `EveryTaskProcessed`, `ReadNextReturns`), as TLAPS has no
fairness and no ENABLED.  Every other property which a passing run checks is stated by a theorem.
The theorems about `ThrMutex` and `WaitList` are about the specification of that module, where
no signal is pending at first; that the properties also hold after another object left signals
behind is what `locks` and `waits` check.
`MaxWord` bounds the words in `lang` only: as the theorems hold for every value, they are about all words.

## 6. Not modelled

*Threads*: `thread.c` beyond suspend and resume; threads which end while they are being
resumed.  `free_rwlock` returns EBUSY if the lock is in use; its reads without `lockflag`
make sense only when the client knows that all others are done.  Weak memory: every
model assumes that atomic operations and `lockflag` order memory as their comments say.
Queries without effect.

*Scheduler*: in `syncfunc` the computed jump which continues a function and the error
code given to it.

*I/O*: which bytes a task transfers, except in `IOStream`; failing system calls of
`init_iothread` and `init_iobufferstream`, which leave a free object.

*Page cache*: failing mmap (nothing changes) and munmap (memory is lost); clients which
write to a page after they released it.

*Automata*: the pages of `automat_mman.c` and the undoing of allocations on them.  After
`minimize_automat` the start state may have an equivalent twin, as it is never merged;
`MinimalBehindStart` says so.

*Regular expressions*: utf-8, control codes, the description of errors.  Not in `Texts` are special
characters and points within a set and `[a-\]]` (see the finding `regexpr_beyond`), and ranges whose
ends are reversed (EINVAL).

The remaining components are listed with their reasons in `PROJECT.json`: data structures,
mathematics, strings and readers are sequential code without actors or failure handling
of their own, whose size lies in arithmetic and layout; graphics wraps foreign
libraries; the tools have their logic in the libraries they call.
