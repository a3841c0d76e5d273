------------------------------- MODULE RWLock -------------------------------
(***************************************************************************)
(* rwlock_t: C-kern/platform/Linux/sync/rwlock.c.  A lock for many readers *)
(* or one writer.  All data members are protected by the spin lock         *)
(* lockflag; a thread which cannot enter appends itself to one of two wait *)
(* lists and suspends itself.  The thread which releases the lock hands it *)
(* over: it makes the woken thread the owner before it resumes it.         *)
(*                                                                         *)
(* Granularity.  Data members are read and written only while lockflag is  *)
(* set, so the statements between two points where another thread can      *)
(* notice something are one step.  Such points are: setting and clearing   *)
(* lockflag, every wakeup (it clears wait.next, which the woken thread     *)
(* reads under lock_thread and not under lockflag, and it sends SIGINT)    *)
(* and suspend_thread.  A section between lock_thread and unlock_thread is *)
(* one step.  lockflag holds the thread which set the flag (the code only  *)
(* has the bit; nothing reads the owner).                                  *)
(***************************************************************************)
EXTENDS Thread, SequencesExt

CONSTANT MaxReader  \* UINT32_MAX, the largest value of nrofreader

\* Every thread but the one which releases the write lock may be woken as a
\* reader; wakeupreader_rwlock does not test for overflow.
ASSUME MaxReaderAssumption == /\ MaxReader \in Nat \ {0}
                              /\ Cardinality(Threads) <= MaxReader + 1

VARIABLES readers,     \* list of waiting readers, first to last
          writers,     \* list of waiting writers, first to last
          writer,      \* owner of the write lock or NoThread
          nrofreader,  \* number of read locks handed out
          lockflag,    \* thread in the section protected by lockflag
          pc,          \* where a thread is in the functions of rwlock.c
          held         \* what the client of a thread has locked

lockVars == <<readers, writers, writer, nrofreader, lockflag>>
vars == <<lockVars, pc, held, threadVars>>

\* Functions which first call lockflag_rwlock.
Calls == {"lockreader", "lockwriter", "unlockreader", "unlockwriter"}
\* The rest of an unlock function, entered and left with lockflag set.
Wakeups == {"wakeupreader", "wakeupwriter", "unlockflag"}
\* The waiting loop of insertandwait_rwlock: suspended, or to test wait.next.
Waits == {"waitreader", "checkreader", "waitwriter", "checkwriter"}

TypeOK == /\ ThreadTypeOK
          /\ readers \in Seq(Threads)
          /\ writers \in Seq(Threads)
          /\ writer \in Threads \cup {NoThread}
          /\ nrofreader \in 0..MaxReader     \* it never wraps
          /\ lockflag \in Threads \cup {NoThread}
          /\ pc \in [Threads -> {"idle"} \cup Calls \cup Wakeups \cup Waits]
          /\ held \in [Threads -> {"none", "read", "write"}]

\* init_rwlock
Init == /\ ThreadInit
        /\ readers = <<>>
        /\ writers = <<>>
        /\ writer = NoThread
        /\ nrofreader = 0
        /\ lockflag = NoThread
        /\ pc = [t \in Threads |-> "idle"]
        /\ held = [t \in Threads |-> "none"]

-----------------------------------------------------------------------------
(* Moving a thread through the functions.                                  *)

Goto(t, label) == pc' = [pc EXCEPT ![t] = label]

\* t has set lockflag in function f and is about to execute its body.
In(t, f) == pc[t] = f /\ lockflag = t

\* unlockflag_rwlock
UnlockFlag == lockflag' = NoThread

\* unlockflag_rwlock and return from the function.
Return(t) == Goto(t, "idle") /\ UnlockFlag

\* The client calls a lock function when it holds nothing.  The calls which
\* fail on purpose are made with the write lock in hand: both lock functions
\* (EDEADLK) and unlockreader_rwlock, where nrofreader is 0 (EPERM); and
\* unlockwriter_rwlock without it (EPERM).
MayCall(t, f) ==
    CASE f \in {"lockreader", "lockwriter"} -> held[t] # "read"
      [] f = "unlockreader"                 -> held[t] # "none"
      [] f = "unlockwriter"                 -> TRUE

Call(t, f) == /\ pc[t] = "idle"
              /\ MayCall(t, f)
              /\ Goto(t, f)
              /\ UNCHANGED <<lockVars, held, threadVars>>

\* lockflag_rwlock: the iteration of the spin loop which finds the flag clear.
LockFlag(t) == /\ pc[t] \in Calls
               /\ lockflag = NoThread
               /\ lockflag' = t
               /\ UNCHANGED <<readers, writers, writer, nrofreader, pc, held, threadVars>>

\* insertandwait_rwlock up to the first suspend_thread.
InsertAndWait(t, list, label) ==
    /\ list' = Append(list, t)
    /\ Link(t)
    /\ UnlockFlag
    /\ Goto(t, label)

-----------------------------------------------------------------------------
(* lockreader_rwlock *)

\* Mistake: the test of lockwriter_rwlock.
ReaderMustWaitBug == writers # <<>> \/ writer # NoThread \/ nrofreader # 0

ReaderMustWait == writers # <<>> \/ writer # NoThread

\* ++ nrofreader would wrap to 0.
IsOverflow == nrofreader = MaxReader

LockReaderDeadlk(t) ==
    /\ In(t, "lockreader")
    /\ ReaderMustWait
    /\ writer = t
    /\ Return(t)
    /\ UNCHANGED <<readers, writers, writer, nrofreader, held, threadVars>>

LockReaderWait(t) ==
    /\ In(t, "lockreader")
    /\ ReaderMustWait
    /\ writer # t
    /\ InsertAndWait(t, readers, "waitreader")
    /\ UNCHANGED <<writers, writer, nrofreader, held, pending>>

LockReaderEnter(t) ==
    /\ In(t, "lockreader")
    /\ ~ReaderMustWait
    /\ ~IsOverflow
    /\ nrofreader' = nrofreader + 1
    /\ held' = [held EXCEPT ![t] = "read"]
    /\ Return(t)
    /\ UNCHANGED <<readers, writers, writer, threadVars>>

\* nrofreader wraps to 0, is decremented again and EOVERFLOW returned.
LockReaderOverflow(t) ==
    /\ In(t, "lockreader")
    /\ ~ReaderMustWait
    /\ IsOverflow
    /\ Return(t)
    /\ UNCHANGED <<readers, writers, writer, nrofreader, held, threadVars>>

-----------------------------------------------------------------------------
(* lockwriter_rwlock *)

\* Mistake: readers are forgotten.
WriterMustWaitBug == writer # NoThread

WriterMustWait == writer # NoThread \/ nrofreader # 0

LockWriterDeadlk(t) ==
    /\ In(t, "lockwriter")
    /\ WriterMustWait
    /\ writer = t
    /\ Return(t)
    /\ UNCHANGED <<readers, writers, writer, nrofreader, held, threadVars>>

LockWriterWait(t) ==
    /\ In(t, "lockwriter")
    /\ WriterMustWait
    /\ writer # t
    /\ InsertAndWait(t, writers, "waitwriter")
    /\ UNCHANGED <<readers, writer, nrofreader, held, pending>>

LockWriterEnter(t) ==
    /\ In(t, "lockwriter")
    /\ ~WriterMustWait
    /\ writer' = t
    /\ held' = [held EXCEPT ![t] = "write"]
    /\ Return(t)
    /\ UNCHANGED <<readers, writers, nrofreader, threadVars>>

-----------------------------------------------------------------------------
(* The waiting loop of insertandwait_rwlock *)

Suspend(t) ==
    /\ pc[t] \in {"waitreader", "waitwriter"}
    /\ SuspendThread(t)
    /\ Goto(t, IF pc[t] = "waitreader" THEN "checkreader" ELSE "checkwriter")
    /\ UNCHANGED <<lockVars, held, linked>>

\* wait.next is 0: the releasing thread made t an owner; the call returns.
IsWakeup(t) ==
    /\ pc[t] \in {"checkreader", "checkwriter"}
    /\ ~linked[t]
    /\ held' = [held EXCEPT ![t] = IF pc[t] = "checkreader" THEN "read" ELSE "write"]
    /\ Goto(t, "idle")
    /\ UNCHANGED <<lockVars, threadVars>>

\* A spurious resume: suspend again.
NoWakeup(t) ==
    /\ pc[t] \in {"checkreader", "checkwriter"}
    /\ linked[t]
    /\ Goto(t, IF pc[t] = "checkreader" THEN "waitreader" ELSE "waitwriter")
    /\ UNCHANGED <<lockVars, held, threadVars>>

-----------------------------------------------------------------------------
(* unlockreader_rwlock *)

UnlockReaderPerm(t) ==
    /\ In(t, "unlockreader")
    /\ nrofreader = 0
    /\ Return(t)
    /\ UNCHANGED <<readers, writers, writer, nrofreader, held, threadVars>>

\* Whom the last reader wakes.  Mistake: readers first.
AfterUnlockReaderBug(nr) ==
    CASE nr = 0 /\ readers # <<>>                   -> "wakeupreader"
      [] nr = 0 /\ readers = <<>> /\ writers # <<>> -> "wakeupwriter"
      [] OTHER                                      -> "unlockflag"

AfterUnlockReader(nr) ==
    CASE nr = 0 /\ writers # <<>>                   -> "wakeupwriter"
      [] nr = 0 /\ writers = <<>> /\ readers # <<>> -> "wakeupreader"
      [] OTHER                                      -> "unlockflag"

\* wakeupreader_rwlock starts with the last thread and follows the cyclic list:
\* this is the list in the order in which its threads are woken.  Mistake: the
\* loop ends in front of the thread it started with.
WalkFromLastBug(list) == Front(list)

WalkFromLast(list) == <<Last(list)>> \o Front(list)

StartWakeup(t, label) ==
    /\ Goto(t, label)
    /\ readers' = IF label = "wakeupreader" THEN WalkFromLast(readers) ELSE readers

UnlockReader(t) ==
    /\ In(t, "unlockreader")
    /\ nrofreader # 0
    /\ nrofreader' = nrofreader - 1
    /\ held' = [held EXCEPT ![t] = "none"]
    /\ StartWakeup(t, AfterUnlockReader(nrofreader - 1))
    /\ UNCHANGED <<writers, writer, lockflag, threadVars>>

-----------------------------------------------------------------------------
(* unlockwriter_rwlock *)

UnlockWriterPerm(t) ==
    /\ In(t, "unlockwriter")
    /\ writer # t
    /\ Return(t)
    /\ UNCHANGED <<readers, writers, writer, nrofreader, held, threadVars>>

\* Mistake: writers first.
AfterUnlockWriterBug ==
    CASE writers # <<>>                   -> "wakeupwriter"
      [] writers = <<>> /\ readers # <<>> -> "wakeupreader"
      [] OTHER                            -> "unlockflag"

AfterUnlockWriter ==
    CASE readers # <<>>                   -> "wakeupreader"
      [] readers = <<>> /\ writers # <<>> -> "wakeupwriter"
      [] OTHER                            -> "unlockflag"

UnlockWriter(t) ==
    /\ In(t, "unlockwriter")
    /\ writer = t
    /\ writer' = NoThread
    /\ held' = [held EXCEPT ![t] = "none"]
    /\ StartWakeup(t, AfterUnlockWriter)
    /\ UNCHANGED <<writers, nrofreader, lockflag, threadVars>>

-----------------------------------------------------------------------------
(* Wakeups and the end of the unlock functions *)

\* Between lock_thread and unlock_thread of the woken thread.
Wake(t) == Unlink(t) /\ ResumeThread(t)

\* One iteration of the loop of wakeupreader_rwlock.
WakeupReader(t) ==
    /\ In(t, "wakeupreader")
    /\ Wake(Head(readers))
    /\ nrofreader' = nrofreader + 1
    /\ readers' = Tail(readers)
    /\ IF Tail(readers) = <<>> THEN Goto(t, "unlockflag") ELSE UNCHANGED pc
    /\ UNCHANGED <<writers, writer, lockflag, held>>

\* wakeupwriter_rwlock
WakeupWriter(t) ==
    /\ In(t, "wakeupwriter")
    /\ writer' = Head(writers)
    /\ writers' = Tail(writers)
    /\ Wake(Head(writers))
    /\ Goto(t, "unlockflag")
    /\ UNCHANGED <<readers, nrofreader, lockflag, held>>

Unlocked(t) ==
    /\ In(t, "unlockflag")
    /\ Return(t)
    /\ UNCHANGED <<readers, writers, writer, nrofreader, held, threadVars>>

-----------------------------------------------------------------------------

LockReader(t) == \/ LockReaderDeadlk(t)
                 \/ LockReaderWait(t)
                 \/ LockReaderEnter(t)
                 \/ LockReaderOverflow(t)

LockWriter(t) == \/ LockWriterDeadlk(t)
                 \/ LockWriterWait(t)
                 \/ LockWriterEnter(t)

\* What t does inside of a call once it owns lockflag or needs none.
Step(t) == \/ LockReader(t)
           \/ LockWriter(t)
           \/ Suspend(t)
           \/ IsWakeup(t)
           \/ NoWakeup(t)
           \/ UnlockReaderPerm(t)
           \/ UnlockReader(t)
           \/ UnlockWriterPerm(t)
           \/ UnlockWriter(t)
           \/ WakeupReader(t)
           \/ WakeupWriter(t)
           \/ Unlocked(t)

Spurious(t) == SpuriousResume(t) /\ UNCHANGED <<lockVars, pc, held>>

Next == \E t \in Threads : \/ \E f \in Calls : Call(t, f)
                           \/ LockFlag(t)
                           \/ Step(t)
                           \/ Spurious(t)

Spec == Init /\ [][Next]_vars

\* A client which holds a lock gives it back.
Release(t) == \/ held[t] = "read" /\ Call(t, "unlockreader")
              \/ held[t] = "write" /\ Call(t, "unlockwriter")

\* Every thread which can run is scheduled; a thread which spins on lockflag
\* finds it clear if it is cleared again and again (yield_thread in the loop,
\* sections of bounded length); a client does not keep a lock for ever.
Fairness == \A t \in Threads : /\ WF_vars(Step(t))
                               /\ SF_vars(LockFlag(t))
                               /\ SF_vars(Release(t))

FairSpec == Spec /\ Fairness

-----------------------------------------------------------------------------
(* Properties *)

\* Threads which own the lock: their call returned, or a releasing thread
\* took them out of the wait list and they only have to notice it.
ReadOwners == {t \in Threads : \/ held[t] = "read"
                               \/ pc[t] \in {"waitreader", "checkreader"} /\ ~linked[t]}

WriteOwners == {t \in Threads : \/ held[t] = "write"
                                \/ pc[t] \in {"waitwriter", "checkwriter"} /\ ~linked[t]}

\* A client which holds the write lock is alone: nobody else holds the lock
\* for reading or writing (rwlock.h, struct rwlock_t).
MutualExclusion ==
    \A t, u \in Threads : held[t] = "write" /\ t # u => held[u] = "none"

\* The members nrofreader and writer describe exactly the threads which own
\* the lock, at every step of a hand-over; they never own it together.
OwnersCounted == /\ nrofreader = Cardinality(ReadOwners)
                 /\ WriteOwners = {writer} \ {NoThread}
                 /\ writer # NoThread => nrofreader = 0

\* wait.next is cleared before resume_thread is called, but under lock_thread:
\* a suspended thread which is no longer in a list has its SIGINT pending,
\* whatever spurious resumes it consumed before.
NoLostWakeup ==
    \A t \in Threads :
        pc[t] \in {"waitreader", "waitwriter"} /\ ~linked[t] => pending[t]

\* A thread is in a wait list exactly if its wait node says so, it is in the
\* waiting loop, and it is in one list only, once.
WaitListsConsistent ==
    /\ IsInjective(readers) /\ IsInjective(writers)
    /\ ToSet(readers) = {t \in Threads : linked[t] /\ pc[t] \in {"waitreader", "checkreader"}}
    /\ ToSet(writers) = {t \in Threads : linked[t] /\ pc[t] \in {"waitwriter", "checkwriter"}}
    /\ \A t \in Threads : linked[t] => pc[t] \in Waits

\* The comment in unlockreader_rwlock: "should never enter this branch,
\* readers are only inserted into readers if rwlock->writers.last != 0".
NeverEnterThisBranch ==
    \A t \in Threads :
        In(t, "unlockreader") /\ nrofreader = 1 /\ readers # <<>> => writers # <<>>

\* A thread is about to wake others.
Waking == \E t \in Threads : pc[t] \in {"wakeupreader", "wakeupwriter"}

\* Nobody waits for a lock which is free: unless a thread is about to wake
\* others, readers wait only for a writer and writers only for an owner.
NobodyWaitsForFreeLock ==
    ~Waking => /\ readers # <<>> => writer # NoThread \/ writers # <<>>
               /\ writers # <<>> => writer # NoThread \/ nrofreader # 0

\* A thread which called lockwriter_rwlock without owning the lock gets it,
\* however many readers and writers come and go meanwhile.
WriterEnters ==
    \A t \in Threads : pc[t] = "lockwriter" /\ held[t] = "none" ~> held[t] = "write"

\* A thread which waits in lockreader_rwlock gets the lock although waiting
\* writers are preferred to new readers.
ReaderEnters == \A t \in Threads : pc[t] = "waitreader" ~> held[t] = "read"

-----------------------------------------------------------------------------
(* The inductive invariant: what the members of the lock and the places of   *)
(* the threads have to do with each other.                                   *)

\* lockflag is set by a thread in a protected section and by no other.
FlagInv ==
    /\ \A t \in Threads : lockflag = t => pc[t] \in Calls \cup Wakeups
    /\ \A t \in Threads : pc[t] \in Wakeups => lockflag = t

\* What a client has locked, by the function which it called.
HeldInv ==
    \A t \in Threads : /\ pc[t] \in Waits \cup Wakeups => held[t] = "none"
                       /\ pc[t] \in {"lockreader", "lockwriter"} => held[t] # "read"
                       /\ pc[t] = "unlockreader" => held[t] # "none"

\* A thread which is about to wake others found them and left the lock free.
WakingInv ==
    \A t \in Threads :
        /\ pc[t] = "wakeupreader" => readers # <<>> /\ writer = NoThread
        /\ pc[t] = "wakeupwriter" => writers # <<>> /\ writer = NoThread /\ nrofreader = 0

\* writer, nrofreader, both wait lists and the threads agree with each other in
\* every step of the lock and unlock functions of rwlock.c.
RWInv ==
    /\ TypeOK
    /\ FlagInv
    /\ HeldInv
    /\ WakingInv
    /\ OwnersCounted
    /\ WaitListsConsistent
    /\ NobodyWaitsForFreeLock
    /\ NoLostWakeup

=============================================================================
