------------------------------- MODULE Thread -------------------------------
(***************************************************************************)
(* The part of thread_t that every blocking object of C-kern builds on:    *)
(* suspend_thread / resume_thread (C-kern/platform/Linux/task/thread.c)    *)
(* and the wait node thread_t.wait, which links a thread into the list of  *)
(* waiting threads of one object.                                          *)
(*                                                                         *)
(* resume_thread sends SIGINT with pthread_kill; suspend_thread consumes   *)
(* it with sigwaitinfo.  SIGINT is a standard signal: it is not queued, so *)
(* any number of resumes before the next suspend is one pending bit.  The  *)
(* bit belongs to the thread, not to the object which resumes it, and      *)
(* SIGINT may be sent by anyone (thread.h calls this a spurious resume).   *)
(***************************************************************************)
EXTENDS Naturals, Sequences, FiniteSets

CONSTANTS Threads,  \* the threads which share the modelled object
          NoThread, \* the null pointer
          Signalled \* the threads to which others may send SIGINT

ASSUME ThreadsAssumption == /\ IsFiniteSet(Threads)
                            /\ Signalled \subseteq Threads
                            /\ NoThread \notin Threads

VARIABLES pending,  \* pending[t]: SIGINT is pending for thread t
          linked    \* linked[t]:  t->wait.next # 0, t is in a wait list

threadVars == <<pending, linked>>

ThreadTypeOK == /\ pending \in [Threads -> BOOLEAN]
                /\ linked \in [Threads -> BOOLEAN]

\* thread_FREE: no wait node is linked; a new thread has no SIGINT pending.
ThreadInit == /\ pending = [t \in Threads |-> FALSE]
              /\ linked = [t \in Threads |-> FALSE]

-----------------------------------------------------------------------------
(* Conjuncts the actions of the blocking objects are built from.           *)

\* suspend_thread() without timeout returns: sigwaitinfo took the SIGINT.
SuspendThread(t) == /\ pending[t]
                    /\ pending' = [pending EXCEPT ![t] = FALSE]

\* resume_thread(t), and any number of threads resumed in one step.
ResumeThread(t) == pending' = [pending EXCEPT ![t] = TRUE]

\* insertlast_xxxlist sets t->wait.next; removefirst_xxxlist, remove_xxxlist
\* and the loop of wakeupreader_rwlock set it to 0.
Link(t)   == linked' = [linked EXCEPT ![t] = TRUE]
Unlink(t) == linked' = [linked EXCEPT ![t] = FALSE]

\* A SIGINT nobody of the modelled object sent.
SpuriousResume(t) == /\ t \in Signalled
                     /\ ~pending[t]
                     /\ ResumeThread(t)
                     /\ UNCHANGED linked

=============================================================================
