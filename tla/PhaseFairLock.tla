---------------------------- MODULE PhaseFairLock ----------------------------
(***************************************************************************)
(* What rwlock_t promises (C-kern/api/platform/sync/rwlock.h): a lock for  *)
(* many readers or one writer.  A new reader never overtakes a waiting     *)
(* writer, a writer which leaves lets in all readers which wait, the last  *)
(* reader which leaves lets in the writer which waits longest.  Releasing  *)
(* and handing over is one step here.                                      *)
(***************************************************************************)
EXTENDS Naturals, Sequences, FiniteSets, SequencesExt

CONSTANTS Threads, NoThread

VARIABLES active,     \* threads which own the lock for reading
          exclusive,  \* thread which owns the lock for writing or NoThread
          queueR,     \* threads which wait for reading
          queueW      \* threads which wait for writing, in order of arrival

vars == <<active, exclusive, queueR, queueW>>

Init == /\ active = {}
        /\ exclusive = NoThread
        /\ queueR = {}
        /\ queueW = <<>>

Outside(t) == t \notin active \cup {exclusive} \cup queueR \cup ToSet(queueW)

EnterRead(t) == /\ Outside(t)
                /\ exclusive = NoThread
                /\ queueW = <<>>
                /\ active' = active \cup {t}
                /\ UNCHANGED <<exclusive, queueR, queueW>>

QueueRead(t) == /\ Outside(t)
                /\ exclusive # NoThread \/ queueW # <<>>
                /\ queueR' = queueR \cup {t}
                /\ UNCHANGED <<active, exclusive, queueW>>

EnterWrite(t) == /\ Outside(t)
                 /\ exclusive = NoThread
                 /\ active = {}
                 /\ exclusive' = t
                 /\ UNCHANGED <<active, queueR, queueW>>

QueueWrite(t) == /\ Outside(t)
                 /\ exclusive # NoThread \/ active # {}
                 /\ queueW' = Append(queueW, t)
                 /\ UNCHANGED <<active, exclusive, queueR>>

\* The writer which waits longest gets the lock.
AdmitWriter == /\ queueW # <<>>
               /\ exclusive' = Head(queueW)
               /\ queueW' = Tail(queueW)

LeaveRead(t) == /\ t \in active
                /\ active' = active \ {t}
                /\ \/ active' = {} /\ AdmitWriter
                   \/ /\ active' # {} \/ queueW = <<>>
                      /\ UNCHANGED <<exclusive, queueW>>
                /\ UNCHANGED queueR

LeaveWrite(t) == /\ exclusive = t
                 /\ \/ /\ queueR # {}
                       /\ active' = queueR
                       /\ queueR' = {}
                       /\ exclusive' = NoThread
                       /\ UNCHANGED queueW
                    \/ /\ queueR = {}
                       /\ \/ AdmitWriter
                          \/ /\ queueW = <<>>
                             /\ exclusive' = NoThread
                             /\ UNCHANGED queueW
                       /\ UNCHANGED <<active, queueR>>

Next == \E t \in Threads : \/ EnterRead(t)
                           \/ QueueRead(t)
                           \/ EnterWrite(t)
                           \/ QueueWrite(t)
                           \/ LeaveRead(t)
                           \/ LeaveWrite(t)

Spec == Init /\ [][Next]_vars

=============================================================================
