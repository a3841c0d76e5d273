------------------------------ MODULE FifoLock ------------------------------
(***************************************************************************)
(* What thrmutex_t promises (C-kern/api/platform/sync/thrmutex.h): one     *)
(* owner at a time; who calls lock_thrmutex while there is one is stored   *)
(* as the last entry of a wait list; the owner which unlocks makes the     *)
(* first thread of the list the next owner.  Releasing and handing over is *)
(* one step here: no thread gets the lock in between.                      *)
(***************************************************************************)
EXTENDS Sequences, SequencesExt

CONSTANT Threads

VARIABLES owners,  \* the threads which own the lock
          queue    \* the threads which wait, in order of arrival

vars == <<owners, queue>>

Init == /\ owners = {}
        /\ queue = <<>>

Outside(t) == t \notin owners \cup ToSet(queue)

Acquire(t) == /\ Outside(t)
              /\ owners = {} /\ queue = <<>>
              /\ owners' = {t}
              /\ UNCHANGED queue

Enqueue(t) == /\ Outside(t)
              /\ owners # {}
              /\ queue' = Append(queue, t)
              /\ UNCHANGED owners

Release(t) == /\ t \in owners
              /\ \/ /\ queue = <<>>
                    /\ owners' = owners \ {t}
                    /\ UNCHANGED queue
                 \/ /\ queue # <<>>
                    /\ owners' = (owners \ {t}) \cup {Head(queue)}
                    /\ queue' = Tail(queue)

Next == \E t \in Threads : \/ Acquire(t)
                           \/ Enqueue(t)
                           \/ Release(t)

Spec == Init /\ [][Next]_vars

=============================================================================
