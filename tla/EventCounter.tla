---------------------------- MODULE EventCounter ----------------------------
(***************************************************************************)
(* What the clients of eventcount_t rely on: every call of count_eventcount*)
(* allows exactly one call of wait_eventcount or trywait_eventcount to     *)
(* succeed.  Module EventCount implements it as long as no timeout crosses *)
(* a wakeup; the I/O system (module IOThread), which waits without timeout,*)
(* uses it in place of the implementation.                                 *)
(***************************************************************************)
EXTENDS Naturals

VARIABLE events  \* events which were counted and not taken yet

Init == events = 0

Count == events' = events + 1

Take == /\ events > 0
        /\ events' = events - 1

\* free_eventcount forgets the events which nobody took.
Reset == events' = 0

Next == Count \/ Take \/ Reset

Spec == Init /\ [][Next]_events

=============================================================================
