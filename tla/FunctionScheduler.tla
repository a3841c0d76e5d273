------------------------- MODULE FunctionScheduler --------------------------
(***************************************************************************)
(* What syncrunner_t promises (C-kern/api/task/syncrunner.h): every        *)
(* run_syncrunner calls each function which is ready once, and then those  *)
(* which were woken up; functions which wait for a condition are woken in  *)
(* the order in which they began to wait.  There are no queues, pages and  *)
(* slots here: what happens to them cannot be seen by the functions.       *)
(***************************************************************************)
EXTENDS LinkedList, Sequences

CONSTANTS Funcs, Waits

VARIABLES ready,    \* the functions which every run calls
          waiting,  \* waiting[w]: functions which wait for w, first to last
          woken,    \* functions the next run calls, in the order they were woken up
          calling,  \* woken functions this run still has to call
          due,      \* ready functions this run still has to call
          mode      \* "idle", "run", "wakeup" or "terminate"

vars == <<ready, waiting, woken, calling, due, mode>>

Managed == ready \cup ToSet(woken) \cup ToSet(calling) \cup UNION {ToSet(waiting[w]) : w \in Waits}

Forgotten == /\ ready = {}
             /\ waiting = [w \in Waits |-> <<>>]
             /\ woken = <<>> /\ calling = <<>>

Init == Forgotten /\ due = {} /\ mode = "idle"

-----------------------------------------------------------------------------
(* The client between two runs, or a function which is being called *)

\* A function which is added while the functions are called is not called by this run.
Add(f) ==
    /\ mode # "terminate"
    /\ f \notin Managed
    /\ ready' = ready \cup {f}
    /\ UNCHANGED <<waiting, woken, calling, due, mode>>

WakeFirst(w) ==
    /\ waiting[w] # <<>>
    /\ waiting' = [waiting EXCEPT ![w] = Tail(@)]
    /\ woken' = Append(woken, Head(waiting[w]))
    /\ UNCHANGED <<ready, calling, due, mode>>

WakeAll(w) ==
    /\ waiting[w] # <<>>
    /\ waiting' = [waiting EXCEPT ![w] = <<>>]
    /\ woken' = woken \o waiting[w]
    /\ UNCHANGED <<ready, calling, due, mode>>

-----------------------------------------------------------------------------
(* What a function which is called does before it returns *)

\* It is the last one which waits for w.
WaitsFor(f, w) == waiting' = [waiting EXCEPT ![w] = Append(@, f)]

BeginRun ==
    /\ mode = "idle"
    /\ mode' = "run"
    /\ due' = ready
    /\ UNCHANGED <<ready, waiting, woken, calling>>

CallReady(f) ==
    /\ mode = "run" /\ f \in due
    /\ due' = due \ {f}
    /\ \/ UNCHANGED <<ready, waiting>>                                  \* it yields
       \/ ready' = ready \ {f} /\ \E w \in Waits : WaitsFor(f, w)
       \/ ready' = ready \ {f} /\ UNCHANGED waiting                     \* it ends
    /\ UNCHANGED <<woken, calling, mode>>

\* After all ready functions were called those woken up until now are.
BeginWoken ==
    /\ mode = "run" /\ due = {}
    /\ calling' = woken
    /\ woken' = <<>>
    /\ mode' = IF woken = <<>> THEN "idle" ELSE "wakeup"
    /\ UNCHANGED <<ready, waiting, due>>

\* The run may end with an error instead; they remain woken up.
RunError ==
    /\ mode = "run" /\ due = {}
    /\ mode' = "idle"
    /\ UNCHANGED <<ready, waiting, woken, calling, due>>

CallWoken ==
    /\ mode = "wakeup" /\ calling # <<>>
    /\ calling' = Tail(calling)
    /\ \/ ready' = ready \cup {Head(calling)} /\ UNCHANGED waiting      \* it yields
       \/ UNCHANGED ready /\ \E w \in Waits : WaitsFor(Head(calling), w)
       \/ UNCHANGED <<ready, waiting>>                                  \* it ends
    /\ UNCHANGED <<woken, due, mode>>

EndRun ==
    /\ mode = "wakeup" /\ calling = <<>>
    /\ mode' = "idle"
    /\ UNCHANGED <<ready, waiting, woken, calling, due>>

-----------------------------------------------------------------------------
(* terminate_syncrunner, free_syncrunner *)

BeginTermination ==
    /\ mode = "idle"
    /\ mode' = "terminate"
    /\ UNCHANGED <<ready, waiting, woken, calling, due>>

\* Every function is told to end, whatever it waits for.
End(f) ==
    /\ mode = "terminate" /\ f \in Managed
    /\ ready' = ready \ {f}
    /\ waiting' = [w \in Waits |-> Without(waiting[w], f)]
    /\ woken' = Without(woken, f)
    /\ UNCHANGED <<calling, due, mode>>

EndTermination ==
    /\ mode = "terminate" /\ Managed = {}
    /\ mode' = "idle"
    /\ UNCHANGED <<ready, waiting, woken, calling, due>>

Forget ==
    /\ mode = "idle"
    /\ ready' = {}
    /\ waiting' = [w \in Waits |-> <<>>]
    /\ woken' = <<>>
    /\ UNCHANGED <<calling, due, mode>>

-----------------------------------------------------------------------------

Next == \/ \E f \in Funcs : Add(f) \/ CallReady(f) \/ End(f)
        \/ \E w \in Waits : WakeFirst(w) \/ WakeAll(w)
        \/ BeginRun \/ BeginWoken \/ RunError \/ CallWoken \/ EndRun
        \/ BeginTermination \/ EndTermination \/ Forget

Spec == Init /\ [][Next]_vars

=============================================================================
