------------------------------- MODULE Event -------------------------------
(***************************************************************************)
(* What the library relies on when it parks a thread on a `Signal`: an     *)
(* auto-reset event.  Setting it is remembered until one blocked caller    *)
(* consumes it; a call that finds it set never blocks for good; asking a   *)
(* future about it does not consume it.  Mutex, condition variable, waker  *)
(* list and spurious wakeups are hidden.  Module Signal implements this    *)
(* specification; module Scheduler uses it for every Signal it contains.   *)
(***************************************************************************)
CONSTANTS Blockers,   \* threads that may call Signal::wait
          Futures     \* futures made by Signal::wait_async

VARIABLES set,        \* the event is set and not yet consumed
          blocked,    \* the blockers inside a call of wait
          resolved    \* the futures that have observed the event

vars == <<set, blocked, resolved>>

Init == set = FALSE /\ blocked = {} /\ resolved = {}

Set == set' = TRUE /\ UNCHANGED <<blocked, resolved>>

Call(b) == /\ b \notin blocked
           /\ blocked' = blocked \cup {b}
           /\ UNCHANGED <<set, resolved>>

Return(b) == /\ b \in blocked /\ set
             /\ set' = FALSE
             /\ blocked' = blocked \ {b}
             /\ UNCHANGED resolved

Resolve(f) == /\ f \notin resolved /\ set
              /\ resolved' = resolved \cup {f}
              /\ UNCHANGED <<set, blocked>>

Next == \/ Set
        \/ \E b \in Blockers : Call(b) \/ Return(b)
        \/ \E f \in Futures : Resolve(f)

(* A set event with a caller blocked on it lets some caller through.       *)
Spec == Init /\ [][Next]_vars /\ WF_vars(\E b \in Blockers : Return(b))
=============================================================================
