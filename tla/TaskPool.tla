------------------------------ MODULE TaskPool ------------------------------
(***************************************************************************)
(* What the documentation of `Queue` promises about the tasks submitted to *)
(* it, without queue thread, channels, signals or labels: a task is taken  *)
(* once, not before the semaphores it waits for are signalled, never by    *)
(* more workers than there are; its function is called at most once, and   *)
(* that of a continuation only when its predecessor is over.  A task gives *)
(* its worker back before the others hear of its end, so that the next one *)
(* may be taken in between.                                                *)
(***************************************************************************)
EXTENDS Naturals, FiniteSets

CONSTANTS Tasks, NoTask,
          WaitOn,     \* the semaphores each task waits for
          Signals,    \* the semaphores each task signals
          Pred,       \* the predecessor of a continuation, or NoTask
          Capacity    \* threads times workers per thread

VARIABLES queued,     \* submitted, not given to a worker
          running,    \* given to a worker
          leaving,    \* done with its worker, not announced
          begun,      \* its function has been called
          finished    \* its semaphores and signals are announced

vars == <<queued, running, leaving, begun, finished>>

Init == queued = {} /\ running = {} /\ leaving = {} /\ begun = {} /\ finished = {}

Released(t) == \A s \in WaitOn[t] : \E u \in finished : s \in Signals[u]

Submit(t) == /\ t \notin queued \cup running \cup leaving \cup finished
             /\ queued' = queued \cup {t}
             /\ UNCHANGED <<running, leaving, begun, finished>>

Start(t) == /\ t \in queued /\ Released(t)
            /\ Cardinality(running) < Capacity
            /\ queued' = queued \ {t}
            /\ running' = running \cup {t}
            /\ UNCHANGED <<leaving, begun, finished>>

Callable(t) == t \in running /\ (Pred[t] # NoTask => Pred[t] \in finished)

Begin(t) == /\ Callable(t) /\ t \notin begun
            /\ begun' = begun \cup {t}
            /\ UNCHANGED <<queued, running, leaving, finished>>

(* It returned or panicked, perhaps when it was called; or it was found to *)
(* be cancelled.                                                           *)
Leave(t) == /\ t \in running
            /\ running' = running \ {t}
            /\ leaving' = leaving \cup {t}
            /\ begun' = begun \/ (Callable(t) /\ begun' = begun \cup {t})
            /\ UNCHANGED <<queued, finished>>

Announce(t) == /\ t \in leaving
               /\ leaving' = leaving \ {t}
               /\ finished' = finished \cup {t}
               /\ UNCHANGED <<queued, running, begun>>

(* Cancelled, or the predecessor failed: the function is never called.     *)
Discard(t) == /\ t \in queued /\ Released(t)
              /\ queued' = queued \ {t}
              /\ finished' = finished \cup {t}
              /\ UNCHANGED <<running, leaving, begun>>

Next == \E t \in Tasks :
          Submit(t) \/ Start(t) \/ Begin(t) \/ Leave(t) \/ Announce(t) \/ Discard(t)

Spec == Init /\ [][Next]_vars
=============================================================================
