------------------------ MODULE SchedulerProperties ------------------------
(* What queue thread and worker threads guarantee together.                *)
EXTENDS Scheduler, Functions

(* The tasks worker thread w has been sent and not finished.  Between      *)
(* Credit and WakeQueue the current task is finished but still in its      *)
(* place.                                                                  *)
Finishing(w) == wpc[w] \in {"announce", "wakeTask", "wakeQueue"}
Load(w) == Len(inbox[w]) + Len(futures[w]) + Len(polling[w])
             - (IF Finishing(w) THEN 1 ELSE 0)

(* No thread holds more unfinished tasks than it has workers, though the   *)
(* queue thread tests the counter, sends, and only then decrements it.     *)
Capacity == \A w \in Threads : Load(w) + lost[w] <= WorkersPerThread

(* The books of the free workers: a worker is free, occupied, about to be  *)
(* taken, or lost to a task that panicked or was cancelled while running.  *)
Conservation ==
  \A w \in Threads :
    free[w] + Load(w) + lost[w]
      = WorkersPerThread + (IF qpc = "debit" /\ target = w THEN 1 ELSE 0)

OnWorker(t) == \E w \in Threads : t \in Range(inbox[w] \o futures[w] \o polling[w])
InQueue(t)  == t \in Range(chan \o todo \o remaining)

(* Index 1 .. cpc of the batch of a client has been sent.                  *)
Submitted(t) == \E c \in Clients : \E i \in DOMAIN Batch[c] : i <= cpc[c] /\ Batch[c][i] = t

(* "Tasks that require other tasks to finish will not be popped until they *)
(* are ready": a task reaches a worker only after every semaphore it waits *)
(* for was signalled by a finished task, and the function of a             *)
(* continuation is called only after its predecessor has finished.         *)
DependenciesRespected ==
  /\ \A t \in Tasks : OnWorker(t) =>
       \A s \in WaitOn[t] : \E u \in done : s \in Signals[u]
  /\ \A t \in begun : Pred[t] # NoTask => Pred[t] \in done

(* "Function finished but is still pending!" (src/src/task.rs:322) is      *)
(* never reached: whoever is let through by the signal of a task finds its *)
(* final state, also when it is read twice, as continuations do.           *)
ResultsAreSettled == \A t \in done : state[t] # "Pending"

(* A wake of the queue thread is under way: a client has sent and not yet  *)
(* woken, or a worker thread is finishing a task.                          *)
WakeComing ==
  \/ \E c \in Clients : cpc[c] \in 1 .. Len(Batch[c])
  \/ \E w \in Threads : wpc[w] = "credit" \/ Finishing(w)

(* Some thread meets the wishes of the task.                               *)
Placeable(t) ==
  \E w \in Threads : IF Preferred[t] # NoLabel THEN Label[w] = Preferred[t]
                                              ELSE Label[w] \notin NotOn[t]

(* The queue thread does not sleep over work: when it waits and nobody is  *)
(* about to wake it, every task it holds is waiting for another one or for *)
(* a worker of the only threads it may go to.  (Cancelling a predecessor   *)
(* makes a continuation executable without a wake, and forgetting a wish   *)
(* that no thread meets is no reason for another pass: these cases are     *)
(* left out.)                                                              *)
NoMissedDispatch ==
  qpc = "wait" /\ ~qsig /\ ~WakeComing =>
    \A t \in Range(todo) : Placeable(t) =>
      \/ ~CanExecute(t) \/ PredState(t) = "Cancelled"
      \/ Allowed(t) # {} /\ \A w \in Allowed(t) : free[w] = 0

(* A graceful shutdown loses no task: when all threads have ended after    *)
(* the queue was dropped, every submitted task has been announced.         *)
ShutdownDrains ==
  qpc = "ended" /\ (\A w \in Threads : wpc[w] = "ended") =>
    \A t \in Tasks : Submitted(t) => t \in done

(* A task whose preferred label exists runs on the first thread with that  *)
(* label; any other runs where its exclusions allow, if they allow any     *)
(* thread at all (Task::set_preferred_thread, Task::not_on).               *)
Placement ==
  \A w \in Threads : \A t \in Range(inbox[w] \o futures[w] \o polling[w]) :
    IF \E v \in Threads : Preferred[t] # NoLabel /\ Label[v] = Preferred[t]
    THEN Label[w] = Preferred[t] /\ \A v \in 1 .. w - 1 : Label[v] # Preferred[t]
    ELSE Label[w] \notin NotOn[t] \/ \A v \in Threads : Label[v] \in NotOn[t]

(* src/src/task.rs:313: "If the Task, or any of its predecessors, have     *)
(* panicked, this function will return Panicked": a continuation of a      *)
(* panicked task is announced as panicked, and its function never called.  *)
(* (Cancelling the predecessor would overwrite its panic.)                 *)
PanicsPropagate ==
  \A t \in done \ MayCancel :
    Pred[t] # NoTask /\ Pred[t] \notin MayCancel /\ state[Pred[t]] = "Panicked" =>
      state[t] = "Panicked" /\ t \notin begun

(* After a task was announced, only a cancel changes its state.            *)
AnnouncedIsFinal ==
  [][\A t \in done : state'[t] \in {state[t], "Cancelled"}]_vars

(* src/src/queue.rs:136: "When there is a free worker available, the task  *)
(* will be popped off the queue and executed": every task gets finished.   *)
EveryTaskFinishes == \A t \in Tasks : Submitted(t) ~> t \in done

(* src/src/task.rs:210: get_panic is called for panicked tasks only.       *)
QueueThreadSurvives == qpc # "dead"

-----------------------------------------------------------------------------
(* The abstract task pool this scheduler implements.  A worker is free     *)
(* from Credit on, and the queue thread may fill it before Announce.       *)
Leaving == {Current(w) : w \in {v \in Threads : wpc[v] = "announce"}}

Pool == INSTANCE TaskPool WITH
          Capacity <- NThreads * WorkersPerThread,
          queued <- {t \in Tasks : InQueue(t)},
          running <- {t \in Tasks : OnWorker(t)} \ (Leaving \cup done),
          leaving <- Leaving,
          finished <- done

ImplementsTaskPool == Pool!Spec
=============================================================================
