------------------------------ MODULE Scheduler ------------------------------
(***************************************************************************)
(* The queue thread (Queue::run), the worker threads (WorkerThread::run)   *)
(* and the clients that submit and cancel tasks: src/src/queue.rs with the *)
(* parts of src/src/task.rs and src/src/sync.rs it calls.                  *)
(*                                                                         *)
(* Every access to state that two threads share is a step of its own: a    *)
(* channel operation, an atomic counter, a TaskState lock, a Signal.  A    *)
(* Signal is the auto-reset event of module Event, which module Signal is  *)
(* shown to implement: wake sets it, wait blocks until it can reset it.    *)
(***************************************************************************)
EXTENDS Integers, Sequences, FiniteSets

CONSTANTS
  Tasks, NoTask,
  Semaphores,
  Clients,           \* threads that submit tasks
  Batch,             \* Batch[c]: the tasks client c submits, in this order
  NThreads,          \* MVSyncSpecs::thread_count (0 never gets here)
  WorkersPerThread,  \* MVSyncSpecs::workers_per_thread
  Label, NoLabel,    \* Label[w]: label of worker thread w, or NoLabel
  Preferred, NotOn,  \* Task::preferred_thread (or NoLabel), Task::not_on
  WaitOn, Signals,   \* Task::wait, Task::semaphores
  Pred,              \* predecessor of a continuation, or NoTask
  Pends,             \* how often the function of a task may return Pending
  MayPanic,          \* tasks whose function may panic
  MayCancel,         \* tasks somebody may cancel
  Watched            \* tasks somebody waits for with a fence or a controller

Threads == 1 .. NThreads

(* A Task is moved into the queue and a TaskHandle into the continuation:  *)
(* no task is submitted twice, none has two continuations.                 *)
ASSUME SchedulerAssumption ==
  /\ NoTask \notin Tasks
  /\ NThreads \in Nat \ {0} /\ WorkersPerThread \in Nat
  /\ Batch \in [Clients -> Seq(Tasks)]
  /\ \A c, d \in Clients : \A i \in DOMAIN Batch[c], j \in DOMAIN Batch[d] :
       Batch[c][i] = Batch[d][j] => c = d /\ i = j
  /\ Pred \in [Tasks -> Tasks \cup {NoTask}]
  /\ \A t, u \in Tasks : Pred[t] = Pred[u] /\ Pred[t] # NoTask => t = u
  /\ WaitOn \in [Tasks -> SUBSET Semaphores]
  /\ Signals \in [Tasks -> SUBSET Semaphores]
  /\ Pends \in [Tasks -> Nat]
  /\ DOMAIN Preferred = Tasks /\ DOMAIN NotOn = Tasks
  /\ \A t \in Tasks : NoLabel \notin NotOn[t]
  /\ MayPanic \subseteq Tasks /\ MayCancel \subseteq Tasks /\ Watched \subseteq Tasks

VARIABLES
  \* the queue thread
  qpc, todo, remaining, target,
  pref, notOn,       \* Task::preferred_thread, Task::not_on
  \* the worker threads
  wpc, futures, polling, got, parked,
  \* clients
  cpc, closed,
  \* shared: channels, counters, signals
  chan, inbox, free, qsig, wsig, tsig,
  \* shared: tasks and semaphores
  state, sem, pends,
  \* history
  begun, done, lost

queueVars  == <<qpc, todo, remaining, target, pref, notOn>>
workerVars == <<wpc, futures, polling, got, parked, pends, begun, lost>>
clientVars == <<cpc, closed>>
linkVars   == <<chan, inbox, free, qsig, wsig, tsig>>
taskVars   == <<state, sem, done>>
vars == <<queueVars, workerVars, clientVars, linkVars, taskVars>>

TaskStates == {"Pending", "Ready", "Panicked", "Cancelled"}
QueuePCs  == {"top", "next", "panicked?", "panic", "cancelled?", "select",
              "dispatch", "debit", "poke", "notify", "wait", "ended", "dead"}
WorkerPCs == {"top", "poll", "take", "match", "credit", "announce", "wakeTask",
              "wakeQueue", "park", "ended"}

QueueTypeOK ==
  /\ qpc \in QueuePCs /\ target \in Threads
  /\ todo \in Seq(Tasks) /\ remaining \in Seq(Tasks)
  /\ DOMAIN pref = Tasks /\ DOMAIN notOn = Tasks

WorkerTypeOK ==
  /\ wpc \in [Threads -> WorkerPCs]
  /\ futures \in [Threads -> Seq(Tasks)]
  /\ polling \in [Threads -> Seq(Tasks)]
  /\ got \in [Threads -> TaskStates]
  /\ parked \in [Threads -> SUBSET Tasks]
  /\ pends \in [Tasks -> Nat]
  /\ begun \subseteq Tasks
  /\ lost \in [Threads -> Nat]

ClientTypeOK == cpc \in [Clients -> Nat] /\ closed \in BOOLEAN

(* `free` is an unsigned counter: AtomicU32, decremented without a test.   *)
LinkTypeOK ==
  /\ chan \in Seq(Tasks)
  /\ inbox \in [Threads -> Seq(Tasks)]
  /\ free \in [Threads -> Nat]
  /\ qsig \in BOOLEAN
  /\ wsig \in [Threads -> BOOLEAN]
  /\ tsig \in [Tasks -> BOOLEAN]

TaskTypeOK ==
  /\ state \in [Tasks -> TaskStates]
  /\ sem \in [Semaphores -> BOOLEAN]
  /\ done \subseteq Tasks

TypeOK == QueueTypeOK /\ WorkerTypeOK /\ ClientTypeOK /\ LinkTypeOK /\ TaskTypeOK

QueueInit ==
  /\ qpc = "top" /\ todo = <<>> /\ remaining = <<>> /\ target = 1
  /\ chan = <<>> /\ qsig = FALSE
  /\ cpc = [c \in Clients |-> 0] /\ closed = FALSE

WorkerInit ==
  /\ wpc = [w \in Threads |-> "top"]
  /\ futures = [w \in Threads |-> <<>>]
  /\ polling = [w \in Threads |-> <<>>]
  /\ got = [w \in Threads |-> "Pending"]
  /\ parked = [w \in Threads |-> {}]
  /\ inbox = [w \in Threads |-> <<>>]
  /\ free = [w \in Threads |-> WorkersPerThread]
  /\ wsig = [w \in Threads |-> FALSE]
  /\ lost = [w \in Threads |-> 0]

(* MVSync::create_task and its variants make a state that is Pending and a *)
(* signal that is not set.                                                 *)
TaskInit ==
  /\ state = [t \in Tasks |-> "Pending"]
  /\ tsig = [t \in Tasks |-> FALSE]
  /\ sem = [s \in Semaphores |-> FALSE]
  /\ pref = Preferred /\ notOn = NotOn
  /\ pends = Pends /\ begun = {} /\ done = {}

Init == QueueInit /\ WorkerInit /\ TaskInit

-----------------------------------------------------------------------------
(* Task::state: that of the predecessor, or one that is Ready.             *)
PredState(t) == IF Pred[t] = NoTask THEN "Ready" ELSE state[Pred[t]]

(* Mutant of CanExecute: the semaphores are not asked.                     *)
CanExecuteUnsignalled(t) == PredState(t) # "Pending"

(* Task::can_execute; Semaphore::ready.                                    *)
CanExecute(t) == (\A s \in WaitOn[t] : sem[s]) /\ PredState(t) # "Pending"

(* Task::is_cancelled                                                      *)
IsCancelled(t) == "Cancelled" \in {PredState(t), state[t]}

(* Semaphore::signal for every semaphore the finished task was bound to.   *)
SignalSemaphores(t) ==
  /\ sem' = [s \in Semaphores |-> sem[s] \/ s \in Signals[t]]
  /\ done' = done \cup {t}

-----------------------------------------------------------------------------
(* Clients.  submit, submit_all, submit_on, submit_command_buffer(s): send *)
(* the tasks one after the other, then wake the queue thread.  Once the    *)
(* queue thread has panicked the channel has no receiver and send panics.  *)
Send(c) ==
  /\ cpc[c] < Len(Batch[c])
  /\ IF qpc = "dead"
     THEN /\ cpc' = [cpc EXCEPT ![c] = Len(Batch[c]) + 1]
          /\ UNCHANGED chan
     ELSE /\ chan' = Append(chan, Batch[c][cpc[c] + 1])
          /\ cpc' = [cpc EXCEPT ![c] = @ + 1]
  /\ UNCHANGED <<queueVars, workerVars, closed, inbox, free, qsig, wsig, tsig, taskVars>>

SendWake(c) ==
  /\ cpc[c] = Len(Batch[c])
  /\ qsig' = TRUE
  /\ cpc' = [cpc EXCEPT ![c] = @ + 1]
  /\ UNCHANGED <<queueVars, workerVars, closed, chan, inbox, free, wsig, tsig, taskVars>>

(* The last Arc<Queue> is dropped, and with it the sender of the channel.  *)
DropQueue ==
  /\ ~closed /\ \A c \in Clients : cpc[c] > Len(Batch[c])
  /\ closed' = TRUE
  /\ UNCHANGED <<queueVars, workerVars, cpc, linkVars, taskVars>>

(* TaskHandle::cancel and TaskController::cancel, at any moment.           *)
Cancel(t) ==
  /\ state[t] # "Cancelled"
  /\ state' = [state EXCEPT ![t] = "Cancelled"]
  /\ UNCHANGED <<queueVars, workerVars, clientVars, linkVars, sem, done>>

(* Fence::wait, TaskController::wait, TaskHandle::wait: all of them wait   *)
(* on the signal of the task, and consume it.                              *)
WaitForTask(t) ==
  /\ tsig[t]
  /\ tsig' = [tsig EXCEPT ![t] = FALSE]
  /\ UNCHANGED <<queueVars, workerVars, clientVars, chan, inbox, free, qsig, wsig, taskVars>>

-----------------------------------------------------------------------------
(* The queue thread: the top of the loop of Queue::run.                    *)
Receive ==
  /\ qpc = "top" /\ todo = <<>> /\ chan # <<>>
  /\ todo' = <<Head(chan)>>
  /\ chan' = Tail(chan)
  /\ qpc' = "next"
  /\ UNCHANGED <<remaining, target, pref, notOn, workerVars, clientVars, inbox, free,
                 qsig, wsig, tsig, taskVars>>

(* recv fails once the channel is disconnected and drained; the worker     *)
(* threads' senders are dropped with `threads`.                            *)
Shutdown ==
  /\ qpc = "top" /\ todo = <<>> /\ chan = <<>> /\ closed
  /\ qpc' = "ended"
  /\ UNCHANGED <<todo, remaining, target, pref, notOn, workerVars, clientVars, linkVars, taskVars>>

Drain ==
  /\ qpc = "top" /\ todo # <<>>
  /\ todo' = todo \o chan
  /\ chan' = <<>>
  /\ qpc' = "next"
  /\ UNCHANGED <<remaining, target, pref, notOn, workerVars, clientVars, inbox, free,
                 qsig, wsig, tsig, taskVars>>

(* remaining_tasks.push(task), and on to the next task.                    *)
KeepHead ==
  /\ remaining' = Append(remaining, Head(todo))
  /\ todo' = Tail(todo)
  /\ qpc' = "next"

Examine ==
  /\ qpc = "next" /\ todo # <<>>
  /\ IF CanExecute(Head(todo))
     THEN qpc' = "panicked?" /\ UNCHANGED <<todo, remaining>>
     ELSE KeepHead
  /\ UNCHANGED <<target, pref, notOn, workerVars, clientVars, linkVars, taskVars>>

(* Task::is_panicked *)
CheckPanicked ==
  /\ qpc = "panicked?"
  /\ qpc' = IF PredState(Head(todo)) = "Panicked" THEN "panic" ELSE "cancelled?"
  /\ UNCHANGED <<todo, remaining, target, pref, notOn, workerVars, clientVars, linkVars, taskVars>>

(* Mutant of GetPanic: the panic is not passed on to the task.             *)
GetPanicOnly ==
  /\ qpc = "panic"
  /\ qpc' = IF PredState(Head(todo)) = "Panicked" THEN "notify" ELSE "dead"
  /\ UNCHANGED <<todo, remaining, target, pref, notOn, workerVars, clientVars, linkVars, taskVars>>

(* Task::get_panic reads the state of the predecessor a second time, and   *)
(* panics, in the queue thread, when it is not Panicked any more.          *)
GetPanic ==
  /\ qpc = "panic"
  /\ IF PredState(Head(todo)) = "Panicked"
     THEN /\ state' = [state EXCEPT ![Head(todo)] = "Panicked"]
          /\ qpc' = "notify"
     ELSE qpc' = "dead" /\ UNCHANGED state
  /\ UNCHANGED <<todo, remaining, target, pref, notOn, workerVars, clientVars, linkVars, sem, done>>

CheckCancelled ==
  /\ qpc = "cancelled?"
  /\ IF IsCancelled(Head(todo))
     THEN /\ state' = [state EXCEPT ![Head(todo)] = "Cancelled"]
          /\ qpc' = "notify"
     ELSE qpc' = "select" /\ UNCHANGED state
  /\ UNCHANGED <<todo, remaining, target, pref, notOn, workerVars, clientVars, linkVars, sem, done>>

(* The task is dropped unrun: its semaphores, its signal and the signal of *)
(* the queue are announced.  Only the queue thread looks at the first and  *)
(* the last of them.                                                       *)
Notify ==
  /\ qpc = "notify"
  /\ SignalSemaphores(Head(todo))
  /\ tsig' = [tsig EXCEPT ![Head(todo)] = TRUE]
  /\ qsig' = TRUE
  /\ todo' = Tail(todo)
  /\ qpc' = "next"
  /\ UNCHANGED <<remaining, target, pref, notOn, workerVars, clientVars, chan, inbox,
                 free, wsig, state>>

(* The worker threads a task may go to: the first with the preferred       *)
(* label, or the last of those with the most free workers among the ones   *)
(* whose label it does not exclude.                                        *)
Allowed(t) ==
  IF pref[t] # NoLabel
  THEN {w \in Threads : Label[w] = pref[t] /\ \A v \in 1 .. w - 1 : Label[v] # pref[t]}
  ELSE {w \in Threads : Label[w] = NoLabel \/ Label[w] \notin notOn[t]}

Best(S) == {w \in S : \A v \in S : free[v] < free[w] \/ (free[v] = free[w] /\ v <= w)}

(* Mutants of Select: both wishes are forgotten at once; a task without a  *)
(* thread is not kept.                                                     *)
SelectForgetful ==
  /\ qpc = "select"
  /\ LET t == Head(todo)
     IN  \/ /\ target' \in Best(Allowed(t))
            /\ qpc' = "dispatch"
            /\ UNCHANGED <<todo, remaining, pref, notOn>>
         \/ /\ Allowed(t) = {}
            /\ pref' = [pref EXCEPT ![t] = NoLabel]
            /\ notOn' = [notOn EXCEPT ![t] = {}]
            /\ KeepHead
            /\ UNCHANGED target
  /\ UNCHANGED <<workerVars, clientVars, linkVars, taskVars>>

SelectOrDrop ==
  /\ qpc = "select"
  /\ IF Allowed(Head(todo)) # {}
     THEN target' \in Best(Allowed(Head(todo))) /\ qpc' = "dispatch" /\ UNCHANGED todo
     ELSE todo' = Tail(todo) /\ qpc' = "next" /\ UNCHANGED target
  /\ UNCHANGED <<remaining, pref, notOn, workerVars, clientVars, linkVars, taskVars>>

(* No such thread: forget the wish and retry in a later pass.              *)
Select ==
  /\ qpc = "select"
  /\ LET t == Head(todo)
     IN  \/ /\ target' \in Best(Allowed(t))
            /\ qpc' = "dispatch"
            /\ UNCHANGED <<todo, remaining, pref, notOn>>
         \/ /\ Allowed(t) = {}
            /\ IF pref[t] # NoLabel
               THEN pref' = [pref EXCEPT ![t] = NoLabel] /\ UNCHANGED notOn
               ELSE notOn' = [notOn EXCEPT ![t] = {}] /\ UNCHANGED pref
            /\ KeepHead
            /\ UNCHANGED target
  /\ UNCHANGED <<workerVars, clientVars, linkVars, taskVars>>

(* Mutants of Dispatch: free_workers is not read again; the task is sent   *)
(* and kept.                                                               *)
DispatchUnchecked ==
  /\ qpc = "dispatch"
  /\ inbox' = [inbox EXCEPT ![target] = Append(@, Head(todo))]
  /\ todo' = Tail(todo)
  /\ qpc' = "debit"
  /\ UNCHANGED <<remaining, target, pref, notOn, workerVars, clientVars, chan, free, qsig, wsig, tsig, taskVars>>

DispatchAndKeep ==
  /\ qpc = "dispatch"
  /\ remaining' = Append(remaining, Head(todo))
  /\ todo' = Tail(todo)
  /\ IF free[target] > 0
     THEN inbox' = [inbox EXCEPT ![target] = Append(@, Head(todo))] /\ qpc' = "debit"
     ELSE qpc' = "next" /\ UNCHANGED inbox
  /\ UNCHANGED <<target, pref, notOn, workerVars, clientVars, chan, free, qsig, wsig, tsig, taskVars>>

(* WorkerThread::free_workers is read again; WorkerThread::send sends the  *)
(* task, then takes the worker, then wakes the thread.                     *)
Dispatch ==
  /\ qpc = "dispatch"
  /\ IF free[target] > 0
     THEN /\ inbox' = [inbox EXCEPT ![target] = Append(@, Head(todo))]
          /\ todo' = Tail(todo)
          /\ qpc' = "debit"
          /\ UNCHANGED remaining
     ELSE KeepHead /\ UNCHANGED inbox
  /\ UNCHANGED <<target, pref, notOn, workerVars, clientVars, chan, free, qsig, wsig, tsig, taskVars>>

Debit ==
  /\ qpc = "debit"
  /\ free' = [free EXCEPT ![target] = @ - 1]
  /\ qpc' = "poke"
  /\ UNCHANGED <<todo, remaining, target, pref, notOn, workerVars, clientVars, chan, inbox,
                 qsig, wsig, tsig, taskVars>>

Poke ==
  /\ qpc = "poke"
  /\ wsig' = [wsig EXCEPT ![target] = TRUE]
  /\ qpc' = "next"
  /\ UNCHANGED <<todo, remaining, target, pref, notOn, workerVars, clientVars, chan, inbox,
                 free, qsig, tsig, taskVars>>

PassEnds ==
  /\ qpc = "next" /\ todo = <<>>
  /\ todo' = remaining
  /\ remaining' = <<>>
  /\ qpc' = IF remaining = <<>> THEN "top" ELSE "wait"
  /\ UNCHANGED <<target, pref, notOn, workerVars, clientVars, linkVars, taskVars>>

QueueWaits ==
  /\ qpc = "wait" /\ qsig
  /\ qsig' = FALSE
  /\ qpc' = "top"
  /\ UNCHANGED <<todo, remaining, target, pref, notOn, workerVars, clientVars, chan, inbox,
                 free, wsig, tsig, taskVars>>

QueueStep == \/ Receive \/ Shutdown \/ Drain \/ Examine \/ CheckPanicked \/ GetPanic
             \/ CheckCancelled \/ Notify \/ Select \/ Dispatch \/ Debit \/ Poke
             \/ PassEnds \/ QueueWaits

-----------------------------------------------------------------------------
(* The worker threads: WorkerThread::run.  `polling` is what retain_mut    *)
(* has still to visit, `futures` what it has kept.                         *)
Current(w) == Head(polling[w])
Goto(w, pc) == wpc' = [wpc EXCEPT ![w] = pc]

(* recv, one task; or, with futures at hand, try_recv until it is empty.   *)
TakeTasks(w) ==
  /\ wpc[w] = "top" /\ futures[w] \o inbox[w] # <<>>
  /\ IF futures[w] = <<>>
     THEN /\ polling' = [polling EXCEPT ![w] = <<Head(inbox[w])>>]
          /\ inbox' = [inbox EXCEPT ![w] = Tail(@)]
     ELSE /\ polling' = [polling EXCEPT ![w] = futures[w] \o inbox[w]]
          /\ inbox' = [inbox EXCEPT ![w] = <<>>]
  /\ futures' = [futures EXCEPT ![w] = <<>>]
  /\ Goto(w, "poll")
  /\ UNCHANGED <<queueVars, got, parked, pends, begun, lost, clientVars, chan, free,
                 qsig, wsig, tsig, taskVars>>

(* Mutant of WorkerEnds: the tasks still in the channel are not taken.     *)
WorkerEndsEarly(w) ==
  /\ wpc[w] = "top" /\ futures[w] = <<>>
  /\ qpc \in {"ended", "dead"}
  /\ Goto(w, "ended")
  /\ UNCHANGED <<queueVars, futures, polling, got, parked, pends, begun, lost, clientVars,
                 linkVars, taskVars>>

(* recv fails when the queue thread is gone and the channel is empty.      *)
WorkerEnds(w) ==
  /\ wpc[w] = "top" /\ futures[w] = <<>> /\ inbox[w] = <<>>
  /\ qpc \in {"ended", "dead"}
  /\ Goto(w, "ended")
  /\ UNCHANGED <<queueVars, futures, polling, got, parked, pends, begun, lost, clientVars,
                 linkVars, taskVars>>

(* The first poll of a continuation blocks the worker thread until the     *)
(* signal of the predecessor can be consumed (TaskHandle::wait) ...        *)
NeedsResult(t) == Pred[t] # NoTask /\ t \notin begun

AtPoll(w) == wpc[w] = "poll" /\ polling[w] # <<>>

Join(w) ==
  /\ AtPoll(w) /\ NeedsResult(Current(w))
  /\ tsig[Pred[Current(w)]]
  /\ tsig' = [tsig EXCEPT ![Pred[Current(w)]] = FALSE]
  /\ Goto(w, "take")
  /\ UNCHANGED <<queueVars, futures, polling, got, parked, pends, begun, lost, clientVars,
                 chan, inbox, free, qsig, wsig, taskVars>>

(* The poll of the current task panicked (and was caught), or the task was *)
(* found cancelled: it goes without giving its worker back.                *)
LoseWorker(w) ==
  /\ lost' = [lost EXCEPT ![w] = @ + 1]
  /\ parked' = [parked EXCEPT ![w] = @ \ {Current(w)}]
  /\ Goto(w, "announce")

(* ... reads the state of the predecessor, panicking if it is Pending ...  *)
TakeResult(w) ==
  /\ wpc[w] = "take"
  /\ got' = [got EXCEPT ![w] = PredState(Current(w))]
  /\ IF PredState(Current(w)) = "Pending"
     THEN LoseWorker(w) /\ state' = [state EXCEPT ![Current(w)] = "Panicked"]
     ELSE Goto(w, "match") /\ UNCHANGED <<lost, parked, state>>
  /\ UNCHANGED <<queueVars, futures, polling, pends, begun, clientVars, linkVars, sem, done>>

(* ... and reads it once more to decide: call the function if both reads   *)
(* say Ready, pass on a failure, do nothing if only the second is Ready.   *)
MatchResult(w) ==
  /\ wpc[w] = "match"
  /\ LET t == Current(w)
         p == PredState(t)
     IN  IF p = "Ready"
         THEN /\ IF got[w] = "Ready"
                 THEN begun' = begun \cup {t} /\ Goto(w, "poll")
                 ELSE Goto(w, "credit") /\ UNCHANGED begun
              /\ UNCHANGED state
         ELSE /\ state' = [state EXCEPT ![t] = IF p = "Panicked" THEN p ELSE "Cancelled"]
              /\ Goto(w, "credit")
              /\ UNCHANGED begun
  /\ UNCHANGED <<queueVars, futures, polling, got, parked, pends, lost, clientVars, linkVars,
                 sem, done>>

(* A poll of the user's function; it is called by the first one.           *)
PollsBody(w) == /\ AtPoll(w) /\ ~NeedsResult(Current(w))
                /\ begun' = begun \cup {Current(w)}

(* Mutant of BodyReturns: the state is not set.                            *)
BodyReturnsSilently(w) ==
  /\ PollsBody(w) /\ Current(w) \notin parked[w]
  /\ Goto(w, "credit")
  /\ UNCHANGED <<queueVars, futures, polling, got, parked, pends, lost, clientVars, linkVars,
                 taskVars>>

BodyReturns(w) ==
  /\ PollsBody(w) /\ Current(w) \notin parked[w]
  /\ state' = [state EXCEPT ![Current(w)] = "Ready"]
  /\ Goto(w, "credit")
  /\ UNCHANGED <<queueVars, futures, polling, got, parked, pends, lost, clientVars, linkVars,
                 sem, done>>

(* catch_unwind returns Err.                                               *)
BodyPanics(w) ==
  /\ PollsBody(w) /\ Current(w) \in MayPanic \ parked[w]
  /\ state' = [state EXCEPT ![Current(w)] = "Panicked"]
  /\ LoseWorker(w)
  /\ UNCHANGED <<queueVars, futures, polling, got, pends, clientVars, linkVars, sem, done>>

(* The function awaits an event: a new one, or still the same one.         *)
Awaits(w, t) ==
  \/ t \in parked[w] /\ UNCHANGED pends
  \/ /\ t \notin parked[w] /\ pends[t] > 0
     /\ pends' = [pends EXCEPT ![t] = @ - 1]

(* The thread then looks whether the task was cancelled, and keeps the     *)
(* future if not.                                                          *)
BodyPends(w) ==
  /\ PollsBody(w) /\ Awaits(w, Current(w))
  /\ IF state[Current(w)] = "Cancelled"
     THEN LoseWorker(w) /\ UNCHANGED <<polling, futures>>
     ELSE /\ parked' = [parked EXCEPT ![w] = @ \cup {Current(w)}]
          /\ futures' = [futures EXCEPT ![w] = Append(@, Current(w))]
          /\ polling' = [polling EXCEPT ![w] = Tail(@)]
          /\ UNCHANGED <<lost, wpc>>
  /\ UNCHANGED <<queueVars, got, clientVars, linkVars, taskVars>>

(* Mutant of Credit: the fetch_add is missing.                             *)
CreditNothing(w) ==
  /\ wpc[w] = "credit"
  /\ Goto(w, "announce")
  /\ UNCHANGED <<queueVars, futures, polling, got, parked, pends, begun, lost, clientVars,
                 linkVars, taskVars>>

(* free_workers.fetch_add; then the semaphores; then the signal of the     *)
(* task; then that of the queue.                                           *)
Credit(w) ==
  /\ wpc[w] = "credit"
  /\ free' = [free EXCEPT ![w] = @ + 1]
  /\ Goto(w, "announce")
  /\ UNCHANGED <<queueVars, futures, polling, got, parked, pends, begun, lost, clientVars,
                 chan, inbox, qsig, wsig, tsig, taskVars>>

Announce(w) ==
  /\ wpc[w] = "announce"
  /\ SignalSemaphores(Current(w))
  /\ Goto(w, "wakeTask")
  /\ UNCHANGED <<queueVars, futures, polling, got, parked, pends, begun, lost, clientVars,
                 linkVars, state>>

(* Mutants of WakeTask and WakeQueue: the signal is not woken.             *)
WakeNoTask(w) ==
  /\ wpc[w] = "wakeTask"
  /\ Goto(w, "wakeQueue")
  /\ UNCHANGED <<queueVars, futures, polling, got, parked, pends, begun, lost, clientVars,
                 linkVars, taskVars>>

WakeNoQueue(w) ==
  /\ wpc[w] = "wakeQueue"
  /\ polling' = [polling EXCEPT ![w] = Tail(@)]
  /\ Goto(w, "poll")
  /\ UNCHANGED <<queueVars, futures, got, parked, pends, begun, lost, clientVars,
                 linkVars, taskVars>>

WakeTask(w) ==
  /\ wpc[w] = "wakeTask"
  /\ tsig' = [tsig EXCEPT ![Current(w)] = TRUE]
  /\ Goto(w, "wakeQueue")
  /\ UNCHANGED <<queueVars, futures, polling, got, parked, pends, begun, lost, clientVars,
                 chan, inbox, free, qsig, wsig, taskVars>>

WakeQueue(w) ==
  /\ wpc[w] = "wakeQueue"
  /\ qsig' = TRUE
  /\ polling' = [polling EXCEPT ![w] = Tail(@)]
  /\ Goto(w, "poll")
  /\ UNCHANGED <<queueVars, futures, got, parked, pends, begun, lost, clientVars,
                 chan, inbox, free, wsig, tsig, taskVars>>

(* receiver.is_empty is read before the thread waits on its signal.        *)
RoundEnds(w) ==
  /\ wpc[w] = "poll" /\ polling[w] = <<>>
  /\ Goto(w, IF futures[w] # <<>> /\ inbox[w] = <<>> THEN "park" ELSE "top")
  /\ UNCHANGED <<queueVars, futures, polling, got, parked, pends, begun, lost, clientVars,
                 linkVars, taskVars>>

Park(w) ==
  /\ wpc[w] = "park" /\ wsig[w]
  /\ wsig' = [wsig EXCEPT ![w] = FALSE]
  /\ Goto(w, "top")
  /\ UNCHANGED <<queueVars, futures, polling, got, parked, pends, begun, lost, clientVars,
                 chan, inbox, free, qsig, tsig, taskVars>>

WorkerStep(w) == \/ TakeTasks(w) \/ WorkerEnds(w) \/ Join(w) \/ TakeResult(w)
                 \/ MatchResult(w) \/ BodyReturns(w) \/ BodyPanics(w) \/ BodyPends(w)
                 \/ Credit(w) \/ Announce(w) \/ WakeTask(w) \/ WakeQueue(w)
                 \/ RoundEnds(w) \/ Park(w)

(* What a pending future awaits happens: its waker, that of the whole      *)
(* worker thread, is called.                                               *)
Waken(w, t) ==
  /\ t \in parked[w]
  /\ parked' = [parked EXCEPT ![w] = @ \ {t}]
  /\ wsig' = [wsig EXCEPT ![w] = TRUE]
  /\ UNCHANGED <<queueVars, wpc, futures, polling, got, pends, begun, lost, clientVars,
                 chan, inbox, free, qsig, tsig, taskVars>>

-----------------------------------------------------------------------------
(* All threads have ended.                                                 *)
Terminated ==
  /\ qpc = "ended" /\ \A w \in Threads : wpc[w] = "ended"
  /\ UNCHANGED vars

Next == \/ QueueStep
        \/ \E w \in Threads : WorkerStep(w)
        \/ \E w \in Threads, t \in Tasks : Waken(w, t)
        \/ \E c \in Clients : Send(c) \/ SendWake(c)
        \/ \E t \in MayCancel : Cancel(t)
        \/ \E t \in Watched : WaitForTask(t)
        \/ DropQueue
        \/ Terminated

(* The operating system runs every thread; awaited events happen; a client *)
(* finishes a submission it has begun.  Nobody has to cancel, wait or drop.*)
Fairness ==
  /\ WF_vars(QueueStep)
  /\ \A w \in Threads : WF_vars(WorkerStep(w))
  /\ \A w \in Threads, t \in Tasks : WF_vars(Waken(w, t))
  /\ \A c \in Clients : WF_vars(Send(c) \/ SendWake(c))

Spec     == Init /\ [][Next]_vars
FairSpec == Spec /\ Fairness
=============================================================================
