# A verification of MVSync

MVSync runs tasks (closures and futures) on worker threads, with dependencies
between tasks, and has its own small async runtime: a blocking primitive, a
timer, an executor. These modules model the concurrent core of the library as
it is in `src/src`, check it with TLC on small instances and prove the central
facts with TLAPS for instances of any size.

## 1. The system

| Component | State | Operations | Talks to |
|---|---|---|---|
| `Signal`, `SignalFuture`, `await_sync` (`block.rs`) | flag under a mutex, condition variable, list of wakers | `wait`, `wait_async`/`poll`, `wake`, `ready`, `drop` | every other component parks on one |
| `Queue` and its thread (`queue.rs`) | channel of submitted tasks, list of tasks not yet dispatched, signal | `submit*`, the loop of `Queue::run` | clients (channel, signal), worker threads (`WorkerThread::send`) |
| `WorkerThread` (`queue.rs`) | channel, `free_workers`, label, pending futures, signal, `end` flag | `send`, the loop `WorkerThread::run`, `end` | queue thread, wakers of pending futures |
| `Task`, `TaskHandle`, `TaskController` (`task.rs`) | own state, state of the predecessor, semaphores waited for and signalled, two signals, placement wishes | `can_execute`, `is_panicked`, `get_panic`, `is_cancelled`, `execute`; `cancel`, `wait` | shared between client, queue thread and worker thread through `Arc<RwLock<TaskState>>` |
| `Semaphore`, `Fence` (`sync.rs`) | a flag; the signal of the bound task | `signal`, `ready`; `bind`, `wait`, `wait_async` | tasks |
| Inline executor (`run.rs`) | the batch of tasks | `run`, `run_all` | replaces queue and worker threads if `thread_count` is 0 |
| Timer (`timer.rs`, `utils.rs`) | heap of entries under a mutex, condition variable | `Sleep::poll`, the timer thread | executors, through wakers |
| Main thread (`lib.rs`) | a `WorkerThread` run by the calling thread, `end` flag | `register_main_thread`, `submit_to_main_thread`, `end_main_thread` | clients |
| Command buffers (`command_buffers/`) | chains of tasks, links, fences, a reference count | record, `link_chains`, `create_fence`, `finish` | produce tasks and semaphores for the queue |
| `Clock` (`clock.rs`), `MVSyncSpecs`, facade (`lib.rs`) | last tick; configuration | `tick`, `wait` | timer |

What is hard, and what makes each part correct:

* **Signal**: a wake must not be lost between test and sleep, one wake lets one
  waiter through, and a future that registers its waker only once must not be
  forgotten.
* **Queue thread and worker threads**: `free_workers` is read twice, then a task
  is sent, then the counter is decremented, while the worker increments it; a
  finished task is made known in four separate steps that the pass of the queue
  thread may interleave with; two threads sleep on signals while others produce
  work. Correct means: dependencies hold, no thread is over-committed, nothing
  is lost or dispatched twice, nobody sleeps over work, a graceful shutdown
  drains, a panic reaches the continuations.
* **Task states**: read twice under separate locks by the queue thread and by
  continuations, while any controller may cancel.
* **Inline executor**: the same dependencies without a thread to wait for.
* **Timer**: peek, clock, pop and wait are four critical sections.
* **Main thread**: registering, submitting and ending are ordered by a lock that
  the loop of the main thread does not take. Correct means: one main thread at a
  time, nothing sent to it is lost or doubled until it drops its receiver, what the
  init function submits is run unless somebody ends the main thread, and the main
  thread returns when it is to end.
* **Command buffers**: used by one thread, but the chains, their links and
  fences come out of the order of the calls, and the copies share memory and a
  counter kept by hand. Correct means: tasks are baked in the order of
  recording, links and fences are barriers between chains, no deadlock among
  the baked tasks, no copy outlives the memory.

## 2. Modules

```
Event  <--- implemented by --- Signal    <- MCSignal, SignalProofs
TaskPool <- implemented by --- Scheduler <- SchedulerProperties <- MCScheduler,
                                              SchedulerProofs <- SchedulerResultProofs
                               InlineExecutor <- MCInline, InlineProofs
                               Timer          <- MCTimer, TimerProofs
                               MainThread     <- MCMainThread, MainThreadProofs
                               CommandBuffer  <- MCCommandBuffer, CommandBufferProofs
ListLemmas: used by all proof modules but those of Signal and Timer
```

* **`Signal`** has one step per critical section of the mutex `ready`. `bpc[b]`
  is where a thread is in `Signal::wait`, `fpc[f]` where a `SignalFuture` and
  the executor that polls it are; `woken[f]` stands for the signal of that
  executor. `Wake`, `Consume`/`Sleep`, `PollReady`/`PollPending` are the bodies
  of `wake`, `wait` and `poll`. `Spurious` is what a condition variable may do.
* **`Event`** is what the rest of the library relies on: an auto-reset event.
  Every other module has a boolean per `Signal`: `wake` sets it, `wait` blocks
  until it can reset it.
* **`Scheduler`** is the queue thread (`qpc`), the worker threads (`wpc[w]`),
  the clients (`cpc[c]`) and what they share. Each step accesses shared state
  once: the fine steps of `Queue::run` are `Examine`, `CheckPanicked`,
  `GetPanic`, `CheckCancelled`, `Select`, `Dispatch`, `Debit`, `Poke`, `Notify`;
  those of `WorkerThread::run` are `TakeTasks`, `Join`, `TakeResult`,
  `MatchResult`, the three outcomes of a poll, `Credit`, `Announce`,
  `WakeTask`, `WakeQueue`, `RoundEnds`, `Park`. `tasks` of the code is `todo`,
  the vector of futures is `polling` (still to visit in this round) and
  `futures` (kept). `done`, `begun` and `lost` are history: the tasks announced,
  the functions called, the workers never given back. The graph of tasks, their
  wishes, how often they pend and which may panic or be cancelled are constants.
* **`TaskPool`** is the documentation of `Queue` as a specification: a task is
  taken once, not before its semaphores are signalled, never by more workers
  than there are, and a continuation is called only after its predecessor. A task
  gives its worker back (`Leave`) before it is announced (`Announce`), as
  `WorkerThread::run` increments `free_workers` before it signals anything: in
  between the queue thread may fill the worker, so a pool that did both at once
  would for a moment run more tasks than it has workers.
* **`SchedulerProperties`** states the properties and the refinement mapping.
* **`InlineExecutor`** is `run.rs` with several submitting threads. Tasks are
  shared through states, semaphores and signals as above. Panics are not caught
  here, so a state can only be `Panicked` if the predecessor is a task of
  another `MVSync` instance: those are the tasks `Elsewhere`.
* **`Timer`** represents an instant by the time left until it, so no clock
  bound is needed; a duration, unlike an instant, does not shrink when time
  passes, which is what a late `wait_timeout` depends on.

* **`MainThread`** is `WorkerThread::run` with its end flag and `end_when_done`,
  run by whoever calls `register_main_thread`. A call `r` has a place `rpc[r]`,
  a channel, a signal and futures of its own; `worker` is the `WorkerThread` in
  `MVSync::worker`. Submitters (`CheckEnded`, `Send`, `WakeMain`) and enders
  (`CheckRunning`, `StoreEnd`) hold the lock on `worker` between their steps
  (`Reading`, `Writing`); the loop (`Top`, `CheckEmpty`, `Recv`, `Drain`, the
  outcomes of a poll, `RoundEnds`, `Park`, `StoreFinished`, `DropReceiver`) does
  not. Unlike in `Scheduler`, where it is split, finishing a task is one step
  here; a task whose predecessor is one of the queue's worker threads continues
  a task of the set `Elsewhere`. `Pred` in the guard `Polls` is the blocking
  wait in a continuation, which nobody has checked with `can_execute`.
* **`CommandBuffer`** has the operations of the user as actions: `AddCommand`
  begins a chain, `Chain` (as `Total` or `Fallible`: the ready-made commands of
  `commands.rs`) continues one, `Response`, `LinkChains`, `CreateFence`,
  `Clone`, `DropCopy`, `DropCommand`, `Finish`, `Submit`, and `Misuse`, the
  calls that panic. `Finish` translates chains, links and fences to what the
  tasks wait for (`waits`) and what the fences are bound to (`bound`); `Begin`,
  `Halt` and `Completes` execute that as a queue does that respects
  dependencies, in any order. `origin` remembers the chain the user means: that
  of the predecessors, which is not always the one the task is in.

The definitions called mutants in these modules are erroneous variants that
show that each checked property can fail: they are no part of the specifications.

## 3. Runs

| Run | States | Checks |
|---|---|---|
| `signal` | 18 139 | 2 blocking threads, 2 futures, 3 wakes: no missed or shared wake, one registration suffices until a thread resets the flag, refinement of `Event`, liveness |
| `sched_dependencies` | 31 366 | 3 tasks (semaphore, continuation, pending), 2 clients, 2 threads with 1 worker, shutdown, a fence waiter: dependencies, no missed dispatch, books, drain, every task finishes, refinement of `TaskPool` |
| `sched_failures` | 9 460 | panic with a continuation, a pending task that is cancelled, 2 labels and wishes (one cannot be met): capacity, placement, settled results, propagation, finality, every task finishes |
| `timer_heap` | 147 378 | 3 sleepers of different durations: nobody early, nobody forgotten, and nobody waits for ever unless the timer thread sleeps over its heap |
| `inline` | 20 071 | 2 submitters that depend on each other, cancels, a task elsewhere, a panic: dependencies, order, propagation, no continuation waits for a predecessor that nobody is announcing, everything in `run_all` finishes |
| `main_thread` | 73 332 | 2 calls of `register_main_thread`, one with `end_when_done` and an init function that submits 2 tasks (one pends and may be cancelled, one may panic), another submitter whose task continues a task of the queue, an ender: one main thread at a time that leaves no task half done, tasks are held exactly once until the receiver is dropped, the tasks of the init function run unless the main thread is ended, the main thread returns |
| `command_buffer` | 580 320 | 3 commands in any order, of which 1 may panic, 2 copies, 2 links, 1 fence, indices of existing and missing chains, misuse: no dangling copy, baked in order, links and fences are barriers, controllers of a chain, everything finishes |

The bounds: two of a kind are enough for each race, which is between two parties
(two waiters for one wake, client and worker for the queue's signal, two tasks
for one worker); three tasks give a chain, a fan-out and a bystander at once; a
third sleeper makes the heap's order matter. `MaxWakes` = 3 lets a flag be set,
consumed, and set again twice. A task pends at most once: a second time repeats the
same steps. Two calls of `register_main_thread` are one to be replaced and one to
replace it; its ender and submitters may come before, between and after them.
Three commands are two chains of which one goes on after the other was begun, one
chain with a middle, or three chains in a row of links; two links make a cycle, a
chain of links, or two for the same chain; one fence may be created before or after
any of them. Deadlock is checked in the passing runs; `Terminated` marks the
states in which all threads have ended, or only a main thread that nobody ended is
left (in `Timer`, `Tick` is always possible). A command buffer may end undone: it
was dropped, a call panicked, or its links form a cycle. `signal` is finite because
wakes are bounded, and some waiter may then wait for ever: its run is the one
that would be expected to deadlock and does not, since `CallWait` or `OtherWake`
lead to cycles and `Spurious` is always possible for a sleeper.

The remaining runs show where the code does not do what it says (details are in
`PROJECT.json`, "findings"):

| Run | What happens |
|---|---|
| `signal_async_lost` | a blocking waiter resets the flag before a woken future is polled; the future does not register again and misses the next wake |
| `sched_leaked_worker` | a panicked task keeps its worker |
| `sched_cancelled_panic` | a cancel between two reads panics the queue thread |
| `timer_lost_notify` | a notification between the timer's peek and its wait is lost |
| `main_never_returns` | the end flag is stored while the main thread is in `recv`, and nothing wakes it |

The passing runs stay clear of these: predecessors that may panic are not cancelled,
a task that loses its worker has no other depending on that thread, `EndIsNoticed`
leaves out a main thread in `recv`. They also stay clear of the following
consequences of the code, which have no run of their own:

* A fence, a controller and a continuation of one task share its auto-reset
  signal, so one of them takes the wake from the others: a continuation then blocks
  its worker thread for ever (`Watched` in `sched_dependencies` is a task without
  one), although `sync.rs:38` recommends a fence for just that.
* A task with wishes that no thread meets is kept for a next pass (`Select`), which
  nobody announces if nothing else is in flight; in `sched_failures` another task's
  end does.
* Tasks of one `submit_all` may reach the workers in another order: one that finds
  no free worker is kept and overtaken.
* `run_all` sets `count` to 0 in every round (`RoundEnds`) and never returns, also
  when called for `submit_command_buffer`; so the property of `inline` is that the
  tasks finish, not that the call returns.
* In the inline executor, a cancel of a predecessor that stands behind its
  continuation in the same batch can make the submitter wait for itself
  (the exception in `JoinsAreShort`).
* `WorkerThread::end` may replace the 2 of a main thread that has just finished by a
  1: `ended` was read before, under a lock the loop does not take. From then on
  `finished` is false, and nobody can register as main thread again (`lib.rs:115`).
* What is in the channel of a main thread when it drops its receiver is lost without
  an announcement; whoever waits for it waits for ever. Such tasks need not be late:
  a main thread without futures reads the end flag before it looks at its channel
  (`queue.rs:294`), so tasks sent long before `end_main_thread` are lost as well, even
  the init task. Then a new main thread registers, although `lib.rs:110` says that
  "all the tasks on the previous main thread must have finished before a new one is
  registered". The shortest case in the model is `Register`, `CheckRunning` and
  `StoreEnd` (an ender calls before the loop has begun), `Top` (leaves, with the init
  task in the channel), `StoreFinished`, and `Register` of the other call. Tasks sent
  between the decision to leave and the drop are lost in the same way, also with
  `end_when_done`. So `OneMainThread` says of the tasks of a previous main thread only
  that those have finished whose function was called; `AcceptedIsHeld` says that
  nothing is lost before the drop, and `InitTasksRun` has the premise that nobody
  called `end_main_thread`. That `EndIsNoticed` holds does not mean that the main
  thread has done its tasks when it returns.
* `submit_to_main_thread` and the loop ignore the semaphores a task waits for (so
  `MainThread` has none; compare `sync.rs:6`), and a continuation blocks the main
  thread even if its predecessor is behind it in the same channel.
* A command chained after another chain was begun goes to the newer chain, so links
  and fences of the older one are bound too early and those of the newer one too late
  (`buffer.rs:260` and `buffer.rs:282` say "you can add more chains, or more commands to a
  chain"); `response()` of an older chain returns the controllers of the last one. The
  premise `Orderly` excludes the first, the last conjunct of the premise of
  `ResponseControlsItsChain` the second. `BakedInOrder` and `EverythingFinishes` hold
  of interleaved chains as well.
* Links that form a cycle, or that lead from a later chain to an earlier one it depends
  on, never finish: `EverythingFinishes` has the premise `Forward`.
* A chain halted by `unwrap` gives `Panicked`, not `None` (`commands.rs:61`).

### Fairness

Weak fairness of every thread's next step (the operating system runs threads
that can run), of awaited events, and of the progress of time. Clients finish a
call of `submit_all`, `submit_to_main_thread` or `end_main_thread` they have begun;
nobody has to submit, wait, cancel, register, end, record, drop
the queue or wake spuriously. In `CommandBuffer` the tasks of a submitted buffer are
executed fairly, which is what `sched_dependencies` shows of the queue. No strong fairness is assumed anywhere.

## 4. Proofs

All for any constants that satisfy the assumptions of the modules. Every safety
invariant and every action property that a passing run checks is stated by a
theorem, and so is the refinement of `TaskPool`; what is left to TLC is named at
the end. The named parts of each inductive invariant were checked with TLC on the
instances of section 3, or smaller ones, before they were proved.

* `SignalProofs`: `TypeCorrect` and `WakesAreNotShared` by the invariant
  `Counted` (types and "returns plus pending wake at most wakes": the bound on
  `returns` in the type invariant needs the second part). `NoMissedWake`
  is inductive with the types. `OneRegistrationSuffices` needs `Registered`: a
  future that has started and sees the flag down is in the list, and one that
  is parked while the flag is up is being woken. `SignalIsAnEvent` is the
  safety part of the refinement.
* `TimerProofs`: `OnlyDueEntriesArePopped` needs that what the timer thread saw
  is still in the heap when it pops (`SawEntry`, `SawDue`): only it removes
  entries, and entries added since are popped only if they are due earlier.
  `RegisteringOnceSuffices` needs `OutWhenDue`: an entry that has left the heap
  was due.
* `SchedulerProofs`, where the tasks are. `BooksBalance` proves `Books == TypeOK
  /\ Held /\ Conservation /\ Capacity`. That `free_workers` never underflows is
  part of `TypeOK` and follows only from the books: `Dispatch` sees a free worker,
  the queue thread is the only one to take workers, so the counter can only have
  grown when `Debit` decrements it. `Held` says what the program counters imply
  about the lists. `TasksInOnePlace` adds that the lists of all threads are
  disjoint and without repetition, and that only the task being woken is both
  announced and in a list. `ShutdownLosesNoTask` follows with `NothingLost` (no
  step drops a task) and `Leftovers` (what a thread that has ended leaves behind:
  nothing).
* `SchedulerResultProofs`, what becomes of them. `Results` is one inductive
  invariant for dependencies, states and panics: signals tell the truth
  (`SignalsAreTrue`), what was found out about a task before it was dispatched
  stays true (`ClearedTasks`), both reads of a predecessor's state agree but for a
  cancel (`JoinedTasks`), verdicts come in time and once (`Settled`, `SettledOnce`)
  and follow that of the predecessor (`Verdicts`). From it `DependenciesAreRespected`,
  `AnnouncedResultsAreSettled`, `PanicsArePassedOn`; `AnnouncementsAreFinal` already
  from `OnePlace`. `TasksArePlaced` needs `Wishes`: a wish is forgotten only if
  no thread meets it. `NoDispatchIsMissed` needs `NoneMissed`: as long as no wake is
  set or under way, each task put aside in this pass stays stuck, since whatever
  frees a worker or makes a task executable goes on to wake the queue thread.
  `TaskPoolIsImplemented` is the whole refinement, step by step: each step of the
  code is a step of the pool or a stutter. That the pool never runs more tasks than
  it has workers is a counting argument (`RoomInPool`): with a free worker somewhere
  the running tasks are the image of a proper subset of the seats.
* `InlineProofs`: `TypeCorrect`; `DependenciesAreRespected` from `Lists` (a task is
  in one list of one client, once) and `Dependencies`; `PanicsArePassedOn` from
  `States` (states are set when they are decided, and then only cancelled);
  `JoinsStayShort` from `Woken`: the signal of a finished task is set until its one
  continuation takes it; `SubmissionIsInOrder` from `InOrder`: the first round goes
  through the batch in order.
* `MainThreadProofs`: `MainThreadsTakeTurns` from `Registration`: the call `worker`
  names is the only one that may be in its loop, and `end` is 2 only when that is
  over; with `BegunStay`, what has begun is done when the loop is left.
  `AcceptedTasksAreHeld` from `Places`: a task is sent to one call, and in one
  of its lists until it is done or the receiver is dropped. `InitTasksAreRun` from `Drained`, with `Turns` (the
  init task submits one after the other, and does not return in between).
* `CommandBufferProofs`. `CopiesAreCounted` from `Counted`: the counter is the copies
  plus the open BufferedCommands. For the others `Recording` describes the chains as
  they grow (`Blocks`): one after the other they are the tasks in order, each begins
  with a task without predecessor, so the number of a task's chain is the number of
  such tasks up to it (`Heads`). `Baked` says that what is baked goes back to such
  chains, `Waited` that nothing begins before what it waits for is done.
  `TasksAreBakedInOrder` needs what `FlattenSeq` makes of these chains; it is defined
  by recursion, and the proof is that its equation has no other solution on a finite
  list (`BlocksFlattened`). `FencesAndLinksAreBarriers` goes along a chain backwards: its
  last task is done, therefore the one before it, and so on. `ResponsesControlTheirChain`
  needs `Owned`: the controllers of a chain are with it or were given away, and of the
  commands of a user's chain only the last is open.
* `ListLemmas` has what these proofs keep needing about lists: the elements of
  `Append`, `Tail` and `\o`, replacing an element, and induction along an interval.

What the proofs asked of the models:

* The refinement of `TaskPool` held in the small instance only, before `Leave` and
  `Announce` were two steps (see section 2).
* `NoMissedDispatch` does not speak of tasks whose wishes no thread meets
  (`Placeable`): forgetting a wish is no reason for another pass. In the instance
  such a task never met a sleeping queue thread.
* `SchedulerAssumption` says that no task excludes the label `NoLabel`: excluded
  threads are given by name (`Task::not_on`), and `NoLabel` is the absence of one.
* `InlineAssumption` says that a task is in one batch once and has one
  continuation: `submit` and the continuations take the task and the handle by value.
  `PanicsPropagate` of `InlineExecutor` leaves out tasks of another instance, which
  end as they like in this model.

Beyond the prover, and only model-checked: liveness under fairness
(`FuturesResolve`, `EveryTaskFinishes` of the queue and of the inline executor,
`SleepersWakeOrAsleep`, `EndIsNoticed`, `EverythingFinishes`, and the fairness part
of `ImplementsEvent`), and deadlock freedom, which is about ENABLED.

## 5. What is abstracted or left out

* Values that tasks return, panic payloads, ids, labels as strings.
* `Semaphore::signal` writes a plain `bool` through a shared reference while the
  queue thread reads it: a data race. It is modelled as an atomic store that is
  visible at once; a read that misses the store is the interleaving in which
  the read comes first, and the wake of the queue's signal, a mutex, orders the
  next read after it.
* `Signal::drop` wakes whoever is registered; but waiting borrows the signal, so
  it finds nobody. `Signal::ready`, `TaskHandle::is_done` are reads.
* Lock poisoning: no code panics while it holds one of the modelled locks,
  except `get_panic`, whose guard is gone by then.
* When the queue thread has panicked, what follows is that of the model's state
  "dead": submitting panics, worker threads finish what they have and end.
* In `MainThread`: `free_workers`, which nobody reads of a main thread, and the steps in
  which a finished task is announced; `main_thread_ended` and `main_thread_finished`,
  which only read.
* In `CommandBuffer`: failed allocations, `parent()` (documented as not to be called),
  and a caller that catches a panic of `finish` and goes on with the half-drained
  buffer: a panic ends the recording thread and drops what it recorded.

### Not modelled

* `Clock`: a rate limiter with one owner. Its methods take `&mut self` or only read,
  the one wait is `async_sleep`, which is module `Timer`, and it shares no state; what is
  left is a subtraction guarded by a comparison.
* The constructors and `MVSyncSpecs`: they give the constants their values.

## 6. Plan

1. Done: `Event`, `Signal`, `TaskPool`, `Scheduler`, `Timer`, `InlineExecutor`,
   `MainThread`, `CommandBuffer`.
2. Done: proofs of their safety and action properties and of the refinement of
   `TaskPool`.
3. Next: `InlineExecutor` as a `TaskPool` without bound (its continuations are called
   in the same order of events); that a task of a command buffer is executed at most
   once; the measure that decreases with every step of a submitted buffer, which is the
   part of `EverythingFinishes` that needs no fairness.
