--------------------------- MODULE SchedulerProofs ---------------------------
(* Theorems about Scheduler, for any number of threads, workers, clients   *)
(* and tasks: the books of the worker threads, then where the tasks are,   *)
(* and that a shutdown loses none.                                         *)
EXTENDS SchedulerProperties, ListLemmas, FiniteSetTheorems, TLAPS

(* A thread that works on a task holds it at the head of its list; between *)
(* two rounds a worker thread has nothing left to poll.                    *)
QueueHolds == {"panicked?", "panic", "cancelled?", "select", "dispatch", "notify"}
WorkerHolds == {"take", "match", "credit", "announce", "wakeTask", "wakeQueue"}

Held ==
  /\ qpc \in QueueHolds => todo # <<>>
  /\ \A w \in Threads : wpc[w] \in WorkerHolds => polling[w] # <<>>
  /\ \A w \in Threads : wpc[w] \in {"top", "park"} => polling[w] = <<>>

(* The inductive invariant: `free` stays in Nat because the books balance  *)
(* and because the thread has room for the task being sent.                *)
Books == TypeOK /\ Held /\ Conservation /\ Capacity

-----------------------------------------------------------------------------
(* What Append, Tail and \o do to lists of tasks.                          *)
LEMMA AppendTask ==
  ASSUME NEW s \in Seq(Tasks), NEW t \in Tasks
  PROVE  /\ Append(s, t) \in Seq(Tasks)
         /\ Len(Append(s, t)) = Len(s) + 1
         /\ Append(s, t) # <<>>
BY Append(s, t) \in Seq(Tasks), Len(Append(s, t)) = Len(s) + 1, Len(<<>>) = 0, Len(s) \in Nat

LEMMA TakeTask ==
  ASSUME NEW s \in Seq(Tasks), s # <<>>
  PROVE  /\ Head(s) \in Tasks
         /\ Tail(s) \in Seq(Tasks)
         /\ Len(Tail(s)) = Len(s) - 1
         /\ Len(s) \in Nat \ {0}
OBVIOUS

LEMMA JoinTasks ==
  ASSUME NEW s \in Seq(Tasks), NEW r \in Seq(Tasks)
  PROVE  /\ s \o r \in Seq(Tasks)
         /\ Len(s \o r) = Len(s) + Len(r)
         /\ s = <<>> => s \o r = r
OBVIOUS

LEMMA OneTask == ASSUME NEW t \in Tasks PROVE <<t>> \in Seq(Tasks)
OBVIOUS

LEMMA NoTasks == <<>> \in Seq(Tasks) /\ Len(<<>>) = 0
OBVIOUS

LEMMA LoadIsInteger ==
  TypeOK => /\ WorkersPerThread \in Nat
            /\ \A w \in Threads : Load(w) \in Int
BY SchedulerAssumption DEF TypeOK, WorkerTypeOK, LinkTypeOK, Load

LEMMA QueueActions == Books /\ QueueStep => Books'
<1> SUFFICES ASSUME TypeOK, Held, Conservation, Capacity, QueueStep PROVE Books'
  BY DEF Books
<1> USE DEF TypeOK, QueueTypeOK, WorkerTypeOK, ClientTypeOK, LinkTypeOK, TaskTypeOK,
        queueVars, workerVars, clientVars, linkVars, taskVars, QueueHolds, QueuePCs
<1>1. CASE Receive
  <2>1. TypeOK'
    BY <1>1, TakeTask, OneTask DEF Receive
  <2>2. Held'
    BY <1>1, TakeTask, OneTask DEF Receive, Held
  <2>3. Conservation' /\ Capacity'
    BY <1>1, TakeTask, OneTask DEF Receive, Conservation, Capacity, Load, Finishing
  <2> QED
    BY <2>1, <2>2, <2>3 DEF Books
<1>2. CASE Shutdown
  <2>1. TypeOK'
    BY <1>2 DEF Shutdown
  <2>2. Held'
    BY <1>2 DEF Shutdown, Held
  <2>3. Conservation' /\ Capacity'
    BY <1>2 DEF Shutdown, Conservation, Capacity, Load, Finishing
  <2> QED
    BY <2>1, <2>2, <2>3 DEF Books
<1>3. CASE Drain
  <2>1. TypeOK'
    BY <1>3, JoinTasks, NoTasks DEF Drain
  <2>2. Held'
    BY <1>3, JoinTasks, NoTasks DEF Drain, Held
  <2>3. Conservation' /\ Capacity'
    BY <1>3, JoinTasks, NoTasks DEF Drain, Conservation, Capacity, Load, Finishing
  <2> QED
    BY <2>1, <2>2, <2>3 DEF Books
<1>4. CASE Examine
  <2>1. TypeOK'
    BY <1>4, AppendTask, TakeTask DEF Examine, KeepHead
  <2>2. Held'
    BY <1>4, AppendTask, TakeTask DEF Examine, KeepHead, Held
  <2>3. Conservation' /\ Capacity'
    BY <1>4, AppendTask, TakeTask DEF Examine, KeepHead, Conservation, Capacity, Load, Finishing
  <2> QED
    BY <2>1, <2>2, <2>3 DEF Books
<1>5. CASE CheckPanicked
  <2>1. TypeOK'
    BY <1>5 DEF CheckPanicked
  <2>2. Held'
    BY <1>5 DEF CheckPanicked, Held
  <2>3. Conservation' /\ Capacity'
    BY <1>5 DEF CheckPanicked, Conservation, Capacity, Load, Finishing
  <2> QED
    BY <2>1, <2>2, <2>3 DEF Books
<1>6. CASE GetPanic
  <2>1. TypeOK'
    BY <1>6 DEF GetPanic, TaskStates
  <2>2. Held'
    BY <1>6 DEF GetPanic, TaskStates, Held
  <2>3. Conservation' /\ Capacity'
    BY <1>6 DEF GetPanic, TaskStates, Conservation, Capacity, Load, Finishing
  <2> QED
    BY <2>1, <2>2, <2>3 DEF Books
<1>7. CASE CheckCancelled
  <2>1. TypeOK'
    BY <1>7 DEF CheckCancelled, TaskStates
  <2>2. Held'
    BY <1>7 DEF CheckCancelled, TaskStates, Held
  <2>3. Conservation' /\ Capacity'
    BY <1>7 DEF CheckCancelled, TaskStates, Conservation, Capacity, Load, Finishing
  <2> QED
    BY <2>1, <2>2, <2>3 DEF Books
<1>8. CASE Notify
  <2>1. TypeOK'
    <3>1. qsig' \in BOOLEAN
      BY <1>8, Zenon DEF Notify
    <3>2. sem' \in [Semaphores -> BOOLEAN]
      BY <1>8, Zenon DEF Notify, SignalSemaphores
    <3> QED
      BY <1>8, <3>1, <3>2, TakeTask DEF Notify, SignalSemaphores, Held
  <2>2. Held'
    BY <1>8, TakeTask DEF Notify, SignalSemaphores, Held
  <2>3. Conservation' /\ Capacity'
    BY <1>8, TakeTask DEF Notify, SignalSemaphores, Conservation, Capacity, Load, Finishing
  <2> QED
    BY <2>1, <2>2, <2>3 DEF Books
<1>9. CASE Select
  <2>1. TypeOK'
    <3>1. todo # <<>>
      BY <1>9 DEF Select, Held
    <3>2. Best(Allowed(Head(todo))) \subseteq Threads
      BY DEF Best, Allowed
    <3> QED
      BY <1>9, <3>1, <3>2, AppendTask, TakeTask DEF Select, KeepHead
  <2>2. Held'
    BY <1>9, AppendTask, TakeTask DEF Select, KeepHead, Best, Held
  <2>3. Conservation' /\ Capacity'
    BY <1>9, AppendTask, TakeTask DEF Select, KeepHead, Best, Conservation, Capacity, Load, Finishing
  <2> QED
    BY <2>1, <2>2, <2>3 DEF Books
<1>10. CASE Dispatch
  <2>a. Head(todo) \in Tasks /\ Tail(todo) \in Seq(Tasks)
    BY <1>10, TakeTask DEF Dispatch, Held
  <2>b. /\ Append(inbox[target], Head(todo)) \in Seq(Tasks)
        /\ Len(Append(inbox[target], Head(todo))) = Len(inbox[target]) + 1
        /\ Append(remaining, Head(todo)) \in Seq(Tasks)
    BY <2>a, AppendTask
  <2>1. TypeOK'
    <3>1. inbox' \in [Threads -> Seq(Tasks)]
      BY <1>10, <2>b DEF Dispatch
    <3>2. todo' \in Seq(Tasks) /\ remaining' \in Seq(Tasks)
      BY <1>10, <2>a, <2>b DEF Dispatch, KeepHead
    <3> QED
      BY <1>10, <3>1, <3>2 DEF Dispatch, KeepHead
  <2>2. Held'
    BY <1>10, AppendTask, TakeTask DEF Dispatch, KeepHead, Held
  <2>3. Conservation' /\ Capacity'
    <3>1. CASE free[target] > 0
      <4>1. /\ UNCHANGED <<free, lost, target, futures, polling, wpc>>
            /\ qpc = "dispatch" /\ qpc' = "debit"
            /\ inbox' = [inbox EXCEPT ![target] = Append(inbox[target], Head(todo))]
        BY <1>10, <3>1 DEF Dispatch
      <4>2. ASSUME NEW w \in Threads
            PROVE  /\ free'[w] + Load(w)' + lost'[w]
                        = WorkersPerThread + (IF target = w THEN 1 ELSE 0)
                   /\ Load(w)' + lost'[w] <= WorkersPerThread
        <5>1. /\ free[w] \in Nat /\ lost[w] \in Nat /\ WorkersPerThread \in Nat
              /\ Load(w) \in Int
          BY LoadIsInteger
        <5>2. free[w] + Load(w) + lost[w] = WorkersPerThread
          BY <4>1, <5>1 DEF Conservation
        <5>3. CASE target = w
          <6>1. Load(w)' = Load(w) + 1
            BY <4>1, <5>3, <2>b DEF Load, Finishing
          <6> QED
            <7>1. free[w] > 0 /\ free'[w] = free[w] /\ lost'[w] = lost[w]
              BY <3>1, <4>1, <5>3
            <7> HIDE DEF TypeOK
            <7>2. free'[w] + Load(w)' + lost'[w] = WorkersPerThread + 1
              BY <5>1, <5>2, <6>1, <7>1
            <7>3. Load(w)' + lost'[w] <= WorkersPerThread
              BY <5>1, <5>2, <6>1, <7>1
            <7> QED
              BY <5>3, <7>2, <7>3
        <5>4. CASE target # w
          <6>1. Load(w)' = Load(w)
            BY <4>1, <5>4 DEF Load, Finishing
          <6> QED
            BY <4>1, <5>1, <5>2, <5>4, <6>1
        <5> QED
          BY <5>3, <5>4
      <4> QED
        BY <4>1, <4>2 DEF Conservation, Capacity
    <3>2. CASE ~ (free[target] > 0)
      BY <1>10, <3>2 DEF Dispatch, KeepHead, Conservation, Capacity, Load, Finishing
    <3> QED
      BY <3>1, <3>2
  <2> QED
    BY <2>1, <2>2, <2>3 DEF Books
<1>11. CASE Debit
  <2> free[target] > 0
    BY <1>11, LoadIsInteger DEF Debit, Conservation, Capacity
  <2>1. TypeOK'
    BY <1>11 DEF Debit
  <2>2. Held'
    BY <1>11 DEF Debit, Held
  <2>3. Conservation' /\ Capacity'
    <3>1. /\ qpc = "debit" /\ qpc' = "poke"
          /\ UNCHANGED <<lost, target, futures, polling, wpc, inbox>>
          /\ free' = [free EXCEPT ![target] = free[target] - 1]
      BY <1>11 DEF Debit
    <3>2. ASSUME NEW w \in Threads
          PROVE  /\ free'[w] + Load(w)' + lost'[w] = WorkersPerThread
                 /\ Load(w)' + lost'[w] <= WorkersPerThread
      <4>1. /\ free[w] \in Nat /\ lost[w] \in Nat /\ WorkersPerThread \in Nat
            /\ Load(w) \in Int
        BY LoadIsInteger
      <4>2. /\ free[w] + Load(w) + lost[w] = WorkersPerThread + (IF target = w THEN 1 ELSE 0)
            /\ Load(w) + lost[w] <= WorkersPerThread
        BY <3>1 DEF Conservation, Capacity
      <4>3. Load(w)' = Load(w)
        BY <3>1 DEF Load, Finishing
      <4>4. CASE target = w
        <5>1. free'[w] = free[w] - 1 /\ lost'[w] = lost[w]
          BY <3>1, <4>4
        <5>2. free[w] + Load(w) + lost[w] = WorkersPerThread + 1
          BY <4>2, <4>4
        <5> HIDE DEF TypeOK
        <5> QED
          BY <4>1, <4>2, <4>3, <5>1, <5>2
      <4>5. CASE target # w
        BY <3>1, <4>1, <4>2, <4>3, <4>5
      <4> QED
        BY <4>4, <4>5
    <3> QED
      <4>1. WorkersPerThread \in Nat
        BY LoadIsInteger
      <4> QED
        BY <3>1, <3>2, <4>1 DEF Conservation, Capacity
  <2> QED
    BY <2>1, <2>2, <2>3 DEF Books
<1>12. CASE Poke
  <2>1. TypeOK'
    BY <1>12 DEF Poke
  <2>2. Held'
    BY <1>12 DEF Poke, Held
  <2>3. Conservation' /\ Capacity'
    BY <1>12 DEF Poke, Conservation, Capacity, Load, Finishing
  <2> QED
    BY <2>1, <2>2, <2>3 DEF Books
<1>13. CASE PassEnds
  <2>1. TypeOK'
    BY <1>13, NoTasks DEF PassEnds
  <2>2. Held'
    BY <1>13, NoTasks DEF PassEnds, Held
  <2>3. Conservation' /\ Capacity'
    BY <1>13, NoTasks DEF PassEnds, Conservation, Capacity, Load, Finishing
  <2> QED
    BY <2>1, <2>2, <2>3 DEF Books
<1>14. CASE QueueWaits
  <2>1. TypeOK'
    BY <1>14 DEF QueueWaits
  <2>2. Held'
    BY <1>14 DEF QueueWaits, Held
  <2>3. Conservation' /\ Capacity'
    BY <1>14 DEF QueueWaits, Conservation, Capacity, Load, Finishing
  <2> QED
    BY <2>1, <2>2, <2>3 DEF Books
<1> QED
  BY <1>1, <1>2, <1>3, <1>4, <1>5, <1>6, <1>7, <1>8, <1>9, <1>10, <1>11, <1>12, <1>13, <1>14 DEF QueueStep

(* What a step of worker thread w has to preserve of the books.            *)
LEMMA OneThread ==
  ASSUME TypeOK, Conservation, Capacity,
         NEW w \in Threads,
         UNCHANGED <<qpc, target>>,
         \A v \in Threads \ {w} :
           Load(v)' = Load(v) /\ free'[v] = free[v] /\ lost'[v] = lost[v],
         free'[w] + Load(w)' + lost'[w] = free[w] + Load(w) + lost[w],
         Load(w)' + lost'[w] <= Load(w) + lost[w],
         Load(w)' \in Int, lost'[w] \in Int
  PROVE  Conservation' /\ Capacity'
<1>1. WorkersPerThread \in Nat /\ \A v \in Threads : Load(v) \in Int
  BY LoadIsInteger
<1>2. \A v \in Threads : lost[v] \in Nat
  BY DEF TypeOK, WorkerTypeOK
<1>3. Conservation'
  BY DEF Conservation
<1>4. ASSUME NEW v \in Threads PROVE Load(v)' + lost'[v] <= WorkersPerThread
  <2>1. Load(v) + lost[v] <= WorkersPerThread
    BY DEF Capacity
  <2>2. CASE v = w
    BY <1>1, <1>2, <2>1, <2>2
  <2>3. CASE v # w
    BY <2>1, <2>3
  <2> QED
    BY <2>2, <2>3
<1> QED
  BY <1>3, <1>4 DEF Capacity

(* A worker thread that works on a task holds it.                          *)
LEMMA CurrentTask ==
  ASSUME TypeOK, Held, NEW w \in Threads, wpc[w] \in WorkerHolds \/ AtPoll(w)
  PROVE  /\ Current(w) \in Tasks
         /\ Tail(polling[w]) \in Seq(Tasks)
         /\ Len(polling[w]) \in Nat \ {0}
         /\ Len(Tail(polling[w])) = Len(polling[w]) - 1
<1>1. polling[w] \in Seq(Tasks) /\ polling[w] # <<>>
  BY DEF TypeOK, WorkerTypeOK, Held, AtPoll
<1> QED
  BY <1>1, TakeTask DEF Current

(* The state of a predecessor is the state of a task.                      *)
LEMMA PredStateType ==
  ASSUME TypeOK, NEW t \in Tasks PROVE PredState(t) \in TaskStates
BY SchedulerAssumption DEF TypeOK, TaskTypeOK, PredState, TaskStates

(* Losing a worker moves it from the load of the thread to its losses.     *)
LEMMA LoseWorkerBalances ==
  ASSUME TypeOK, NEW w \in Threads, wpc[w] \in {"poll", "take"}, LoseWorker(w),
         UNCHANGED <<inbox, futures, polling>>
  PROVE  /\ Load(w)' = Load(w) - 1 /\ lost'[w] = lost[w] + 1 /\ lost'[w] \in Nat
         /\ Load(w)' \in Int
         /\ lost' \in [Threads -> Nat]
         /\ parked' \in [Threads -> SUBSET Tasks]
         /\ wpc' = [wpc EXCEPT ![w] = "announce"]
         /\ \A v \in Threads \ {w} : Load(v)' = Load(v) /\ lost'[v] = lost[v]
<1>1. /\ wpc' = [wpc EXCEPT ![w] = "announce"] /\ lost' = [lost EXCEPT ![w] = @ + 1]
      /\ parked' = [parked EXCEPT ![w] = @ \ {Current(w)}]
  BY DEF LoseWorker, Goto
<1>2. wpc \in [Threads -> WorkerPCs] /\ lost \in [Threads -> Nat]
  BY DEF TypeOK, WorkerTypeOK
<1>3. ~ Finishing(w) /\ Finishing(w)'
  BY <1>1, <1>2 DEF Finishing
<1>4. \A v \in Threads \ {w} : Finishing(v)' = Finishing(v)
  BY <1>1, <1>2 DEF Finishing
<1>5. Load(w)' = Load(w) - 1 /\ Load(w)' \in Int
  BY <1>3 DEF Load, TypeOK, WorkerTypeOK, LinkTypeOK
<1>6. \A v \in Threads \ {w} : Load(v)' = Load(v)
  BY <1>4 DEF Load
<1>7. parked' \in [Threads -> SUBSET Tasks]
  BY <1>1 DEF TypeOK, WorkerTypeOK
<1> QED
  BY <1>1, <1>2, <1>5, <1>6, <1>7

LEMMA WorkerActions ==
  ASSUME Books, NEW w \in Threads, WorkerStep(w)
  PROVE  Books'
<1> TypeOK /\ Held /\ Conservation /\ Capacity
  BY DEF Books
<1> USE DEF TypeOK, QueueTypeOK, WorkerTypeOK, ClientTypeOK, LinkTypeOK, TaskTypeOK,
        queueVars, workerVars, clientVars, linkVars, taskVars, WorkerHolds, WorkerPCs,
        TaskStates, Goto
<1>1. CASE TakeTasks(w)
  <2>1. futures[w] \in Seq(Tasks) /\ inbox[w] \in Seq(Tasks) /\ polling[w] \in Seq(Tasks)
    OBVIOUS
  <2>2. polling[w] = <<>> /\ wpc[w] = "top" /\ wpc'[w] = "poll"
    BY <1>1 DEF TakeTasks, Held
  <2>3. /\ inbox'[w] \in Seq(Tasks) /\ futures'[w] = <<>> /\ polling'[w] \in Seq(Tasks)
        /\ Len(inbox'[w]) + Len(polling'[w]) = Len(inbox[w]) + Len(futures[w])
    <3>1. CASE futures[w] = <<>>
      <4>1. inbox[w] # <<>>
        BY <1>1, <2>1, <3>1, JoinTasks DEF TakeTasks
      <4>2. /\ inbox'[w] = Tail(inbox[w]) /\ polling'[w] = <<Head(inbox[w])>>
            /\ futures'[w] = <<>>
        BY <1>1, <3>1 DEF TakeTasks
      <4> QED
        BY <2>1, <3>1, <4>1, <4>2, TakeTask, OneTask, NoTasks
    <3>2. CASE futures[w] # <<>>
      <4>1. /\ inbox'[w] = <<>> /\ polling'[w] = futures[w] \o inbox[w]
            /\ futures'[w] = <<>>
        BY <1>1, <3>2 DEF TakeTasks
      <4> QED
        BY <2>1, <4>1, JoinTasks, NoTasks
    <3> QED
      BY <3>1, <3>2
  <2>4. /\ inbox' = [inbox EXCEPT ![w] = inbox'[w]]
        /\ polling' = [polling EXCEPT ![w] = polling'[w]]
        /\ futures' = [futures EXCEPT ![w] = futures'[w]]
    BY <1>1 DEF TakeTasks
  <2>5. TypeOK'
    BY <1>1, <2>3, <2>4, NoTasks DEF TakeTasks
  <2>6. Held'
    BY <1>1 DEF TakeTasks, Held
  <2>7. UNCHANGED <<qpc, target>> /\ \A v \in Threads \ {w} :
          Load(v)' = Load(v) /\ free'[v] = free[v] /\ lost'[v] = lost[v]
    BY <1>1 DEF TakeTasks, Load, Finishing
  <2>8. /\ free'[w] + Load(w)' + lost'[w] = free[w] + Load(w) + lost[w]
        /\ Load(w)' + lost'[w] <= Load(w) + lost[w]
        /\ Load(w)' \in Int /\ lost'[w] \in Int
    <3>1. Load(w)' = Load(w) /\ Load(w) \in Int
      <4>1. ~ Finishing(w) /\ ~ Finishing(w)'
        BY <2>2 DEF Finishing
      <4>2. /\ Load(w) = Len(inbox[w]) + Len(futures[w])
            /\ Load(w)' = Len(inbox'[w]) + Len(polling'[w])
        BY <2>1, <2>2, <2>3, <4>1, NoTasks DEF Load
      <4>3. /\ Len(inbox[w]) \in Nat /\ Len(futures[w]) \in Nat
            /\ Len(inbox'[w]) \in Nat /\ Len(polling'[w]) \in Nat
        BY <2>1, <2>3
      <4>4. Load(w) \in Int
        BY LoadIsInteger
      <4> HIDE DEF TypeOK
      <4>5. Load(w)' = Load(w)
        BY <2>3, <4>2
      <4> QED
        BY <4>4, <4>5
    <3>2. free'[w] = free[w] /\ lost'[w] = lost[w] /\ lost[w] \in Nat /\ free[w] \in Nat
      BY <1>1 DEF TakeTasks
    <3> QED
      BY <3>1, <3>2
  <2>9. Conservation' /\ Capacity'
    BY <2>7, <2>8, OneThread
  <2> QED
    BY <2>5, <2>6, <2>9 DEF Books
<1>2. CASE WorkerEnds(w)
  <2>1. TypeOK'
    BY <1>2 DEF WorkerEnds
  <2>2. Held'
    BY <1>2 DEF WorkerEnds, Held
  <2>3. Conservation' /\ Capacity'
    BY <1>2 DEF WorkerEnds, Conservation, Capacity, Load, Finishing
  <2> QED
    BY <2>1, <2>2, <2>3 DEF Books
<1>3. CASE Join(w)
  <2>a. /\ Current(w) \in Tasks /\ Tail(polling[w]) \in Seq(Tasks)
        /\ Len(polling[w]) \in Nat \ {0} /\ Len(Tail(polling[w])) = Len(polling[w]) - 1
    BY <1>3, CurrentTask DEF Join
  <2>1. TypeOK'
    BY <1>3, <2>a DEF Join, AtPoll
  <2>2. Held'
    BY <1>3, <2>a DEF Join, AtPoll, Held
  <2>3. Conservation' /\ Capacity'
    BY <1>3, <2>a DEF Join, AtPoll, Conservation, Capacity, Load, Finishing
  <2> QED
    BY <2>1, <2>2, <2>3 DEF Books
<1>4. CASE TakeResult(w)
  <2>a. /\ Current(w) \in Tasks /\ Tail(polling[w]) \in Seq(Tasks)
        /\ Len(polling[w]) \in Nat \ {0} /\ Len(Tail(polling[w])) = Len(polling[w]) - 1
    BY <1>4, CurrentTask DEF TakeResult
  <2>b. got' = [got EXCEPT ![w] = PredState(Current(w))] /\ PredState(Current(w)) \in TaskStates
    BY <1>4, <2>a, PredStateType DEF TakeResult
  <2>c. wpc[w] = "take" /\ UNCHANGED <<inbox, futures, polling, qpc, target, free>>
    BY <1>4 DEF TakeResult
  <2>1. CASE PredState(Current(w)) = "Pending"
    <3>1. LoseWorker(w) /\ state' = [state EXCEPT ![Current(w)] = "Panicked"]
      BY <1>4, <2>1 DEF TakeResult
    <3>a. /\ lost' \in [Threads -> Nat] /\ parked' \in [Threads -> SUBSET Tasks]
          /\ wpc' = [wpc EXCEPT ![w] = "announce"]
      BY <2>c, <3>1, LoseWorkerBalances
    <3>b. TypeOK'
      BY <1>4, <2>b, <3>1, <3>a DEF TakeResult
    <3>2. TypeOK' /\ Held'
      BY <1>4, <2>c, <3>a, <3>b DEF TakeResult, Held
    <3>3. Conservation' /\ Capacity'
      <4>1. free[w] \in Nat /\ lost[w] \in Nat /\ Load(w) \in Int
        BY LoadIsInteger
      <4>a. Load(w)' = Load(w) - 1 /\ lost'[w] = lost[w] + 1 /\ free'[w] = free[w]
        BY <2>c, <3>1, LoseWorkerBalances
      <4> HIDE DEF TypeOK
      <4>2. /\ free'[w] + Load(w)' + lost'[w] = free[w] + Load(w) + lost[w]
            /\ Load(w)' + lost'[w] <= Load(w) + lost[w]
        BY <4>1, <4>a
      <4> QED
        BY <2>c, <3>1, <4>2, LoseWorkerBalances, OneThread
    <3> QED
      BY <3>2, <3>3 DEF Books
  <2>2. CASE PredState(Current(w)) # "Pending"
    <3>1. wpc' = [wpc EXCEPT ![w] = "match"] /\ UNCHANGED <<lost, parked, state>>
      BY <1>4, <2>2 DEF TakeResult
    <3>2. TypeOK' /\ Held'
      BY <1>4, <2>b, <3>1 DEF TakeResult, Held
    <3>3. Conservation' /\ Capacity'
      BY <2>c, <3>1 DEF Conservation, Capacity, Load, Finishing
    <3> QED
      BY <3>2, <3>3 DEF Books
  <2> QED
    BY <2>1, <2>2
<1>5. CASE MatchResult(w)
  <2>a. /\ Current(w) \in Tasks /\ Tail(polling[w]) \in Seq(Tasks)
        /\ Len(polling[w]) \in Nat \ {0} /\ Len(Tail(polling[w])) = Len(polling[w]) - 1
    BY <1>5, CurrentTask DEF MatchResult, PredState
  <2>1. TypeOK'
    <3>1. CASE PredState(Current(w)) = "Ready"
      <4>1. /\ begun' \in {begun, begun \cup {Current(w)}} /\ UNCHANGED state
            /\ wpc' = [wpc EXCEPT ![w] = "poll"] \/ wpc' = [wpc EXCEPT ![w] = "credit"]
        BY <1>5, <3>1 DEF MatchResult
      <4>2. begun' \subseteq Tasks /\ wpc' \in [Threads -> WorkerPCs]
        BY <2>a, <4>1
      <4> QED
        BY <1>5, <4>1, <4>2 DEF MatchResult
    <3>2. CASE PredState(Current(w)) # "Ready"
      BY <1>5, <2>a, <3>2 DEF MatchResult
    <3> QED
      BY <3>1, <3>2
  <2>2. Held'
    BY <1>5, <2>a DEF MatchResult, PredState, Held
  <2>3. Conservation' /\ Capacity'
    BY <1>5, <2>a DEF MatchResult, PredState, Conservation, Capacity, Load, Finishing
  <2> QED
    BY <2>1, <2>2, <2>3 DEF Books
<1>6. CASE BodyReturns(w)
  <2>a. /\ Current(w) \in Tasks /\ Tail(polling[w]) \in Seq(Tasks)
        /\ Len(polling[w]) \in Nat \ {0} /\ Len(Tail(polling[w])) = Len(polling[w]) - 1
    BY <1>6, CurrentTask DEF BodyReturns, PollsBody
  <2>1. TypeOK'
    BY <1>6, <2>a DEF BodyReturns, PollsBody, AtPoll
  <2>2. Held'
    BY <1>6, <2>a DEF BodyReturns, PollsBody, AtPoll, Held
  <2>3. Conservation' /\ Capacity'
    BY <1>6, <2>a DEF BodyReturns, PollsBody, AtPoll, Conservation, Capacity, Load, Finishing
  <2> QED
    BY <2>1, <2>2, <2>3 DEF Books
<1>7. CASE BodyPanics(w)
  <2>a. /\ Current(w) \in Tasks /\ Tail(polling[w]) \in Seq(Tasks)
        /\ Len(polling[w]) \in Nat \ {0} /\ Len(Tail(polling[w])) = Len(polling[w]) - 1
    BY <1>7, CurrentTask DEF BodyPanics, PollsBody
  <2>b. /\ wpc[w] = "poll" /\ LoseWorker(w) /\ polling[w] # <<>>
        /\ UNCHANGED <<inbox, futures, polling, qpc, target, free>>
    BY <1>7 DEF BodyPanics, PollsBody, AtPoll
  <2>1. TypeOK' /\ Held'
    BY <1>7, <2>a, <2>b, LoseWorkerBalances DEF BodyPanics, PollsBody, Held
  <2>2. Conservation' /\ Capacity'
    <3>1. free[w] \in Nat /\ lost[w] \in Nat /\ Load(w) \in Int
      BY LoadIsInteger
    <3>a. Load(w)' = Load(w) - 1 /\ lost'[w] = lost[w] + 1 /\ free'[w] = free[w]
      BY <2>b, LoseWorkerBalances
    <3> HIDE DEF TypeOK
    <3>2. /\ free'[w] + Load(w)' + lost'[w] = free[w] + Load(w) + lost[w]
          /\ Load(w)' + lost'[w] <= Load(w) + lost[w]
      BY <3>1, <3>a
    <3> QED
      BY <2>b, <3>2, LoseWorkerBalances, OneThread
  <2> QED
    BY <2>1, <2>2 DEF Books
<1>8. CASE BodyPends(w)
  <2>a. /\ Current(w) \in Tasks /\ Tail(polling[w]) \in Seq(Tasks)
        /\ Len(polling[w]) \in Nat \ {0} /\ Len(Tail(polling[w])) = Len(polling[w]) - 1
    BY <1>8, CurrentTask DEF BodyPends, PollsBody
  <2>b. /\ wpc[w] = "poll" /\ polling[w] # <<>>
        /\ UNCHANGED <<inbox, qpc, target, free>>
    BY <1>8 DEF BodyPends, PollsBody, AtPoll
  <2>c. begun' \subseteq Tasks /\ pends' \in [Tasks -> Nat]
    <3>1. begun' = begun \cup {Current(w)}
      BY <1>8 DEF BodyPends, PollsBody
    <3>2. Awaits(w, Current(w))
      BY <1>8 DEF BodyPends
    <3>3. pends' \in [Tasks -> Nat]
      <4>1. CASE UNCHANGED pends
        BY <4>1
      <4>2. CASE /\ pends[Current(w)] > 0
                 /\ pends' = [pends EXCEPT ![Current(w)] = @ - 1]
        <5>1. pends[Current(w)] - 1 \in Nat
          BY <2>a, <4>2
        <5> QED
          BY <4>2, <5>1
      <4> QED
        BY <3>2, <4>1, <4>2 DEF Awaits
    <3> QED
      BY <2>a, <3>1, <3>3
  <2>1. CASE state[Current(w)] = "Cancelled"
    <3>1. LoseWorker(w) /\ UNCHANGED <<polling, futures>>
      BY <1>8, <2>1 DEF BodyPends
    <3>2. TypeOK' /\ Held'
      BY <1>8, <2>b, <2>c, <3>1, LoseWorkerBalances DEF BodyPends, Held
    <3>3. Conservation' /\ Capacity'
      <4>1. free[w] \in Nat /\ lost[w] \in Nat /\ Load(w) \in Int
        BY LoadIsInteger
      <4>a. Load(w)' = Load(w) - 1 /\ lost'[w] = lost[w] + 1 /\ free'[w] = free[w]
        BY <2>b, <3>1, LoseWorkerBalances
      <4> HIDE DEF TypeOK
      <4>2. /\ free'[w] + Load(w)' + lost'[w] = free[w] + Load(w) + lost[w]
            /\ Load(w)' + lost'[w] <= Load(w) + lost[w]
        BY <4>1, <4>a
      <4> QED
        BY <2>b, <3>1, <4>2, LoseWorkerBalances, OneThread
    <3> QED
      BY <3>2, <3>3 DEF Books
  <2>2. CASE state[Current(w)] # "Cancelled"
    <3>1. /\ parked' = [parked EXCEPT ![w] = @ \cup {Current(w)}]
          /\ futures' = [futures EXCEPT ![w] = Append(@, Current(w))]
          /\ polling' = [polling EXCEPT ![w] = Tail(@)]
          /\ UNCHANGED <<lost, wpc>>
      BY <1>8, <2>2 DEF BodyPends
    <3>2. /\ Append(futures[w], Current(w)) \in Seq(Tasks)
          /\ Len(Append(futures[w], Current(w))) = Len(futures[w]) + 1
      BY <2>a, AppendTask
    <3>3. TypeOK'
      <4>1. /\ parked' \in [Threads -> SUBSET Tasks] /\ futures' \in [Threads -> Seq(Tasks)]
            /\ polling' \in [Threads -> Seq(Tasks)]
        BY <2>a, <3>1, <3>2
      <4> QED
        BY <1>8, <2>c, <3>1, <4>1 DEF BodyPends
    <3>4. Held'
      BY <1>8, <2>b, <3>1 DEF BodyPends, Held
    <3>5. \A v \in Threads : Load(v)' = Load(v)
      <4>1. futures'[w] = Append(futures[w], Current(w)) /\ polling'[w] = Tail(polling[w])
        BY <3>1
      <4>2. Load(w)' = Load(w)
        BY <2>a, <2>b, <3>1, <3>2, <4>1 DEF Load, Finishing
      <4>3. \A v \in Threads \ {w} : Load(v)' = Load(v)
        BY <2>b, <3>1 DEF Load, Finishing
      <4> QED
        BY <4>2, <4>3
    <3>6. Conservation' /\ Capacity'
      BY <2>b, <3>1, <3>5 DEF Conservation, Capacity
    <3> QED
      BY <3>3, <3>4, <3>6 DEF Books
  <2> QED
    BY <2>1, <2>2
<1>9. CASE Credit(w)
  <2>a. Len(polling[w]) \in Nat \ {0}
    BY <1>9, CurrentTask DEF Credit
  <2>b. /\ wpc[w] = "credit" /\ wpc' = [wpc EXCEPT ![w] = "announce"]
        /\ free' = [free EXCEPT ![w] = free[w] + 1]
        /\ UNCHANGED <<inbox, futures, polling, qpc, target, lost>>
    BY <1>9 DEF Credit
  <2>1. TypeOK'
    <3>1. free' \in [Threads -> Nat]
      BY <2>b
    <3> QED
      BY <1>9, <3>1 DEF Credit
  <2>2. Held'
    BY <1>9, <2>b DEF Credit, Held
  <2>3. \A v \in Threads \ {w} : Load(v)' = Load(v) /\ free'[v] = free[v] /\ lost'[v] = lost[v]
    BY <2>b DEF Load, Finishing
  <2>4. free[w] \in Nat /\ lost[w] \in Nat /\ Load(w) \in Int
    BY LoadIsInteger
  <2>5. Load(w)' = Load(w) - 1
    <3>1. ~ Finishing(w) /\ Finishing(w)'
      BY <2>b DEF Finishing
    <3> QED
      BY <2>b, <3>1 DEF Load
  <2>6. Conservation' /\ Capacity'
    <3>1. free'[w] = free[w] + 1 /\ lost'[w] = lost[w]
      BY <2>b
    <3> HIDE DEF TypeOK
    <3>2. /\ free'[w] + Load(w)' + lost'[w] = free[w] + Load(w) + lost[w]
          /\ Load(w)' + lost'[w] <= Load(w) + lost[w]
          /\ Load(w)' \in Int /\ lost'[w] \in Int
      BY <2>4, <2>5, <3>1
    <3> QED
      BY <2>b, <2>3, <3>2, OneThread
  <2> QED
    BY <2>1, <2>2, <2>6 DEF Books
<1>10. CASE Announce(w)
  <2>a. /\ Current(w) \in Tasks /\ Tail(polling[w]) \in Seq(Tasks)
        /\ Len(polling[w]) \in Nat \ {0} /\ Len(Tail(polling[w])) = Len(polling[w]) - 1
    BY <1>10, CurrentTask DEF Announce, SignalSemaphores
  <2>1. TypeOK'
    BY <1>10, <2>a DEF Announce, SignalSemaphores
  <2>2. Held'
    BY <1>10, <2>a DEF Announce, SignalSemaphores, Held
  <2>3. Conservation' /\ Capacity'
    BY <1>10, <2>a DEF Announce, SignalSemaphores, Conservation, Capacity, Load, Finishing
  <2> QED
    BY <2>1, <2>2, <2>3 DEF Books
<1>11. CASE WakeTask(w)
  <2>a. /\ Current(w) \in Tasks /\ Tail(polling[w]) \in Seq(Tasks)
        /\ Len(polling[w]) \in Nat \ {0} /\ Len(Tail(polling[w])) = Len(polling[w]) - 1
    BY <1>11, CurrentTask DEF WakeTask
  <2>1. TypeOK'
    BY <1>11, <2>a DEF WakeTask
  <2>2. Held'
    BY <1>11, <2>a DEF WakeTask, Held
  <2>3. Conservation' /\ Capacity'
    BY <1>11, <2>a DEF WakeTask, Conservation, Capacity, Load, Finishing
  <2> QED
    BY <2>1, <2>2, <2>3 DEF Books
<1>12. CASE WakeQueue(w)
  <2>a. /\ Current(w) \in Tasks /\ Tail(polling[w]) \in Seq(Tasks)
        /\ Len(polling[w]) \in Nat \ {0} /\ Len(Tail(polling[w])) = Len(polling[w]) - 1
    BY <1>12, CurrentTask DEF WakeQueue
  <2>1. TypeOK'
    BY <1>12, <2>a DEF WakeQueue
  <2>2. Held'
    BY <1>12, <2>a DEF WakeQueue, Held
  <2>3. UNCHANGED <<qpc, target>> /\ \A v \in Threads \ {w} :
          Load(v)' = Load(v) /\ free'[v] = free[v] /\ lost'[v] = lost[v]
    BY <1>12 DEF WakeQueue, Load, Finishing
  <2>4. /\ free'[w] + Load(w)' + lost'[w] = free[w] + Load(w) + lost[w]
        /\ Load(w)' + lost'[w] <= Load(w) + lost[w]
        /\ Load(w)' \in Int /\ lost'[w] \in Int
    BY <1>12, <2>a DEF WakeQueue, Load, Finishing
  <2>5. Conservation' /\ Capacity'
    BY <2>3, <2>4, OneThread
  <2> QED
    BY <2>1, <2>2, <2>5 DEF Books
<1>13. CASE RoundEnds(w)
  <2>1. TypeOK'
    BY <1>13 DEF RoundEnds
  <2>2. Held'
    BY <1>13 DEF RoundEnds, Held
  <2>3. Conservation' /\ Capacity'
    BY <1>13 DEF RoundEnds, Conservation, Capacity, Load, Finishing
  <2> QED
    BY <2>1, <2>2, <2>3 DEF Books
<1>14. CASE Park(w)
  <2>1. TypeOK'
    BY <1>14 DEF Park
  <2>2. Held'
    BY <1>14 DEF Park, Held
  <2>3. Conservation' /\ Capacity'
    BY <1>14 DEF Park, Conservation, Capacity, Load, Finishing
  <2> QED
    BY <2>1, <2>2, <2>3 DEF Books
<1> QED
  BY <1>1, <1>2, <1>3, <1>4, <1>5, <1>6, <1>7, <1>8, <1>9, <1>10, <1>11, <1>12, <1>13, <1>14 DEF WorkerStep

(* Clients, cancellers, waiters and wakers.                                *)
OtherStep ==
  \/ \E w \in Threads, t \in Tasks : Waken(w, t)
  \/ \E c \in Clients : Send(c) \/ SendWake(c)
  \/ \E t \in MayCancel : Cancel(t)
  \/ \E t \in Watched : WaitForTask(t)
  \/ DropQueue
  \/ Terminated
  \/ UNCHANGED vars

LEMMA OtherActions ==
  ASSUME Books, OtherStep
  PROVE  Books'
<1> TypeOK /\ Held /\ Conservation /\ Capacity
  BY DEF Books
<1> USE DEF TypeOK, QueueTypeOK, WorkerTypeOK, ClientTypeOK, LinkTypeOK, TaskTypeOK,
        queueVars, workerVars, clientVars, linkVars, taskVars
<1>1. ASSUME NEW w \in Threads, NEW t \in Tasks, Waken(w, t) PROVE Books'
  <2>1. TypeOK' /\ Held'
    BY <1>1 DEF Waken, Held
  <2>2. Conservation' /\ Capacity'
    BY <1>1 DEF Waken, Conservation, Capacity, Load, Finishing
  <2> QED
    BY <2>1, <2>2 DEF Books
<1>2. ASSUME NEW c \in Clients, Send(c) PROVE Books'
  <2>1. Batch[c] \in Seq(Tasks) /\ cpc[c] \in Nat /\ cpc[c] < Len(Batch[c])
    BY <1>2, SchedulerAssumption DEF Send
  <2>a. Len(Batch[c]) \in Nat /\ cpc[c] + 1 \in Nat /\ Len(Batch[c]) + 1 \in Nat
    <3>1. Len(Batch[c]) \in Nat
      BY <2>1
    <3> HIDE DEF TypeOK
    <3> QED
      BY <2>1, <3>1
  <2>2. Append(chan, Batch[c][cpc[c] + 1]) \in Seq(Tasks) /\ Len(Batch[c]) \in Nat
    <3>1. Len(Batch[c]) \in Nat /\ cpc[c] + 1 \in 1 .. Len(Batch[c])
      <4> HIDE DEF TypeOK
      <4> QED
        BY <2>1, <2>a
    <3>2. Batch[c][cpc[c] + 1] \in Tasks
      BY <2>1, <3>1
    <3> QED
      BY <3>1, <3>2, AppendTask
  <2>3. chan' \in Seq(Tasks) /\ cpc' \in [Clients -> Nat]
    <3>1. chan' \in {chan, Append(chan, Batch[c][cpc[c] + 1])}
      BY <1>2 DEF Send
    <3>2. \/ cpc' = [cpc EXCEPT ![c] = Len(Batch[c]) + 1]
          \/ cpc' = [cpc EXCEPT ![c] = @ + 1]
      BY <1>2 DEF Send
    <3>3. cpc' \in [Clients -> Nat]
      <4>1. CASE cpc' = [cpc EXCEPT ![c] = Len(Batch[c]) + 1]
        BY <2>a, <4>1
      <4>2. CASE cpc' = [cpc EXCEPT ![c] = @ + 1]
        BY <2>a, <4>2
      <4> QED
        BY <3>2, <4>1, <4>2
    <3> QED
      BY <2>2, <3>1, <3>3
  <2>4. TypeOK' /\ Held'
    BY <1>2, <2>3 DEF Send, Held
  <2>5. Conservation' /\ Capacity'
    BY <1>2 DEF Send, Conservation, Capacity, Load, Finishing
  <2> QED
    BY <2>4, <2>5 DEF Books
<1>3. ASSUME NEW c \in Clients, SendWake(c) PROVE Books'
  <2>1. TypeOK' /\ Held'
    <3>1. qsig' \in BOOLEAN
      BY <1>3, Zenon DEF SendWake
    <3>2. cpc' \in [Clients -> Nat]
      BY <1>3 DEF SendWake
    <3> QED
      BY <1>3, <3>1, <3>2 DEF SendWake, Held
  <2>2. Conservation' /\ Capacity'
    BY <1>3 DEF SendWake, Conservation, Capacity, Load, Finishing
  <2> QED
    BY <2>1, <2>2 DEF Books
<1>4. ASSUME NEW t \in MayCancel, Cancel(t) PROVE Books'
  <2>1. TypeOK' /\ Held'
    BY <1>4, SchedulerAssumption DEF Cancel, Held, TaskStates
  <2>2. Conservation' /\ Capacity'
    BY <1>4 DEF Cancel, Conservation, Capacity, Load, Finishing
  <2> QED
    BY <2>1, <2>2 DEF Books
<1>5. ASSUME NEW t \in Watched, WaitForTask(t) PROVE Books'
  <2>1. TypeOK' /\ Held'
    BY <1>5, SchedulerAssumption DEF WaitForTask, Held
  <2>2. Conservation' /\ Capacity'
    BY <1>5 DEF WaitForTask, Conservation, Capacity, Load, Finishing
  <2> QED
    BY <2>1, <2>2 DEF Books
<1>6. CASE DropQueue
  <2>1. TypeOK' /\ Held'
    BY <1>6 DEF DropQueue, Held
  <2>2. Conservation' /\ Capacity'
    BY <1>6 DEF DropQueue, Conservation, Capacity, Load, Finishing
  <2> QED
    BY <2>1, <2>2 DEF Books
<1>7. CASE Terminated \/ UNCHANGED vars
  <2>1. TypeOK' /\ Held'
    BY <1>7 DEF Terminated, vars, Held
  <2>2. Conservation' /\ Capacity'
    BY <1>7 DEF Terminated, vars, Conservation, Capacity, Load, Finishing
  <2> QED
    BY <2>1, <2>2 DEF Books
<1> QED
  BY <1>1, <1>2, <1>3, <1>4, <1>5, <1>6, <1>7 DEF OtherStep

(* Initially every worker is free and every list empty.                    *)
LEMMA BooksOpen == Init => Books
<1> SUFFICES ASSUME Init PROVE Books
  OBVIOUS
<1>1. TypeOK
  <2>1. closed \in BOOLEAN /\ qsig \in BOOLEAN
    BY Zenon DEF Init, QueueInit, WorkerInit, TaskInit
  <2>2. QueueTypeOK /\ WorkerTypeOK
    BY SchedulerAssumption, NoTasks
       DEF Init, QueueInit, WorkerInit, TaskInit, QueueTypeOK, WorkerTypeOK, QueuePCs, WorkerPCs, TaskStates, Threads
  <2>3. ClientTypeOK /\ LinkTypeOK /\ TaskTypeOK
    BY <2>1, SchedulerAssumption, NoTasks
       DEF Init, QueueInit, WorkerInit, TaskInit, ClientTypeOK, LinkTypeOK, TaskTypeOK, TaskStates
  <2> QED
    BY <2>2, <2>3 DEF TypeOK
<1>2. Held
  BY DEF Init, QueueInit, WorkerInit, TaskInit, Held, QueueHolds, WorkerHolds
<1>3. Conservation /\ Capacity
  <2>1. ASSUME NEW w \in Threads
        PROVE  Load(w) = 0 /\ free[w] = WorkersPerThread /\ lost[w] = 0
    BY NoTasks DEF Init, QueueInit, WorkerInit, TaskInit, Load, Finishing
  <2> QED
    BY <2>1, SchedulerAssumption DEF Init, QueueInit, WorkerInit, TaskInit, Conservation, Capacity
<1> QED
  BY <1>1, <1>2, <1>3 DEF Books

(* What the threads hold, and the free, occupied, taken and lost workers,  *)
(* always add up.                                                          *)
THEOREM BooksBalance == Spec => []Books
<1>1. Books /\ [Next]_vars => Books'
  BY QueueActions, WorkerActions, OtherActions DEF Next, OtherStep
<1> QED
  BY <1>1, BooksOpen, PTL DEF Spec

(* Every variable stays in its range; above all, the unsigned counters of  *)
(* free workers never go below zero, whatever the queue thread and the     *)
(* worker threads do between the test, the send and the decrement.         *)
THEOREM TypeCorrect == Spec => []TypeOK
<1>1. Books => TypeOK
  BY DEF Books
<1> QED
  BY <1>1, BooksBalance, PTL

(* No worker thread ever holds more unfinished tasks than it has workers.  *)
THEOREM CapacityRespected == Spec => []Capacity
<1>1. Books => Capacity
  BY DEF Books
<1> QED
  BY <1>1, BooksBalance, PTL

(* No worker is ever counted twice or forgotten: those that are neither    *)
(* free nor occupied went with a task that panicked or was cancelled.      *)
THEOREM WorkersConserved == Spec => []Conservation
<1>1. Books => Conservation
  BY DEF Books
<1> QED
  BY <1>1, BooksBalance, PTL

-----------------------------------------------------------------------------
(* Every task is in one place: still with its client, in one of the lists  *)
(* of the queue thread or of one worker thread, once, or announced.  Only  *)
(* a task whose signals are being woken is announced and still in a list.  *)
Queued == Range(chan) \cup Range(todo) \cup Range(remaining)
On(w)  == Range(inbox[w]) \cup Range(futures[w]) \cup Range(polling[w])

Unsent(t) == \E c \in Clients : \E i \in DOMAIN Batch[c] : cpc[c] < i /\ Batch[c][i] = t

QueueLists ==
  /\ IsInjective(chan) /\ IsInjective(todo) /\ IsInjective(remaining)
  /\ Range(chan) \cap Range(todo) = {}
  /\ Range(chan) \cap Range(remaining) = {}
  /\ Range(todo) \cap Range(remaining) = {}

WorkerLists(w) ==
  /\ IsInjective(inbox[w]) /\ IsInjective(futures[w]) /\ IsInjective(polling[w])
  /\ Range(inbox[w]) \cap Range(futures[w]) = {}
  /\ Range(inbox[w]) \cap Range(polling[w]) = {}
  /\ Range(futures[w]) \cap Range(polling[w]) = {}

Owners ==
  /\ \A w \in Threads : On(w) \cap Queued = {}
  /\ \A v, w \in Threads : v # w => On(v) \cap On(w) = {}

Waking(w) == wpc[w] \in {"wakeTask", "wakeQueue"}

Announced ==
  /\ done \cap Queued = {}
  /\ \A w \in Threads : done \cap On(w) = IF Waking(w) THEN {Current(w)} ELSE {}

NotSentYet ==
  \A t \in Tasks : Unsent(t) => t \notin Queued \cup done /\ \A w \in Threads : t \notin On(w)

OnePlace == QueueLists /\ (\A w \in Threads : WorkerLists(w)) /\ Owners /\ Announced /\ NotSentYet

(* A step moves tasks, it neither drops nor doubles them.                  *)
Somewhere(t) == t \in Queued \cup done \/ \E w \in Threads : t \in On(w)
NoneDropped ==
  /\ \A t \in Tasks : Somewhere(t) => Somewhere(t)'
  /\ \A w \in Threads : On(w) \subseteq On(w)' \cup done'
  /\ done \subseteq done'

(* Only the queue thread gives a worker thread a task, only a client the   *)
(* queue thread.                                                           *)
Sent(w) == IF qpc = "dispatch" /\ free[target] > 0 /\ w = target THEN {Head(todo)} ELSE {}
NothingSent  == \A w \in Threads : On(w)' \subseteq On(w)
NothingAdded == Queued' \subseteq Queued

LEMMA NothingMoves ==
  ASSUME OnePlace, UNCHANGED <<chan, todo, remaining, inbox, futures, polling, done>>,
         \A w \in Threads : Waking(w)' = Waking(w),
         \A t \in Tasks : Unsent(t)' => Unsent(t)
  PROVE  OnePlace' /\ NoneDropped /\ NothingSent /\ NothingAdded
<1>1. QueueLists' /\ (\A w \in Threads : WorkerLists(w)') /\ Owners'
  BY DEF OnePlace, QueueLists, WorkerLists, Owners, On, Queued
<1>2. Announced' /\ NotSentYet'
  BY DEF OnePlace, Announced, NotSentYet, On, Queued, Current
<1>3. NoneDropped
  BY DEF NoneDropped, Somewhere, On, Queued
<1>4. NothingSent /\ NothingAdded
  BY DEF NothingSent, NothingAdded, On, Queued
<1> QED
  BY <1>1, <1>2, <1>3, <1>4 DEF OnePlace

(* The queue thread rearranges its lists, perhaps announcing a task.       *)
LEMMA QueueRearranges ==
  ASSUME OnePlace, UNCHANGED <<inbox, futures, polling, wpc, cpc>>,
         QueueLists', Queued' \cup done' = Queued \cup done,
         Queued' \cap done' = {}, done \subseteq done'
  PROVE  OnePlace' /\ NoneDropped /\ NothingSent /\ NothingAdded
<1>1. /\ \A w \in Threads : On(w)' = On(w) /\ Waking(w)' = Waking(w) /\ Current(w)' = Current(w)
      /\ \A t : Unsent(t)' = Unsent(t)
  BY DEF On, Waking, Current, Unsent
<1>2. \A w \in Threads : WorkerLists(w)'
  BY DEF OnePlace, WorkerLists
<1>a. Queued' \subseteq Queued
  BY DEF OnePlace, Announced
<1>3. Owners'
  BY <1>1, <1>a DEF OnePlace, Owners
<1>4. Announced'
  BY <1>1 DEF OnePlace, Announced, Owners
<1>5. NotSentYet'
  BY <1>1 DEF OnePlace, NotSentYet
<1>6. NoneDropped /\ NothingSent /\ NothingAdded
  BY <1>1, <1>a DEF NoneDropped, Somewhere, NothingSent, NothingAdded
<1> QED
  BY <1>2, <1>3, <1>4, <1>5, <1>6 DEF OnePlace

(* A worker thread rearranges its lists, or announces a task, or lets go   *)
(* of one it has announced.                                                *)
LEMMA WorkerRearranges ==
  ASSUME OnePlace, NEW w \in Threads, UNCHANGED <<chan, todo, remaining, cpc>>,
         \A v \in Threads \ {w} :
           UNCHANGED <<inbox[v], futures[v], polling[v], wpc[v]>>,
         WorkerLists(w)', On(w)' \subseteq On(w), On(w) \subseteq On(w)' \cup done,
         done \subseteq done', done' \subseteq done \cup On(w),
         done' \cap On(w)' = IF Waking(w)' THEN {Current(w)'} ELSE {}
  PROVE  OnePlace' /\ NoneDropped /\ NothingSent /\ NothingAdded
<1>1. /\ \A v \in Threads \ {w} :
           On(v)' = On(v) /\ Waking(v)' = Waking(v) /\ Current(v)' = Current(v)
      /\ Queued' = Queued /\ \A t : Unsent(t)' = Unsent(t)
  BY DEF On, Waking, Current, Unsent, Queued
<1>2. QueueLists' /\ \A v \in Threads : WorkerLists(v)'
  BY DEF OnePlace, WorkerLists, QueueLists
<1>3. Owners'
  BY <1>1 DEF OnePlace, Owners
<1>4. Announced'
  <2>1. done' \cap Queued' = {}
    BY <1>1 DEF OnePlace, Announced, Owners
  <2>2. ASSUME NEW v \in Threads \ {w}
        PROVE  done' \cap On(v)' = IF Waking(v)' THEN {Current(v)'} ELSE {}
    BY <1>1 DEF OnePlace, Announced, Owners
  <2> QED
    BY <2>1, <2>2 DEF Announced
<1>5. NotSentYet'
  BY <1>1 DEF OnePlace, NotSentYet
<1>6. NoneDropped /\ NothingSent /\ NothingAdded
  BY <1>1 DEF NoneDropped, Somewhere, NothingSent, NothingAdded
<1> QED
  BY <1>2, <1>3, <1>4, <1>5, <1>6 DEF OnePlace

LEMMA QueueMoves ==
  ASSUME Books, OnePlace, QueueStep
  PROVE  OnePlace' /\ NoneDropped /\ NothingAdded
         /\ \A w \in Threads : On(w)' \subseteq On(w) \cup Sent(w)
<1> USE DEF queueVars, workerVars, clientVars, linkVars, taskVars
<1>t. /\ chan \in Seq(Tasks) /\ todo \in Seq(Tasks) /\ remaining \in Seq(Tasks)
      /\ inbox \in [Threads -> Seq(Tasks)] /\ target \in Threads
  BY DEF Books, TypeOK, QueueTypeOK, LinkTypeOK
<1>q. QueueLists /\ done \cap Queued = {}
  BY DEF OnePlace, Announced
<1>h. qpc \in QueueHolds => todo # <<>>
  BY DEF Books, Held
<1>n. Range(<<>>) = {} /\ IsInjective(<<>>)
  BY RangeOfNone
<1> SUFFICES OnePlace' /\ NoneDropped /\ NothingAdded
               /\ (NothingSent \/ \A w \in Threads : On(w)' \subseteq On(w) \cup Sent(w))
  BY DEF NothingSent
<1>1. CASE Receive
  <2>1. chan # <<>> /\ todo = <<>> /\ todo' = <<Head(chan)>> /\ chan' = Tail(chan)
        /\ UNCHANGED <<remaining, done, inbox, futures, polling, wpc, cpc>>
    BY <1>1 DEF Receive
  <2>2. Range(todo') = {Head(chan)} /\ IsInjective(todo')
    BY <2>1, RangeOfOne
  <2>3. /\ Range(chan) = {Head(chan)} \cup Range(chan')
        /\ IsInjective(chan) => Head(chan) \notin Range(chan') /\ IsInjective(chan')
    BY <1>t, <2>1, RangeOfTail
  <2>4. QueueLists' /\ Queued' = Queued
    BY <1>q, <1>n, <2>1, <2>2, <2>3 DEF QueueLists, Queued
  <2> QED
    BY <1>q, <2>1, <2>4, QueueRearranges
<1>2. CASE Shutdown
  BY <1>2, NothingMoves DEF Shutdown, Waking, Unsent
<1>3. CASE Drain
  <2>1. todo' = todo \o chan /\ chan' = <<>>
        /\ UNCHANGED <<remaining, done, inbox, futures, polling, wpc, cpc>>
    BY <1>3 DEF Drain
  <2>2. /\ Range(todo') = Range(todo) \cup Range(chan)
        /\ IsInjective(todo) /\ IsInjective(chan) /\ Range(todo) \cap Range(chan) = {} =>
             IsInjective(todo')
    BY <1>t, <2>1, RangeOfJoin
  <2>3. QueueLists' /\ Queued' = Queued
    BY <1>q, <1>n, <2>1, <2>2 DEF QueueLists, Queued
  <2> QED
    BY <1>q, <2>1, <2>3, QueueRearranges
<1>k. ASSUME todo # <<>>, KeepHead, UNCHANGED <<chan, done, inbox, futures, polling, wpc, cpc>>
      PROVE  OnePlace' /\ NoneDropped /\ NothingSent /\ NothingAdded
  <2>1. remaining' = Append(remaining, Head(todo)) /\ todo' = Tail(todo) /\ Head(todo) \in Tasks
    BY <1>t, <1>k, TakeTask DEF KeepHead
  <2>2. /\ Range(todo) = {Head(todo)} \cup Range(todo')
        /\ IsInjective(todo) => Head(todo) \notin Range(todo') /\ IsInjective(todo')
    BY <1>t, <1>k, <2>1, RangeOfTail
  <2>3. /\ Range(remaining') = Range(remaining) \cup {Head(todo)}
        /\ IsInjective(remaining) /\ Head(todo) \notin Range(remaining) => IsInjective(remaining')
    BY <1>t, <2>1, RangeOfAppend
  <2>4. QueueLists' /\ Queued' = Queued
    BY <1>q, <1>k, <2>2, <2>3 DEF QueueLists, Queued
  <2> QED
    BY <1>q, <1>k, <2>4, QueueRearranges
<1>4. CASE Examine
  <2>1. CASE CanExecute(Head(todo))
    BY <1>4, <2>1, NothingMoves DEF Examine, Waking, Unsent
  <2>2. CASE ~ CanExecute(Head(todo))
    BY <1>4, <1>k, <2>2 DEF Examine
  <2> QED
    BY <2>1, <2>2
<1>5. CASE CheckPanicked
  BY <1>5, NothingMoves DEF CheckPanicked, Waking, Unsent
<1>6. CASE GetPanic
  BY <1>6, NothingMoves DEF GetPanic, Waking, Unsent
<1>7. CASE CheckCancelled
  BY <1>7, NothingMoves DEF CheckCancelled, Waking, Unsent
<1>8. CASE Notify
  <2>1. todo # <<>> /\ todo' = Tail(todo) /\ done' = done \cup {Head(todo)}
        /\ UNCHANGED <<chan, remaining, inbox, futures, polling, wpc, cpc>>
    BY <1>8, <1>h DEF Notify, SignalSemaphores, QueueHolds
  <2>2. /\ Range(todo) = {Head(todo)} \cup Range(todo')
        /\ IsInjective(todo) => Head(todo) \notin Range(todo') /\ IsInjective(todo')
    BY <1>t, <2>1, RangeOfTail
  <2>3. QueueLists'
    BY <1>q, <2>1, <2>2 DEF QueueLists
  <2>4. Queued' \cup done' = Queued \cup done /\ Queued' \cap done' = {}
    BY <1>q, <2>1, <2>2 DEF QueueLists, Queued
  <2> QED
    BY <2>1, <2>3, <2>4, QueueRearranges
<1>9. CASE Select
  <2>1. CASE qpc' = "dispatch" /\ UNCHANGED <<todo, remaining>>
    BY <1>9, <2>1, NothingMoves DEF Select, Waking, Unsent
  <2>2. CASE KeepHead
    BY <1>9, <1>h, <1>k, <2>2 DEF Select, QueueHolds
  <2> QED
    BY <1>9, <2>1, <2>2 DEF Select
<1>10. CASE Dispatch
  <2>1. CASE free[target] > 0
    <3>1. PICK v \in Threads : v = target
      BY <1>t
    <3>2. /\ todo # <<>> /\ todo' = Tail(todo) /\ Head(todo) \in Tasks
          /\ inbox' = [inbox EXCEPT ![v] = Append(inbox[v], Head(todo))]
          /\ UNCHANGED <<chan, remaining, futures, polling, wpc, cpc, done>>
      BY <1>10, <1>h, <1>t, <2>1, <3>1, TakeTask DEF Dispatch, QueueHolds
    <3>3. /\ Range(todo) = {Head(todo)} \cup Range(todo')
          /\ IsInjective(todo) => Head(todo) \notin Range(todo') /\ IsInjective(todo')
      BY <1>t, <3>2, RangeOfTail
    <3>4. /\ Range(inbox'[v]) = Range(inbox[v]) \cup {Head(todo)}
          /\ IsInjective(inbox[v]) /\ Head(todo) \notin Range(inbox[v]) => IsInjective(inbox'[v])
      <4>1. inbox[v] \in Seq(Tasks) /\ inbox'[v] = Append(inbox[v], Head(todo))
        BY <1>t, <3>2
      <4> QED
        BY <3>2, <4>1, RangeOfAppend
    <3>5. /\ \A w \in Threads \ {v} : inbox'[w] = inbox[w] /\ On(w)' = On(w)
          /\ On(v)' = On(v) \cup {Head(todo)}
      BY <1>t, <3>2, <3>4 DEF On
    <3>6. Queued = Queued' \cup {Head(todo)} /\ Head(todo) \notin Queued' /\ QueueLists'
      BY <1>q, <3>2, <3>3 DEF QueueLists, Queued
    <3>7. \A w \in Threads : WorkerLists(w)'
      <4>1. Head(todo) \notin On(v)
        BY <3>6 DEF OnePlace, Owners
      <4>2. WorkerLists(v)'
        BY <3>2, <3>4, <4>1 DEF OnePlace, WorkerLists, On
      <4>3. \A w \in Threads \ {v} : WorkerLists(w)'
        BY <3>2, <3>5 DEF OnePlace, WorkerLists
      <4> QED
        BY <4>2, <4>3
    <3>8. Owners'
      BY <3>5, <3>6 DEF OnePlace, Owners
    <3>9. Announced'
      <4>1. \A w \in Threads : Waking(w)' = Waking(w) /\ Current(w)' = Current(w)
        BY <3>2 DEF Waking, Current
      <4>2. Head(todo) \notin done
        BY <1>q, <3>6
      <4> QED
        BY <3>2, <3>5, <3>6, <4>1, <4>2 DEF OnePlace, Announced
    <3>10. NotSentYet'
      <4>1. \A t : Unsent(t)' = Unsent(t)
        BY <3>2 DEF Unsent
      <4> QED
        BY <3>2, <3>5, <3>6, <4>1 DEF OnePlace, NotSentYet
    <3>11. NoneDropped
      BY <3>2, <3>5, <3>6 DEF NoneDropped, Somewhere
    <3>12. NothingAdded /\ \A w \in Threads : On(w)' \subseteq On(w) \cup Sent(w)
      BY <1>10, <2>1, <3>1, <3>5, <3>6 DEF Sent, NothingAdded, Dispatch
    <3> QED
      BY <3>6, <3>7, <3>8, <3>9, <3>10, <3>11, <3>12 DEF OnePlace
  <2>2. CASE ~ (free[target] > 0)
    BY <1>10, <1>h, <1>k, <2>2 DEF Dispatch, QueueHolds
  <2> QED
    BY <2>1, <2>2
<1>11. CASE Debit
  BY <1>11, NothingMoves DEF Debit, Waking, Unsent
<1>12. CASE Poke
  BY <1>12, NothingMoves DEF Poke, Waking, Unsent
<1>13. CASE PassEnds
  <2>1. todo = <<>> /\ todo' = remaining /\ remaining' = <<>>
        /\ UNCHANGED <<chan, done, inbox, futures, polling, wpc, cpc>>
    BY <1>13 DEF PassEnds
  <2>2. QueueLists' /\ Queued' = Queued
    BY <1>q, <1>n, <2>1 DEF QueueLists, Queued
  <2> QED
    BY <1>q, <2>1, <2>2, QueueRearranges
<1>14. CASE QueueWaits
  BY <1>14, NothingMoves DEF QueueWaits, Waking, Unsent
<1> QED
  BY <1>1, <1>2, <1>3, <1>4, <1>5, <1>6, <1>7, <1>8, <1>9, <1>10, <1>11, <1>12, <1>13, <1>14 DEF QueueStep

LEMMA WorkerMoves ==
  ASSUME Books, OnePlace, NEW w \in Threads, WorkerStep(w)
  PROVE  OnePlace' /\ NoneDropped /\ NothingSent /\ NothingAdded
<1> USE DEF queueVars, workerVars, clientVars, linkVars, taskVars, Goto
<1>t. /\ inbox \in [Threads -> Seq(Tasks)] /\ futures \in [Threads -> Seq(Tasks)]
      /\ polling \in [Threads -> Seq(Tasks)] /\ wpc \in [Threads -> WorkerPCs]
  BY DEF Books, TypeOK, WorkerTypeOK, LinkTypeOK
<1>l. /\ WorkerLists(w)
      /\ done \cap On(w) = IF Waking(w) THEN {Current(w)} ELSE {}
  BY DEF OnePlace, Announced
<1>h. wpc[w] \in WorkerHolds \/ AtPoll(w) =>
        polling[w] # <<>> /\ Current(w) = Head(polling[w]) /\ Current(w) \in Tasks
  BY CurrentTask DEF Books, Held, AtPoll, Current
<1>n. Range(<<>>) = {} /\ IsInjective(<<>>)
  BY RangeOfNone
<1>p. wpc[w] \in WorkerHolds \/ AtPoll(w) =>
        /\ Range(polling[w]) = {Current(w)} \cup Range(Tail(polling[w]))
        /\ Current(w) \notin Range(Tail(polling[w])) /\ IsInjective(Tail(polling[w]))
  <2> SUFFICES ASSUME wpc[w] \in WorkerHolds \/ AtPoll(w)
      PROVE  /\ Range(polling[w]) = {Current(w)} \cup Range(Tail(polling[w]))
             /\ Current(w) \notin Range(Tail(polling[w])) /\ IsInjective(Tail(polling[w]))
    OBVIOUS
  <2>1. polling[w] \in Seq(Tasks) /\ polling[w] # <<>> /\ Current(w) = Head(polling[w])
    BY <1>t, <1>h
  <2>2. /\ Range(polling[w]) = {Head(polling[w])} \cup Range(Tail(polling[w]))
        /\ IsInjective(polling[w]) =>
             Head(polling[w]) \notin Range(Tail(polling[w])) /\ IsInjective(Tail(polling[w]))
    BY <2>1, RangeOfTail
  <2> QED
    BY <1>l, <2>1, <2>2 DEF WorkerLists
<1>s. ASSUME UNCHANGED <<chan, todo, remaining, inbox, futures, polling, done, cpc>>,
             \A v \in Threads \ {w} : wpc'[v] = wpc[v], Waking(w)' = Waking(w)
      PROVE  OnePlace' /\ NoneDropped /\ NothingSent /\ NothingAdded
  BY <1>s, NothingMoves DEF Waking, Unsent
<1>1. CASE TakeTasks(w)
  <2>1. /\ UNCHANGED <<chan, todo, remaining, cpc, done>> /\ wpc' = [wpc EXCEPT ![w] = "poll"]
        /\ wpc[w] = "top" /\ polling[w] = <<>>
        /\ \A v \in Threads \ {w} : UNCHANGED <<inbox[v], futures[v], polling[v], wpc[v]>>
    BY <1>1, <1>t DEF TakeTasks, Books, Held
  <2>2. WorkerLists(w)' /\ On(w)' = On(w)
    <3>1. CASE futures[w] = <<>>
      <4>1. inbox[w] # <<>>
        BY <1>1, <1>t, <3>1, JoinTasks DEF TakeTasks
      <4>2. /\ inbox'[w] = Tail(inbox[w]) /\ polling'[w] = <<Head(inbox[w])>>
            /\ futures'[w] = <<>>
        BY <1>1, <1>t, <3>1 DEF TakeTasks
      <4>3. /\ Range(inbox[w]) = {Head(inbox[w])} \cup Range(inbox'[w])
            /\ IsInjective(inbox[w]) => Head(inbox[w]) \notin Range(inbox'[w]) /\ IsInjective(inbox'[w])
        BY <1>t, <4>1, <4>2, RangeOfTail
      <4>4. Range(polling'[w]) = {Head(inbox[w])} /\ IsInjective(polling'[w])
        BY <4>2, RangeOfOne
      <4> QED
        BY <1>l, <1>n, <2>1, <3>1, <4>2, <4>3, <4>4 DEF WorkerLists, On
    <3>2. CASE futures[w] # <<>>
      <4>1. /\ inbox'[w] = <<>> /\ polling'[w] = futures[w] \o inbox[w]
            /\ futures'[w] = <<>>
        BY <1>1, <1>t, <3>2 DEF TakeTasks
      <4>2. /\ Range(polling'[w]) = Range(futures[w]) \cup Range(inbox[w])
            /\ IsInjective(futures[w]) /\ IsInjective(inbox[w])
               /\ Range(futures[w]) \cap Range(inbox[w]) = {} => IsInjective(polling'[w])
        <5>1. futures[w] \in Seq(Tasks) /\ inbox[w] \in Seq(Tasks)
          BY <1>t
        <5> QED
          BY <4>1, <5>1, RangeOfJoin
      <4> QED
        BY <1>l, <1>n, <2>1, <4>1, <4>2 DEF WorkerLists, On
    <3> QED
      BY <3>1, <3>2
  <2>3. ~ Waking(w) /\ ~ Waking(w)'
    BY <1>t, <2>1 DEF Waking
  <2> QED
    BY <1>l, <2>1, <2>2, <2>3, WorkerRearranges
<1>2. CASE WorkerEnds(w)
  BY <1>2, <1>t, <1>s DEF WorkerEnds, Waking
<1>3. CASE Join(w)
  BY <1>3, <1>t, <1>s DEF Join, AtPoll, Waking
<1>4. CASE TakeResult(w)
  BY <1>4, <1>t, <1>s DEF TakeResult, LoseWorker, Waking
<1>5. CASE MatchResult(w)
  <2>1. wpc[w] = "match" /\ wpc' \in {[wpc EXCEPT ![w] = "poll"], [wpc EXCEPT ![w] = "credit"]}
    BY <1>5 DEF MatchResult
  <2> QED
    BY <1>5, <1>t, <1>s, <2>1 DEF MatchResult, Waking
<1>6. CASE BodyReturns(w)
  BY <1>6, <1>t, <1>s DEF BodyReturns, PollsBody, AtPoll, Waking
<1>7. CASE BodyPanics(w)
  BY <1>7, <1>t, <1>s DEF BodyPanics, PollsBody, AtPoll, LoseWorker, Waking
<1>8. CASE BodyPends(w)
  <2>a. AtPoll(w) /\ wpc[w] = "poll" /\ ~ Waking(w)
    BY <1>8 DEF BodyPends, PollsBody, AtPoll, Waking
  <2>1. CASE state[Current(w)] = "Cancelled"
    BY <1>8, <1>t, <1>s, <2>1, <2>a DEF BodyPends, LoseWorker, Waking
  <2>2. CASE state[Current(w)] # "Cancelled"
    <3>1. /\ futures'[w] = Append(futures[w], Current(w)) /\ polling'[w] = Tail(polling[w])
          /\ UNCHANGED <<chan, todo, remaining, cpc, done, inbox, wpc>>
          /\ \A v \in Threads \ {w} : UNCHANGED <<inbox[v], futures[v], polling[v], wpc[v]>>
      BY <1>8, <1>t, <2>2 DEF BodyPends
    <3>2. /\ Range(futures'[w]) = Range(futures[w]) \cup {Current(w)}
          /\ IsInjective(futures[w]) /\ Current(w) \notin Range(futures[w]) => IsInjective(futures'[w])
      <4>1. futures[w] \in Seq(Tasks) /\ Current(w) \in Tasks
        BY <1>t, <1>h, <2>a
      <4> QED
        BY <3>1, <4>1, RangeOfAppend
    <3>3. WorkerLists(w)' /\ On(w)' = On(w)
      BY <1>l, <1>p, <2>a, <3>1, <3>2 DEF WorkerLists, On
    <3>4. ~ Waking(w)'
      BY <2>a, <3>1 DEF Waking
    <3> QED
      BY <1>l, <2>a, <3>1, <3>3, <3>4, WorkerRearranges
  <2> QED
    BY <2>1, <2>2
<1>9. CASE Credit(w)
  BY <1>9, <1>t, <1>s DEF Credit, Waking
<1>10. CASE Announce(w)
  <2>1. /\ wpc[w] = "announce" /\ wpc' = [wpc EXCEPT ![w] = "wakeTask"]
        /\ done' = done \cup {Current(w)}
        /\ UNCHANGED <<chan, todo, remaining, cpc, inbox, futures, polling>>
    BY <1>10 DEF Announce, SignalSemaphores
  <2>2. WorkerLists(w)' /\ On(w)' = On(w) /\ Current(w)' = Current(w) /\ Current(w) \in On(w)
    BY <1>l, <1>p, <2>1 DEF WorkerLists, On, Current, WorkerHolds
  <2>3. ~ Waking(w) /\ Waking(w)' /\ \A v \in Threads \ {w} : wpc'[v] = wpc[v]
    BY <1>t, <2>1 DEF Waking
  <2> QED
    BY <1>l, <2>1, <2>2, <2>3, WorkerRearranges
<1>11. CASE WakeTask(w)
  BY <1>11, <1>t, <1>s DEF WakeTask, Waking
<1>12. CASE WakeQueue(w)
  <2>1. /\ wpc[w] = "wakeQueue" /\ wpc' = [wpc EXCEPT ![w] = "poll"]
        /\ polling'[w] = Tail(polling[w])
        /\ UNCHANGED <<chan, todo, remaining, cpc, inbox, futures, done>>
        /\ \A v \in Threads \ {w} : UNCHANGED <<inbox[v], futures[v], polling[v], wpc[v]>>
    BY <1>12, <1>t DEF WakeQueue
  <2>2. Waking(w) /\ ~ Waking(w)'
    BY <1>t, <2>1 DEF Waking
  <2>3. WorkerLists(w)' /\ On(w) = On(w)' \cup {Current(w)} /\ Current(w) \notin On(w)'
    BY <1>l, <1>p, <2>1 DEF WorkerLists, On, WorkerHolds
  <2> QED
    BY <1>l, <2>1, <2>2, <2>3, WorkerRearranges
<1>13. CASE RoundEnds(w)
  BY <1>13, <1>t, <1>s DEF RoundEnds, Waking
<1>14. CASE Park(w)
  BY <1>14, <1>t, <1>s DEF Park, Waking
<1> QED
  BY <1>1, <1>2, <1>3, <1>4, <1>5, <1>6, <1>7, <1>8, <1>9, <1>10, <1>11, <1>12, <1>13, <1>14 DEF WorkerStep

(* A client sends the next task of its batch, or finds the queue thread    *)
(* dead and sends none of the rest; nobody else moves a task.              *)
LEMMA OtherMoves ==
  ASSUME Books, OnePlace, OtherStep
  PROVE  /\ OnePlace' /\ NoneDropped /\ NothingSent
         /\ NothingAdded \/ \E u \in Tasks : ~Somewhere(u) /\ Queued' = Queued \cup {u}
         /\ qpc # "dead" => \A t \in Tasks : Submitted(t)' => Submitted(t) \/ Somewhere(t)'
<1> USE DEF queueVars, workerVars, clientVars, linkVars, taskVars
<1>t. chan \in Seq(Tasks) /\ cpc \in [Clients -> Nat]
  BY DEF Books, TypeOK, LinkTypeOK, ClientTypeOK
<1>b. ASSUME NEW c \in Clients PROVE Batch[c] \in Seq(Tasks) /\ Len(Batch[c]) \in Nat
  BY SchedulerAssumption
<1>s. ASSUME UNCHANGED <<chan, todo, remaining, inbox, futures, polling, done, wpc, cpc>>
      PROVE  /\ OnePlace' /\ NoneDropped /\ NothingSent /\ NothingAdded
             /\ \A t \in Tasks : Submitted(t)' => Submitted(t)
  BY <1>s, NothingMoves DEF Waking, Unsent, Submitted
<1>1. ASSUME NEW c \in Clients, Send(c), qpc = "dead"
      PROVE  OnePlace' /\ NoneDropped /\ NothingSent /\ NothingAdded
  <2>1. /\ cpc[c] < Len(Batch[c]) /\ cpc' = [cpc EXCEPT ![c] = Len(Batch[c]) + 1]
        /\ UNCHANGED <<chan, todo, remaining, inbox, futures, polling, done, wpc>>
    BY <1>1 DEF Send
  <2>2. \A t \in Tasks : Unsent(t)' => Unsent(t)
    BY <1>t, <1>b, <2>1 DEF Unsent
  <2> QED
    BY <2>1, <2>2, NothingMoves DEF Waking
<1>2. ASSUME NEW c \in Clients, Send(c), qpc # "dead"
      PROVE  /\ OnePlace' /\ NoneDropped /\ NothingSent
             /\ \E u \in Tasks : ~Somewhere(u) /\ Queued' = Queued \cup {u}
             /\ \A t \in Tasks : Submitted(t)' => Submitted(t) \/ Somewhere(t)'
  <2>n. PICK n \in Nat : n = cpc[c] + 1
    BY <1>t
  <2>u. n \in DOMAIN Batch[c] /\ cpc[c] < n
    <3>1. cpc[c] < Len(Batch[c]) /\ cpc[c] \in Nat
      BY <1>t, <1>2 DEF Send
    <3> QED
      BY <1>b, <2>n, <3>1
  <2>v. PICK u \in Tasks : u = Batch[c][n]
    BY <1>b, <2>u
  <2>1. /\ chan' = Append(chan, u) /\ cpc' = [cpc EXCEPT ![c] = n]
        /\ UNCHANGED <<todo, remaining, inbox, futures, polling, done, wpc>>
    BY <1>2, <2>n, <2>v DEF Send
  <2>2. /\ Range(chan') = Range(chan) \cup {u}
        /\ IsInjective(chan) /\ u \notin Range(chan) => IsInjective(chan')
    BY <1>t, <2>1, RangeOfAppend
  <2>3. Unsent(u) /\ ~Unsent(u)' /\ \A t \in Tasks : Unsent(t)' => Unsent(t)
    <3>1. cpc[c] < n /\ Batch[c][n] = u /\ cpc'[c] = n /\ \A d \in Clients \ {c} : cpc'[d] = cpc[d]
      BY <1>t, <2>u, <2>v, <2>1
    <3>2. Unsent(u)
      BY <2>u, <2>v, <3>1 DEF Unsent
    <3>3. ~Unsent(u)'
      <4> SUFFICES ASSUME NEW d \in Clients, NEW i \in DOMAIN Batch[d], cpc'[d] < i, Batch[d][i] = u
                   PROVE  FALSE
        BY DEF Unsent
      <4>1. d = c /\ i = n
        BY <2>u, <2>v, SchedulerAssumption
      <4> QED
        BY <2>1, <3>1, <4>1
    <3>4. ASSUME NEW t \in Tasks, Unsent(t)' PROVE Unsent(t)
      <4>1. PICK d \in Clients : \E i \in DOMAIN Batch[d] : cpc'[d] < i /\ Batch[d][i] = t
        BY <3>4 DEF Unsent
      <4>2. PICK i \in DOMAIN Batch[d] : cpc'[d] < i /\ Batch[d][i] = t
        BY <4>1
      <4>3. i \in Nat
        BY <1>b
      <4>4. cpc[d] < i
        BY <1>t, <2>1, <3>1, <4>2, <4>3
      <4> QED
        BY <4>2, <4>4 DEF Unsent
    <3> QED
      BY <3>2, <3>3, <3>4
  <2>4. u \notin Queued \cup done /\ \A w \in Threads : u \notin On(w)
    BY <2>1, <2>3 DEF OnePlace, NotSentYet
  <2>5. /\ Queued' = Queued \cup {u}
        /\ \A w \in Threads : On(w)' = On(w) /\ Waking(w)' = Waking(w) /\ Current(w)' = Current(w)
    BY <2>1, <2>2 DEF Queued, On, Waking, Current
  <2>6. QueueLists' /\ \A w \in Threads : WorkerLists(w)'
    BY <2>1, <2>2, <2>4 DEF OnePlace, QueueLists, WorkerLists, Queued
  <2>7. Owners' /\ Announced'
    BY <2>1, <2>4, <2>5 DEF OnePlace, Owners, Announced
  <2>8. NotSentYet'
    BY <2>1, <2>3, <2>5 DEF OnePlace, NotSentYet
  <2>9. NoneDropped /\ NothingSent
    BY <2>1, <2>5 DEF NoneDropped, NothingSent, Somewhere
  <2>10. ASSUME NEW t \in Tasks, Submitted(t)' PROVE Submitted(t) \/ Somewhere(t)'
    <3>1. PICK d \in Clients : \E i \in DOMAIN Batch[d] : i <= cpc'[d] /\ Batch[d][i] = t
      BY <2>10 DEF Submitted
    <3>2. PICK i \in DOMAIN Batch[d] : i <= cpc'[d] /\ Batch[d][i] = t
      BY <3>1
    <3>3. i \in Nat
      BY <1>b
    <3>4. CASE d = c /\ i = n
      BY <2>5, <2>v, <3>2, <3>4 DEF Somewhere
    <3>5. CASE ~ (d = c /\ i = n)
      <4>1. i <= cpc[d]
        BY <1>t, <2>n, <2>u, <2>v, <2>1, <3>2, <3>3, <3>5
      <4> QED
        BY <3>2, <4>1 DEF Submitted
    <3> QED
      BY <3>4, <3>5
  <2> QED
    BY <2>4, <2>5, <2>6, <2>7, <2>8, <2>9, <2>10 DEF OnePlace, Somewhere
<1>3. ASSUME NEW c \in Clients, SendWake(c)
      PROVE  /\ OnePlace' /\ NoneDropped /\ NothingSent /\ NothingAdded
             /\ \A t \in Tasks : Submitted(t)' => Submitted(t)
  <2>1. /\ cpc[c] = Len(Batch[c]) /\ cpc' = [cpc EXCEPT ![c] = cpc[c] + 1]
        /\ UNCHANGED <<chan, todo, remaining, inbox, futures, polling, done, wpc>>
    BY <1>3 DEF SendWake
  <2>2. \A t \in Tasks : Unsent(t)' => Unsent(t)
    BY <1>t, <1>b, <2>1 DEF Unsent
  <2>3. \A t \in Tasks : Submitted(t)' => Submitted(t)
    BY <1>t, <1>b, <2>1 DEF Submitted
  <2> QED
    BY <2>1, <2>2, <2>3, NothingMoves DEF Waking
<1>4. CASE \E w \in Threads, t \in Tasks : Waken(w, t)
  BY <1>4, <1>s DEF Waken
<1>5. CASE \E t \in MayCancel : Cancel(t)
  BY <1>5, <1>s DEF Cancel
<1>6. CASE \E t \in Watched : WaitForTask(t)
  BY <1>6, <1>s DEF WaitForTask
<1>7. CASE DropQueue \/ Terminated \/ UNCHANGED vars
  BY <1>7, <1>s DEF DropQueue, Terminated, vars
<1> QED
  BY <1>1, <1>2, <1>3, <1>4, <1>5, <1>6, <1>7 DEF OtherStep

LEMMA PlacesOpen == Init => OnePlace
<1> SUFFICES ASSUME Init PROVE OnePlace
  OBVIOUS
<1>n. Range(<<>>) = {} /\ IsInjective(<<>>)
  BY RangeOfNone
<1>1. /\ chan = <<>> /\ todo = <<>> /\ remaining = <<>> /\ done = {}
      /\ \A w \in Threads : inbox[w] = <<>> /\ futures[w] = <<>> /\ polling[w] = <<>> /\ ~Waking(w)
  BY DEF Init, QueueInit, WorkerInit, TaskInit, Waking
<1>2. Queued = {} /\ \A w \in Threads : On(w) = {}
  BY <1>n, <1>1 DEF Queued, On
<1> QED
  BY <1>n, <1>1, <1>2 DEF OnePlace, QueueLists, WorkerLists, Owners, Announced, NotSentYet

(* What OnePlace says is true of every reachable state.                    *)
THEOREM TasksInOnePlace == Spec => []OnePlace
<1>1. Books /\ OnePlace /\ [Next]_vars => OnePlace'
  BY QueueMoves, WorkerMoves, OtherMoves DEF Next, OtherStep
<1> QED
  BY <1>1, PlacesOpen, BooksBalance, PTL DEF Spec

-----------------------------------------------------------------------------
(* What is left when a thread rests or has ended; and no task is lost      *)
(* unless the queue thread has panicked.                                   *)
Leftovers ==
  /\ qpc \in {"top", "wait", "ended"} => remaining = <<>>
  /\ qpc = "ended" => todo = <<>> /\ chan = <<>> /\ closed
  /\ closed => \A c \in Clients : cpc[c] > Len(Batch[c])
  /\ \A w \in Threads : wpc[w] = "ended" =>
       /\ inbox[w] = <<>> /\ futures[w] = <<>> /\ polling[w] = <<>>
       /\ qpc \in {"ended", "dead"}

NothingLost == qpc # "dead" => \A t \in Tasks : Submitted(t) => Somewhere(t)

LEMMA LeftoversOfQueue ==
  ASSUME Books, Leftovers, QueueStep PROVE Leftovers'
<1> USE DEF queueVars, workerVars, clientVars, linkVars, taskVars
<1>1. QueueStep => qpc \notin {"ended", "dead"}
  BY DEF QueueStep, Receive, Shutdown, Drain, Examine, CheckPanicked, GetPanic, CheckCancelled,
         Notify, Select, Dispatch, Debit, Poke, PassEnds, QueueWaits
<1>2. UNCHANGED <<wpc, futures, polling, clientVars>>
  BY DEF QueueStep, Receive, Shutdown, Drain, Examine, CheckPanicked, GetPanic, CheckCancelled,
         Notify, Select, Dispatch, Debit, Poke, PassEnds, QueueWaits
<1>3. \A w \in Threads : wpc'[w] # "ended"
  BY <1>1, <1>2 DEF Leftovers
<1>4. /\ qpc' \in {"top", "wait", "ended"} => remaining' = <<>>
      /\ qpc' = "ended" => todo' = <<>> /\ chan' = <<>> /\ closed'
  BY DEF Leftovers, QueueStep, Receive, Shutdown, Drain, Examine, CheckPanicked, GetPanic,
         CheckCancelled, Notify, Select, Dispatch, Debit, Poke, PassEnds, QueueWaits, KeepHead
<1> QED
  BY <1>2, <1>3, <1>4 DEF Leftovers

LEMMA LeftoversOfWorkers ==
  ASSUME Books, Leftovers, NEW w \in Threads, WorkerStep(w) PROVE Leftovers'
<1> USE DEF queueVars, workerVars, clientVars, linkVars, taskVars, Goto
<1>t. /\ inbox \in [Threads -> Seq(Tasks)] /\ futures \in [Threads -> Seq(Tasks)]
      /\ polling \in [Threads -> Seq(Tasks)] /\ wpc \in [Threads -> WorkerPCs]
  BY DEF Books, TypeOK, WorkerTypeOK, LinkTypeOK
<1>1. UNCHANGED <<queueVars, clientVars, chan>> /\ wpc[w] # "ended"
      /\ \A v \in Threads \ {w} : UNCHANGED <<inbox[v], futures[v], polling[v], wpc[v]>>
  <2>1. CASE TakeTasks(w) \/ WorkerEnds(w) \/ Join(w) \/ TakeResult(w) \/ MatchResult(w)
    BY <1>t, <2>1 DEF TakeTasks, WorkerEnds, Join, TakeResult, MatchResult, LoseWorker, AtPoll
  <2>2. CASE BodyReturns(w) \/ BodyPanics(w) \/ BodyPends(w)
    BY <1>t, <2>2 DEF BodyReturns, BodyPanics, BodyPends, PollsBody, AtPoll, LoseWorker
  <2>3. CASE Credit(w) \/ Announce(w) \/ WakeTask(w) \/ WakeQueue(w) \/ RoundEnds(w) \/ Park(w)
    BY <1>t, <2>3 DEF Credit, Announce, SignalSemaphores, WakeTask, WakeQueue, RoundEnds, Park
  <2> QED
    BY <2>1, <2>2, <2>3 DEF WorkerStep
<1>2. wpc'[w] = "ended" =>
        /\ inbox'[w] = <<>> /\ futures'[w] = <<>> /\ polling'[w] = <<>>
        /\ qpc' \in {"ended", "dead"}
  <2>1. CASE WorkerEnds(w)
    BY <1>t, <2>1 DEF WorkerEnds, Books, Held
  <2>2. CASE ~ WorkerEnds(w)
    <3>1. wpc'[w] # "ended"
      <4>1. CASE TakeTasks(w) \/ Join(w) \/ TakeResult(w) \/ MatchResult(w)
        BY <1>t, <4>1 DEF TakeTasks, Join, TakeResult, MatchResult, LoseWorker, AtPoll
      <4>2. CASE BodyReturns(w) \/ BodyPanics(w) \/ BodyPends(w)
        BY <1>t, <4>2 DEF BodyReturns, BodyPanics, BodyPends, PollsBody, AtPoll, LoseWorker
      <4>3. CASE Credit(w) \/ Announce(w) \/ WakeTask(w) \/ WakeQueue(w) \/ RoundEnds(w) \/ Park(w)
        BY <1>t, <4>3 DEF Credit, Announce, SignalSemaphores, WakeTask, WakeQueue, RoundEnds, Park
      <4> QED
        BY <2>2, <4>1, <4>2, <4>3 DEF WorkerStep
    <3> QED
      BY <3>1
  <2> QED
    BY <2>1, <2>2
<1> QED
  BY <1>1, <1>2 DEF Leftovers

LEMMA LeftoversOfOthers ==
  ASSUME Books, Leftovers, OtherStep PROVE Leftovers'
<1> USE DEF queueVars, workerVars, clientVars, linkVars, taskVars
<1>t. cpc \in [Clients -> Nat] /\ \A c \in Clients : Len(Batch[c]) \in Nat
  BY SchedulerAssumption DEF Books, TypeOK, ClientTypeOK
<1>1. CASE \E c \in Clients : Send(c) \/ SendWake(c)
  <2>1. PICK c \in Clients : Send(c) \/ SendWake(c)
    BY <1>1
  <2>2. cpc[c] <= Len(Batch[c]) /\ ~closed
    BY <1>t, <2>1 DEF Send, SendWake, Leftovers
  <2>3. /\ UNCHANGED <<qpc, remaining, todo, closed, wpc, inbox, futures, polling>>
        /\ qpc # "ended"
    BY <2>1, <2>2 DEF Send, SendWake, Leftovers
  <2> QED
    BY <2>2, <2>3 DEF Leftovers
<1>2. CASE DropQueue
  BY <1>2 DEF DropQueue, Leftovers
<1>3. CASE ~ ((\E c \in Clients : Send(c) \/ SendWake(c)) \/ DropQueue)
  BY <1>3 DEF OtherStep, Waken, Cancel, WaitForTask, Terminated, vars, Leftovers
<1> QED
  BY <1>1, <1>2, <1>3

LEMMA NothingGetsLost ==
  ASSUME Books, OnePlace, NothingLost, [Next]_vars PROVE NothingLost'
<1> USE DEF queueVars, workerVars, clientVars, linkVars, taskVars
<1>1. CASE QueueStep
  <2>1. qpc # "dead" /\ UNCHANGED cpc
    BY <1>1 DEF QueueStep, Receive, Shutdown, Drain, Examine, CheckPanicked, GetPanic,
         CheckCancelled, Notify, Select, Dispatch, Debit, Poke, PassEnds, QueueWaits
  <2> QED
    BY <1>1, <2>1, QueueMoves DEF NothingLost, NoneDropped, Submitted
<1>2. CASE \E w \in Threads : WorkerStep(w)
  <2>1. UNCHANGED <<qpc, cpc>>
    BY <1>2 DEF WorkerStep, TakeTasks, WorkerEnds, Join, TakeResult, MatchResult, BodyReturns,
         BodyPanics, BodyPends, Credit, Announce, WakeTask, WakeQueue, RoundEnds, Park
  <2> QED
    BY <1>2, <2>1, WorkerMoves DEF NothingLost, NoneDropped, Submitted
<1>3. CASE OtherStep
  <2>1. UNCHANGED qpc
    BY <1>3 DEF OtherStep, Waken, Send, SendWake, Cancel, WaitForTask, DropQueue, Terminated, vars
  <2> QED
    BY <1>3, <2>1, OtherMoves DEF NothingLost, NoneDropped
<1> QED
  BY <1>1, <1>2, <1>3 DEF Next, OtherStep

(* A task stays somewhere until it is announced, unless the queue thread   *)
(* panics; a thread that ends leaves none behind.                          *)
THEOREM TasksAreKept == Spec => [](Leftovers /\ NothingLost)
<1>1. Init => Leftovers /\ NothingLost
  <2>1. Init => Leftovers
    BY DEF Init, QueueInit, WorkerInit, Leftovers
  <2>2. Init => \A t \in Tasks : ~Submitted(t)
    <3> SUFFICES ASSUME Init, NEW c \in Clients, NEW i \in DOMAIN Batch[c], i <= cpc[c]
                 PROVE  FALSE
      BY DEF Submitted
    <3>1. i \in 1 .. Len(Batch[c]) /\ cpc[c] = 0
      BY SchedulerAssumption DEF Init, QueueInit
    <3> QED
      BY <3>1
  <2> QED
    BY <2>1, <2>2 DEF NothingLost
<1>2. Books /\ Leftovers /\ [Next]_vars => Leftovers'
  BY LeftoversOfQueue, LeftoversOfWorkers, LeftoversOfOthers DEF Next, OtherStep
<1> QED
  BY <1>1, <1>2, NothingGetsLost, BooksBalance, TasksInOnePlace, PTL DEF Spec

(* A graceful shutdown loses no task: when queue thread and worker threads *)
(* have all ended, every task that was ever sent has been announced.       *)
THEOREM ShutdownLosesNoTask == Spec => []ShutdownDrains
<1>1. Leftovers /\ NothingLost => ShutdownDrains
  BY RangeOfNone DEF ShutdownDrains, Leftovers, NothingLost, Somewhere, Queued, On
<1> QED
  BY <1>1, TasksAreKept, PTL
=============================================================================
