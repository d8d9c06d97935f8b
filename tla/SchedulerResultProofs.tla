------------------------ MODULE SchedulerResultProofs ------------------------
(* In which state the tasks of Scheduler are, and what follows for         *)
(* dependencies, results and panics; where tasks are sent, and that none   *)
(* is overlooked; the refinement of TaskPool.  For any number of threads,  *)
(* workers, clients and tasks.                                             *)
EXTENDS SchedulerProofs

(* The task the queue thread works on is in the queue and nowhere else,    *)
(* that of a worker thread on this thread and nowhere else.                *)
LEMMA HeadPlace ==
  ASSUME Books, OnePlace, todo # <<>>
  PROVE  /\ Head(todo) \in Tasks /\ Head(todo) \in Queued /\ Head(todo) \notin done
         /\ \A w \in Threads : Head(todo) \notin On(w)
<1>1. todo \in Seq(Tasks)
  BY DEF Books, TypeOK, QueueTypeOK
<1>2. Head(todo) \in Tasks /\ Head(todo) \in Queued
  BY <1>1, TakeTask, RangeOfTail DEF Queued
<1> QED
  BY <1>2 DEF OnePlace, Owners, Announced

LEMMA CurrentPlace ==
  ASSUME Books, OnePlace, NEW w \in Threads, wpc[w] \in WorkerHolds \/ AtPoll(w)
  PROVE  /\ Current(w) \in Tasks /\ Current(w) \in On(w) /\ Current(w) \notin Queued
         /\ Current(w) \in done <=> Waking(w)
         /\ \A v \in Threads \ {w} : Current(w) \notin On(v)
         /\ Current(w) \notin Range(Tail(polling[w]))
<1>1. Current(w) \in Tasks
  BY CurrentTask DEF Books
<1>2. polling[w] \in Seq(Tasks) /\ polling[w] # <<>>
  BY DEF Books, TypeOK, WorkerTypeOK, Held, AtPoll
<1>3. Current(w) \in On(w)
  BY <1>2, RangeOfTail DEF On, Current
<1>4. Current(w) \notin Range(Tail(polling[w]))
  BY <1>2, RangeOfTail DEF OnePlace, WorkerLists, Current
<1>5. done \cap On(w) = IF Waking(w) THEN {Current(w)} ELSE {}
  BY DEF OnePlace, Announced
<1> QED
  BY <1>1, <1>3, <1>4, <1>5 DEF OnePlace, Owners

(* A task is done with, its verdict final: dropped by the queue thread,    *)
(* through with its worker, or announced.                                  *)
Ending(w) == wpc[w] \in {"credit", "announce"}
Gone(t) == \/ t \in done
           \/ qpc = "notify" /\ t = Head(todo)
           \/ \E w \in Threads : Ending(w) /\ t = Current(w)

(* What one step of each actor may do to the states of the tasks.          *)
LEMMA QueueEffects ==
  ASSUME QueueStep
  PROVE  /\ UNCHANGED <<wpc, futures, polling, got, begun, parked, cpc, closed, lost>>
         /\ \/ /\ qpc = "panic" /\ PredState(Head(todo)) = "Panicked"
               /\ state' = [state EXCEPT ![Head(todo)] = "Panicked"]
               /\ qpc' = "notify" /\ UNCHANGED <<todo, sem, done, tsig>>
            \/ /\ qpc = "cancelled?" /\ IsCancelled(Head(todo))
               /\ state' = [state EXCEPT ![Head(todo)] = "Cancelled"]
               /\ qpc' = "notify" /\ UNCHANGED <<todo, sem, done, tsig>>
            \/ /\ qpc = "notify" /\ SignalSemaphores(Head(todo))
               /\ tsig' = [tsig EXCEPT ![Head(todo)] = TRUE]
               /\ qpc' = "next" /\ todo' = Tail(todo) /\ UNCHANGED state
            \/ /\ qpc = "next" /\ todo # <<>> /\ CanExecute(Head(todo))
               /\ qpc' = "panicked?" /\ UNCHANGED <<todo, state, sem, done, tsig>>
            \/ /\ qpc = "panicked?" /\ qpc' \in {"panic", "cancelled?"}
               /\ qpc' = "cancelled?" => PredState(Head(todo)) # "Panicked"
               /\ UNCHANGED <<todo, state, sem, done, tsig>>
            \/ /\ qpc = "cancelled?" /\ qpc' = "select"
               /\ UNCHANGED <<todo, state, sem, done, tsig>>
            \/ /\ qpc = "select" /\ qpc' = "dispatch"
               /\ UNCHANGED <<todo, state, sem, done, tsig>>
            \/ /\ qpc \notin {"notify", "dead", "ended"} /\ qpc' \notin QueueHolds
               /\ UNCHANGED <<state, sem, done, tsig>>
<1> USE DEF queueVars, workerVars, clientVars, linkVars, taskVars, QueueHolds
<1>1. CASE Receive \/ Shutdown \/ Drain \/ Examine \/ CheckPanicked
  BY <1>1 DEF Receive, Shutdown, Drain, Examine, CheckPanicked, KeepHead
<1>2. CASE GetPanic
  BY <1>2 DEF GetPanic
<1>3. CASE CheckCancelled
  BY <1>3 DEF CheckCancelled
<1>4. CASE Notify
  BY <1>4 DEF Notify
<1>5. CASE Select \/ Dispatch \/ Debit \/ Poke \/ PassEnds \/ QueueWaits
  BY <1>5 DEF Select, Dispatch, Debit, Poke, PassEnds, QueueWaits, KeepHead
<1> QED
  BY <1>1, <1>2, <1>3, <1>4, <1>5 DEF QueueStep

LEMMA WorkerEffects ==
  ASSUME Books, NEW w \in Threads, WorkerStep(w)
  PROVE  /\ UNCHANGED <<queueVars, cpc, closed, chan>>
         /\ \A v \in Threads \ {w} : UNCHANGED <<wpc[v], polling[v], got[v], lost[v], inbox[v], futures[v]>>
         /\ \/ /\ AtPoll(w) /\ NeedsResult(Current(w)) /\ tsig[Pred[Current(w)]]
               /\ tsig' = [tsig EXCEPT ![Pred[Current(w)]] = FALSE]
               /\ wpc'[w] = "take" /\ UNCHANGED <<polling, state, sem, done, begun>>
            \/ /\ wpc[w] = "take" /\ PredState(Current(w)) = "Pending"
               /\ state' = [state EXCEPT ![Current(w)] = "Panicked"]
               /\ wpc'[w] = "announce" /\ UNCHANGED <<polling, sem, done, tsig, begun>>
            \/ /\ wpc[w] = "take" /\ PredState(Current(w)) # "Pending"
               /\ got'[w] = PredState(Current(w))
               /\ wpc'[w] = "match" /\ UNCHANGED <<polling, state, sem, done, tsig, begun>>
            \/ /\ wpc[w] = "match" /\ PredState(Current(w)) = "Ready" /\ got[w] = "Ready"
               /\ begun' = begun \cup {Current(w)}
               /\ wpc'[w] = "poll" /\ UNCHANGED <<polling, state, sem, done, tsig>>
            \/ /\ wpc[w] = "match" /\ PredState(Current(w)) = "Ready" /\ got[w] # "Ready"
               /\ wpc'[w] = "credit" /\ UNCHANGED <<polling, state, sem, done, tsig, begun>>
            \/ /\ wpc[w] = "match" /\ PredState(Current(w)) # "Ready"
               /\ state' = [state EXCEPT ![Current(w)] =
                     IF PredState(Current(w)) = "Panicked" THEN "Panicked" ELSE "Cancelled"]
               /\ wpc'[w] = "credit" /\ UNCHANGED <<polling, sem, done, tsig, begun>>
            \/ /\ PollsBody(w) /\ UNCHANGED <<sem, done, tsig>>
               /\ \/ /\ \/ state' = [state EXCEPT ![Current(w)] = "Ready"]
                        \/ state' = [state EXCEPT ![Current(w)] = "Panicked"]
                        \/ UNCHANGED state /\ state[Current(w)] = "Cancelled"
                     /\ wpc'[w] \in {"credit", "announce"} /\ UNCHANGED polling
                  \/ wpc'[w] = "poll" /\ UNCHANGED state
            \/ /\ wpc[w] = "credit" /\ wpc'[w] = "announce"
               /\ UNCHANGED <<polling, state, sem, done, tsig, begun>>
            \/ /\ wpc[w] = "announce" /\ SignalSemaphores(Current(w))
               /\ wpc'[w] = "wakeTask" /\ UNCHANGED <<polling, state, tsig, begun>>
            \/ /\ wpc[w] = "wakeTask" /\ tsig' = [tsig EXCEPT ![Current(w)] = TRUE]
               /\ wpc'[w] = "wakeQueue" /\ UNCHANGED <<polling, state, sem, done, begun>>
            \/ /\ wpc[w] \notin WorkerHolds \ {"wakeQueue"} /\ wpc'[w] \notin WorkerHolds
               /\ UNCHANGED <<state, sem, done, tsig, begun>>
<1> USE DEF queueVars, workerVars, clientVars, linkVars, taskVars, WorkerHolds, Goto
<1>t. /\ inbox \in [Threads -> Seq(Tasks)] /\ futures \in [Threads -> Seq(Tasks)]
      /\ polling \in [Threads -> Seq(Tasks)] /\ wpc \in [Threads -> WorkerPCs]
      /\ got \in [Threads -> TaskStates] /\ lost \in [Threads -> Nat]
  BY DEF Books, TypeOK, WorkerTypeOK, LinkTypeOK
<1>1. CASE TakeTasks(w) \/ WorkerEnds(w) \/ WakeQueue(w) \/ RoundEnds(w) \/ Park(w)
  BY <1>1, <1>t DEF TakeTasks, WorkerEnds, WakeQueue, RoundEnds, Park
<1>2. CASE Join(w)
  BY <1>2, <1>t DEF Join, AtPoll
<1>3. CASE TakeResult(w)
  BY <1>3, <1>t DEF TakeResult, LoseWorker
<1>4. CASE MatchResult(w)
  BY <1>4, <1>t DEF MatchResult
<1>5. CASE BodyReturns(w)
  BY <1>5, <1>t DEF BodyReturns
<1>6. CASE BodyPanics(w)
  BY <1>6, <1>t DEF BodyPanics, LoseWorker
<1>7. CASE BodyPends(w)
  BY <1>7, <1>t DEF BodyPends, LoseWorker, PollsBody, AtPoll
<1>8. CASE Credit(w)
  BY <1>8, <1>t DEF Credit
<1>9. CASE Announce(w)
  BY <1>9, <1>t DEF Announce, SignalSemaphores
<1>10. CASE WakeTask(w)
  BY <1>10, <1>t DEF WakeTask
<1> QED
  BY <1>1, <1>2, <1>3, <1>4, <1>5, <1>6, <1>7, <1>8, <1>9, <1>10 DEF WorkerStep

LEMMA OtherEffects ==
  ASSUME OtherStep
  PROVE  /\ UNCHANGED <<queueVars, wpc, futures, polling, got, begun, lost, inbox, sem, done>>
         /\ \/ \E t \in MayCancel : state' = [state EXCEPT ![t] = "Cancelled"] /\ UNCHANGED tsig
            \/ \E t \in Watched : tsig' = [tsig EXCEPT ![t] = FALSE] /\ UNCHANGED state
            \/ UNCHANGED <<state, tsig>>
BY DEF OtherStep, Waken, Send, SendWake, Cancel, WaitForTask, DropQueue, Terminated, vars,
       queueVars, workerVars, clientVars, linkVars, taskVars

(* A final state is never left, and a verdict only changes by a cancel.    *)
StatesSettle ==
  \A t \in Tasks :
    /\ state[t] # "Pending" => state'[t] # "Pending"
    /\ Gone(t) => Gone(t)' /\ (state'[t] = state[t] \/ (t \in MayCancel /\ state'[t] = "Cancelled"))
    /\ state'[t] # state[t] => Gone(t)' \/ t \in MayCancel

LEMMA StatesOfQueue == ASSUME Books, OnePlace, QueueStep PROVE StatesSettle
<1>t. state \in [Tasks -> TaskStates]
  BY DEF Books, TypeOK, TaskTypeOK
<1>h. qpc \in QueueHolds => todo # <<>>
  BY DEF Books, Held
<1>f. \A w \in Threads : Ending(w)' = Ending(w) /\ Current(w)' = Current(w)
  BY QueueEffects DEF Ending, Current
<1>1. ASSUME NEW t \in Tasks, Gone(t) PROVE Gone(t)'
  <2>1. CASE t \in done
    BY <2>1, QueueMoves DEF NoneDropped, Gone
  <2>2. CASE qpc = "notify" /\ t = Head(todo)
    BY <2>2, QueueEffects DEF Gone, SignalSemaphores, QueueHolds
  <2>3. CASE \E w \in Threads : Ending(w) /\ t = Current(w)
    BY <1>f, <2>3 DEF Gone
  <2> QED
    BY <1>1, <2>1, <2>2, <2>3 DEF Gone
<1>2. CASE UNCHANGED state
  BY <1>1, <1>2 DEF StatesSettle
<1>3. ASSUME qpc \in {"panic", "cancelled?"}, qpc' = "notify", UNCHANGED todo,
             NEW s \in {"Panicked", "Cancelled"}, state' = [state EXCEPT ![Head(todo)] = s]
      PROVE  StatesSettle
  <2>1. /\ Head(todo) \in Tasks /\ Head(todo) \in Queued /\ Head(todo) \notin done
        /\ \A w \in Threads : Head(todo) \notin On(w)
    BY <1>3, <1>h, HeadPlace DEF QueueHolds
  <2>2. ~Gone(Head(todo))
    <3>1. \A w \in Threads : Ending(w) => Current(w) \in On(w)
      BY CurrentPlace DEF Ending, WorkerHolds
    <3> QED
      BY <1>3, <2>1, <3>1 DEF Gone
  <2>3. Gone(Head(todo))'
    BY <1>3 DEF Gone
  <2> QED
    BY <1>t, <1>1, <1>3, <2>1, <2>2, <2>3 DEF StatesSettle
<1> QED
  BY <1>2, <1>3, QueueEffects

LEMMA StatesOfWorkers ==
  ASSUME Books, OnePlace, NEW w \in Threads, WorkerStep(w) PROVE StatesSettle
<1>t. state \in [Tasks -> TaskStates]
  BY DEF Books, TypeOK, TaskTypeOK
<1>c. \A v \in Threads : Ending(v) => Current(v) \in On(v)
  BY CurrentPlace DEF Ending, WorkerHolds
<1>1. ASSUME NEW t \in Tasks, Gone(t) PROVE Gone(t)'
  <2>1. CASE t \in done
    BY <2>1, WorkerMoves DEF NoneDropped, Gone
  <2>2. CASE qpc = "notify" /\ t = Head(todo)
    BY <2>2, WorkerEffects DEF Gone, queueVars
  <2>3. ASSUME NEW v \in Threads, Ending(v), t = Current(v), v # w PROVE Gone(t)'
    BY <2>3, WorkerEffects DEF Gone, Ending, Current
  <2>4. CASE Ending(w) /\ t = Current(w)
    <3>1. wpc[w] \in {"credit", "announce"}
      BY <2>4 DEF Ending
    <3>2. \/ wpc'[w] = "announce" /\ UNCHANGED polling
          \/ SignalSemaphores(Current(w))
      BY <3>1, WorkerEffects DEF PollsBody, AtPoll, WorkerHolds
    <3> QED
      BY <2>4, <3>2 DEF Gone, Ending, Current, SignalSemaphores
  <2> QED
    BY <1>1, <2>1, <2>2, <2>3, <2>4 DEF Gone
<1>2. CASE UNCHANGED state
  BY <1>1, <1>2 DEF StatesSettle
<1>3. ASSUME wpc[w] \in {"take", "match"} \/ AtPoll(w), wpc'[w] \in {"credit", "announce"},
             UNCHANGED polling,
             NEW s \in TaskStates \ {"Pending"}, state' = [state EXCEPT ![Current(w)] = s]
      PROVE  StatesSettle
  <2>1. /\ Current(w) \in Tasks /\ Current(w) \in On(w) /\ Current(w) \notin Queued \cup done
        /\ \A v \in Threads \ {w} : Current(w) \notin On(v)
    BY <1>3, CurrentPlace DEF WorkerHolds, Waking, AtPoll
  <2>2. ~Gone(Current(w))
    <3>1. qpc = "notify" => Head(todo) \in Queued
      BY HeadPlace DEF Books, Held, QueueHolds
    <3>2. ~Ending(w)
      BY <1>3 DEF Ending, AtPoll
    <3> QED
      BY <1>c, <2>1, <3>1, <3>2 DEF Gone
  <2>3. Gone(Current(w))'
    BY <1>3 DEF Gone, Ending, Current
  <2>4. /\ \A t \in Tasks \ {Current(w)} : state'[t] = state[t]
        /\ state'[Current(w)] = s /\ s # "Pending"
    BY <1>t, <1>3, <2>1
  <2>5. Current(w)' = Current(w)
    BY <1>3 DEF Current
  <2>6. ASSUME NEW t \in Tasks
        PROVE  /\ state[t] # "Pending" => state'[t] # "Pending"
               /\ Gone(t) => Gone(t)' /\ (state'[t] = state[t] \/ (t \in MayCancel /\ state'[t] = "Cancelled"))
               /\ state'[t] # state[t] => Gone(t)' \/ t \in MayCancel
    <3>1. CASE t = Current(w)
      <4>1. Gone(t)' /\ ~Gone(t)
        BY <2>2, <2>3, <2>5, <3>1
      <4> QED
        BY <2>4, <3>1, <4>1
    <3>2. CASE t # Current(w)
      BY <1>1, <2>4, <3>2
    <3> QED
      BY <3>1, <3>2
  <2> QED
    BY <2>6 DEF StatesSettle
<1> QED
  BY <1>2, <1>3, WorkerEffects DEF PollsBody, TaskStates

LEMMA StatesOfOthers ==
  ASSUME Books, OnePlace, OtherStep PROVE StatesSettle
<1>t. state \in [Tasks -> TaskStates] /\ MayCancel \subseteq Tasks
  BY SchedulerAssumption DEF Books, TypeOK, TaskTypeOK
<1>1. \A t \in Tasks : Gone(t)' = Gone(t)
  BY OtherEffects DEF Gone, Ending, Current, queueVars
<1>2. UNCHANGED state \/ \E t \in MayCancel : state' = [state EXCEPT ![t] = "Cancelled"]
  BY OtherEffects
<1> QED
  BY <1>t, <1>1, <1>2 DEF StatesSettle

(* Tasks are announced for good; their verdicts settle.                    *)
LEMMA Progress ==
  ASSUME Books, OnePlace, [Next]_vars
  PROVE  OnePlace' /\ NoneDropped /\ StatesSettle
<1>1. CASE QueueStep
  BY <1>1, QueueMoves, StatesOfQueue
<1>2. CASE \E w \in Threads : WorkerStep(w)
  BY <1>2, WorkerMoves, StatesOfWorkers
<1>3. CASE OtherStep
  BY <1>3, OtherMoves, StatesOfOthers
<1> QED
  BY <1>1, <1>2, <1>3 DEF Next, OtherStep

(* Only a cancel changes the state of a task that has been announced:      *)
(* whoever joins a task or reads its result twice gets the same answer.    *)
THEOREM AnnouncementsAreFinal == Spec => AnnouncedIsFinal
<1>1. Books /\ OnePlace /\ [Next]_vars => [\A t \in done : state'[t] \in {state[t], "Cancelled"}]_vars
  <2> SUFFICES ASSUME Books, OnePlace, [Next]_vars, NEW t \in done
               PROVE  state'[t] \in {state[t], "Cancelled"}
    OBVIOUS
  <2>1. t \in Tasks /\ Gone(t)
    BY DEF Books, TypeOK, TaskTypeOK, Gone
  <2> QED
    BY <2>1, Progress DEF StatesSettle
<1> QED
  BY <1>1, BooksBalance, TasksInOnePlace, PTL DEF Spec, AnnouncedIsFinal

-----------------------------------------------------------------------------
(* The signals tell the truth: a semaphore is set only after a task bound  *)
(* to it was announced, the signal of a task only after itself.            *)
SignalsAreTrue ==
  /\ \A s \in Semaphores : sem[s] => \E u \in done : s \in Signals[u]
  /\ \A t \in Tasks : tsig[t] => t \in done

LEMMA SignalsStayTrue ==
  ASSUME Books, OnePlace, SignalsAreTrue, [Next]_vars PROVE SignalsAreTrue'
<1>t. sem \in [Semaphores -> BOOLEAN] /\ tsig \in [Tasks -> BOOLEAN]
  BY DEF Books, TypeOK, TaskTypeOK, LinkTypeOK
<1>1. ASSUME NEW t \in Tasks, SignalSemaphores(t)
      PROVE  \A s \in Semaphores : sem'[s] => \E u \in done' : s \in Signals[u]
  BY <1>1 DEF SignalSemaphores, SignalsAreTrue
<1>2. CASE QueueStep
  <2>1. qpc = "notify" => Head(todo) \in Tasks
    BY HeadPlace DEF Books, Held, QueueHolds
  <2>2. \/ UNCHANGED <<sem, done, tsig>>
        \/ /\ qpc = "notify" /\ SignalSemaphores(Head(todo))
           /\ tsig' = [tsig EXCEPT ![Head(todo)] = TRUE]
    BY <1>2, QueueEffects
  <2>3. CASE UNCHANGED <<sem, done, tsig>>
    BY <2>3 DEF SignalsAreTrue
  <2>4. CASE /\ qpc = "notify" /\ SignalSemaphores(Head(todo))
             /\ tsig' = [tsig EXCEPT ![Head(todo)] = TRUE]
    <3>1. \A s \in Semaphores : sem'[s] => \E u \in done' : s \in Signals[u]
      BY <1>1, <2>1, <2>4
    <3>2. \A t \in Tasks : tsig'[t] => t \in done'
      BY <1>t, <2>4 DEF SignalSemaphores, SignalsAreTrue
    <3> QED
      BY <3>1, <3>2 DEF SignalsAreTrue
  <2> QED
    BY <2>2, <2>3, <2>4
<1>3. ASSUME NEW w \in Threads, WorkerStep(w) PROVE SignalsAreTrue'
  <2>1. /\ wpc[w] \in WorkerHolds => Current(w) \in Tasks
        /\ wpc[w] = "wakeTask" => Current(w) \in done
    BY CurrentPlace DEF WorkerHolds, Waking
  <2>2. \/ UNCHANGED <<sem, done, tsig>>
        \/ \E t \in Tasks : tsig' = [tsig EXCEPT ![t] = FALSE] /\ UNCHANGED <<sem, done>>
        \/ tsig' = [tsig EXCEPT ![Current(w)] = TRUE] /\ wpc[w] = "wakeTask" /\ UNCHANGED <<sem, done>>
        \/ SignalSemaphores(Current(w)) /\ wpc[w] = "announce" /\ UNCHANGED tsig
    <3>1. AtPoll(w) /\ NeedsResult(Current(w)) => Pred[Current(w)] \in Tasks
      BY CurrentPlace, SchedulerAssumption DEF NeedsResult
    <3> QED
      BY <1>3, <3>1, WorkerEffects
  <2>3. CASE UNCHANGED <<sem, done, tsig>>
    BY <2>3 DEF SignalsAreTrue
  <2>4. CASE \E t \in Tasks : tsig' = [tsig EXCEPT ![t] = FALSE] /\ UNCHANGED <<sem, done>>
    BY <1>t, <2>4 DEF SignalsAreTrue
  <2>5. CASE tsig' = [tsig EXCEPT ![Current(w)] = TRUE] /\ wpc[w] = "wakeTask" /\ UNCHANGED <<sem, done>>
    BY <1>t, <2>1, <2>5 DEF SignalsAreTrue
  <2>6. CASE SignalSemaphores(Current(w)) /\ wpc[w] = "announce" /\ UNCHANGED tsig
    <3>1. \A s \in Semaphores : sem'[s] => \E u \in done' : s \in Signals[u]
      BY <1>1, <2>1, <2>6 DEF WorkerHolds
    <3> QED
      BY <2>6, <3>1 DEF SignalsAreTrue, SignalSemaphores
  <2> QED
    BY <2>2, <2>3, <2>4, <2>5, <2>6
<1>4. CASE OtherStep
  BY <1>4, <1>t, OtherEffects, SchedulerAssumption DEF SignalsAreTrue
<1> QED
  BY <1>2, <1>3, <1>4 DEF Next, OtherStep

(* A task on its way to a worker, on one, or announced had all it waits    *)
(* for: its semaphores were signalled and its predecessor was settled.     *)
Released(t) == \A s \in WaitOn[t] : \E u \in done : s \in Signals[u]
Cleared(t)  == Released(t) /\ PredState(t) # "Pending"

ClearedTasks ==
  /\ qpc \in QueueHolds => Cleared(Head(todo))
  /\ \A w \in Threads : \A t \in On(w) : Cleared(t)
  /\ \A t \in done : Cleared(t)

LEMMA TasksOnWorkers ==
  ASSUME Books, NEW w \in Threads PROVE On(w) \subseteq Tasks
<1>1. inbox[w] \in Seq(Tasks) /\ futures[w] \in Seq(Tasks) /\ polling[w] \in Seq(Tasks)
  BY DEF Books, TypeOK, WorkerTypeOK, LinkTypeOK
<1> QED
  BY <1>1 DEF On, Range

LEMMA ClearedStays ==
  ASSUME Books, OnePlace, [Next]_vars, NEW t \in Tasks, Cleared(t) PROVE Cleared(t)'
<1>1. Released(t)'
  BY Progress DEF Cleared, Released, NoneDropped
<1>2. PredState(t)' # "Pending"
  BY Progress, SchedulerAssumption DEF Cleared, PredState, StatesSettle
<1> QED
  BY <1>1, <1>2 DEF Cleared

LEMMA ClearedFirst ==
  ASSUME Books, OnePlace, SignalsAreTrue, ClearedTasks, [Next]_vars PROVE ClearedTasks'
<1>d. done \subseteq Tasks /\ done' \subseteq Tasks
  BY QueueActions, WorkerActions, OtherActions DEF Books, TypeOK, TaskTypeOK, Next, OtherStep
<1>1. CASE QueueStep
  <2>1. todo # <<>> => Head(todo) \in Tasks
    BY HeadPlace
  <2>2. ASSUME qpc' \in QueueHolds PROVE Cleared(Head(todo))'
    <3>1. UNCHANGED todo /\ (qpc \in QueueHolds \/ (todo # <<>> /\ CanExecute(Head(todo))))
      BY <1>1, <2>2, QueueEffects DEF QueueHolds
    <3>2. todo # <<>> /\ Head(todo) \in Tasks
      BY <2>1, <3>1 DEF Books, Held
    <3>3. Cleared(Head(todo))
      <4>1. CASE qpc \in QueueHolds
        BY <4>1 DEF ClearedTasks
      <4>2. CASE CanExecute(Head(todo))
        BY <3>2, <4>2, SchedulerAssumption DEF CanExecute, Cleared, Released, SignalsAreTrue
      <4> QED
        BY <3>1, <4>1, <4>2
    <3>4. PICK h \in Tasks : h = Head(todo)
      BY <3>2
    <3>5. Cleared(h)'
      BY <3>3, <3>4, ClearedStays
    <3> QED
      BY <3>1, <3>4, <3>5 DEF Cleared, Released, PredState
  <2>5. ASSUME NEW w \in Threads, NEW t \in On(w)' PROVE Cleared(t)'
    <3>1. t \in On(w) \/ (qpc = "dispatch" /\ t = Head(todo))
      BY <1>1, QueueMoves DEF Sent
    <3>2. t \in Tasks /\ Cleared(t)
      BY <2>1, <3>1, TasksOnWorkers DEF ClearedTasks, Books, Held, QueueHolds
    <3> QED
      BY <3>2, ClearedStays
  <2>6. ASSUME NEW t \in done' PROVE Cleared(t)'
    <3>1. t \in done \/ (qpc = "notify" /\ t = Head(todo))
      BY <1>1, QueueEffects DEF SignalSemaphores
    <3>2. t \in Tasks /\ Cleared(t)
      BY <1>d, <3>1 DEF ClearedTasks, QueueHolds
    <3> QED
      BY <3>2, ClearedStays
  <2> QED
    BY <2>2, <2>5, <2>6 DEF ClearedTasks
<1>2. CASE ~ QueueStep
  <2>1. UNCHANGED <<qpc, todo>>
    BY <1>2, WorkerEffects, OtherEffects DEF Next, OtherStep, queueVars
  <2>2. qpc \in QueueHolds => Head(todo) \in Tasks
    BY HeadPlace DEF Books, Held
  <2>3. ASSUME NEW w \in Threads, NEW t \in On(w)' PROVE Cleared(t)'
    <3>1. t \in On(w)
      BY <1>2, WorkerMoves, OtherMoves DEF Next, OtherStep, NothingSent
    <3>2. t \in Tasks /\ Cleared(t)
      BY <3>1, TasksOnWorkers DEF ClearedTasks
    <3> QED
      BY <3>2, ClearedStays
  <2>4. ASSUME NEW t \in done' PROVE Cleared(t)'
    <3>1. t \in done \/ \E w \in Threads : t \in On(w)
      <4>1. CASE \E w \in Threads : WorkerStep(w)
        <5>1. PICK w \in Threads : WorkerStep(w)
          BY <4>1
        <5>2. done' = done \/ (wpc[w] = "announce" /\ done' = done \cup {Current(w)})
          BY <5>1, WorkerEffects DEF SignalSemaphores
        <5>3. wpc[w] = "announce" => Current(w) \in On(w)
          BY CurrentPlace DEF WorkerHolds
        <5> QED
          BY <5>2, <5>3
      <4>2. CASE OtherStep
        BY <4>2, OtherEffects
      <4> QED
        BY <1>2, <4>1, <4>2 DEF Next, OtherStep
    <3>2. t \in Tasks /\ Cleared(t)
      BY <1>d, <3>1 DEF ClearedTasks
    <3> QED
      BY <3>2, ClearedStays
  <2>5. ASSUME qpc' \in QueueHolds PROVE Cleared(Head(todo))'
    <3>1. PICK h \in Tasks : h = Head(todo)
      BY <2>1, <2>2, <2>5
    <3>2. Cleared(h)'
      BY <2>1, <2>5, <3>1, ClearedStays DEF ClearedTasks
    <3> QED
      BY <2>1, <3>1, <3>2 DEF Cleared, Released, PredState
  <2> QED
    BY <2>3, <2>4, <2>5 DEF ClearedTasks
<1> QED
  BY <1>1, <1>2

(* A worker thread that joins a predecessor has seen its signal, and both  *)
(* reads of its state agree, but for a cancel.                             *)
Joined(w) ==
  /\ wpc[w] \in {"take", "match"} => NeedsResult(Current(w)) /\ Pred[Current(w)] \in done
  /\ wpc[w] = "match" => got[w] # "Pending" /\ PredState(Current(w)) \in {got[w], "Cancelled"}

JoinedTasks == \A w \in Threads : Joined(w)

LEMMA JoinedStays ==
  ASSUME Books, OnePlace, [Next]_vars, NEW w \in Threads, Joined(w),
         UNCHANGED <<wpc[w], polling[w], got[w]>>,
         wpc[w] \in {"take", "match"} => Current(w) \notin begun'
  PROVE  Joined(w)'
<1> SUFFICES ASSUME wpc[w] \in {"take", "match"} PROVE Joined(w)'
  BY DEF Joined
<1>1. PICK t \in Tasks : t = Current(w)
  BY CurrentPlace DEF WorkerHolds
<1>2. NeedsResult(t)' /\ Current(w)' = t
  BY <1>1 DEF NeedsResult, Joined, Current
<1>3. Pred[t] \in Tasks /\ Pred[t] \in done /\ Pred[t] \in done'
  BY <1>1, Progress DEF Joined, NoneDropped, Books, TypeOK, TaskTypeOK
<1>4. PredState(t)' \in {PredState(t), "Cancelled"}
  BY <1>2, <1>3, Progress DEF PredState, NeedsResult, StatesSettle, Gone
<1>5. wpc[w] = "match" => got[w] # "Pending" /\ PredState(t) \in {got[w], "Cancelled"}
  BY <1>1 DEF Joined
<1>6. wpc'[w] = "match" => got'[w] # "Pending" /\ PredState(Current(w))' \in {got'[w], "Cancelled"}
  BY <1>2, <1>4, <1>5 DEF PredState
<1> QED
  BY <1>2, <1>3, <1>6 DEF Joined, NeedsResult

LEMMA JoinedSafely ==
  ASSUME Books, OnePlace, SignalsAreTrue, JoinedTasks, [Next]_vars PROVE JoinedTasks'
<1>b. \A w \in Threads : wpc[w] \in {"take", "match"} => Current(w) \notin begun
  BY DEF JoinedTasks, Joined, NeedsResult
<1>1. CASE QueueStep
  BY <1>1, <1>b, QueueEffects, JoinedStays DEF JoinedTasks
<1>2. CASE OtherStep
  BY <1>2, <1>b, OtherEffects, JoinedStays DEF JoinedTasks
<1>3. ASSUME NEW w \in Threads, WorkerStep(w) PROVE JoinedTasks'
  <2>1. ASSUME NEW v \in Threads \ {w} PROVE Joined(v)'
    <3>1. UNCHANGED <<wpc[v], polling[v], got[v]>>
      BY <1>3, WorkerEffects
    <3>2. \/ begun' = begun
          \/ (AtPoll(w) \/ wpc[w] = "match") /\ begun' = begun \cup {Current(w)}
      BY <1>3, WorkerEffects DEF PollsBody
    <3>3. wpc[v] \in {"take", "match"} /\ (AtPoll(w) \/ wpc[w] = "match") => Current(v) # Current(w)
      BY CurrentPlace DEF WorkerHolds
    <3> QED
      BY <1>b, <3>1, <3>2, <3>3, JoinedStays DEF JoinedTasks
  <2>2. Joined(w)'
    <3>1. CASE /\ AtPoll(w) /\ NeedsResult(Current(w)) /\ tsig[Pred[Current(w)]]
               /\ wpc'[w] = "take" /\ UNCHANGED <<polling, state, sem, done, begun>>
      <4>1. Pred[Current(w)] \in Tasks
        BY <3>1, CurrentPlace, SchedulerAssumption DEF NeedsResult
      <4> QED
        BY <3>1, <4>1 DEF SignalsAreTrue, Joined, NeedsResult, Current
    <3>2. CASE /\ wpc[w] = "take" /\ PredState(Current(w)) # "Pending"
               /\ got'[w] = PredState(Current(w))
               /\ wpc'[w] = "match" /\ UNCHANGED <<polling, state, sem, done, tsig, begun>>
      BY <3>2 DEF JoinedTasks, Joined, NeedsResult, Current, PredState
    <3>3. CASE wpc'[w] \notin {"take", "match"}
      BY <3>3 DEF Joined
    <3> QED
      BY <1>3, <3>1, <3>2, <3>3, WorkerEffects DEF WorkerHolds
  <2> QED
    BY <2>1, <2>2 DEF JoinedTasks
<1> QED
  BY <1>1, <1>2, <1>3 DEF Next, OtherStep

(* The function of a continuation is called after its predecessor was      *)
(* announced, and by the thread that has the task.                         *)
BegunTasks ==
  \A t \in begun : /\ Pred[t] # NoTask => Pred[t] \in done
                   /\ t \in done \/ \E w \in Threads : t \in On(w)

LEMMA BegunInTurn ==
  ASSUME Books, OnePlace, JoinedTasks, BegunTasks, [Next]_vars PROVE BegunTasks'
<1>1. ASSUME NEW t \in begun, t \in begun'
      PROVE  /\ Pred[t] # NoTask => Pred[t] \in done'
             /\ t \in done' \/ \E w \in Threads : t \in On(w)'
  BY Progress DEF BegunTasks, NoneDropped
<1>2. CASE UNCHANGED begun
  BY <1>1, <1>2 DEF BegunTasks
<1>3. ASSUME NEW w \in Threads, WorkerStep(w), begun' # begun PROVE BegunTasks'
  <2>1. /\ begun' = begun \cup {Current(w)}
        /\ wpc[w] = "match" \/ (AtPoll(w) /\ ~NeedsResult(Current(w)))
    BY <1>3, WorkerEffects DEF PollsBody
  <2>2. PICK t \in Tasks : t = Current(w) /\ t \in On(w)
    BY <2>1, CurrentPlace DEF WorkerHolds
  <2>3. Pred[t] # NoTask => Pred[t] \in done
    BY <2>1, <2>2 DEF JoinedTasks, Joined, BegunTasks, NeedsResult
  <2>4. /\ Pred[t] # NoTask => Pred[t] \in done'
        /\ t \in done' \/ \E v \in Threads : t \in On(v)'
    BY <2>2, <2>3, Progress DEF NoneDropped
  <2> QED
    BY <1>1, <2>1, <2>2, <2>4 DEF BegunTasks
<1> QED
  BY <1>2, <1>3, QueueEffects, OtherEffects DEF Next, OtherStep

(* A verdict is reached before the task is announced, and, if nobody may   *)
(* cancel the task, not before its function is over.                       *)
Settled     == \A t \in Tasks : Gone(t) => state[t] # "Pending"
SettledOnce == \A t \in Tasks \ MayCancel : state[t] # "Pending" => Gone(t)

LEMMA SettledInTime ==
  ASSUME Books, OnePlace, JoinedTasks, Settled, [Next]_vars PROVE Settled'
<1>t. state \in [Tasks -> TaskStates]
  BY DEF Books, TypeOK, TaskTypeOK
<1> SUFFICES ASSUME NEW t \in Tasks, Gone(t)', ~Gone(t) PROVE state'[t] # "Pending"
  BY Progress DEF Settled, StatesSettle
<1>1. CASE QueueStep
  <2>1. t \notin done' \/ t \in done
    BY <1>1, QueueEffects DEF Gone, SignalSemaphores
  <2>2. \A w \in Threads : Ending(w)' = Ending(w) /\ Current(w)' = Current(w)
    BY <1>1, QueueEffects DEF Ending, Current
  <2>3. qpc' = "notify" /\ t = Head(todo')
    BY <2>1, <2>2 DEF Gone
  <2> QED
    BY <1>t, <1>1, <2>3, QueueEffects DEF QueueHolds
<1>2. ASSUME NEW w \in Threads, WorkerStep(w) PROVE state'[t] # "Pending"
  <2>1. UNCHANGED <<qpc, todo>>
    BY <1>2, WorkerEffects DEF queueVars
  <2>2. \A v \in Threads \ {w} : Ending(v)' = Ending(v) /\ Current(v)' = Current(v)
    BY <1>2, WorkerEffects DEF Ending, Current
  <2>3. done' = done \/ (Ending(w) /\ done' = done \cup {Current(w)})
    BY <1>2, WorkerEffects DEF SignalSemaphores, Ending
  <2>4. Ending(w)' /\ t = Current(w)'
    BY <2>1, <2>2, <2>3 DEF Gone
  <2>5. ~ (wpc[w] = "credit" /\ UNCHANGED polling)
    BY <2>4 DEF Gone, Ending, Current
  <2>6. ~ (wpc[w] = "match" /\ PredState(Current(w)) = "Ready" /\ got[w] # "Ready")
    BY DEF JoinedTasks, Joined
  <2>7. /\ wpc'[w] \in {"credit", "announce"} /\ UNCHANGED polling
        /\ \/ \E s \in TaskStates \ {"Pending"} : state' = [state EXCEPT ![Current(w)] = s]
           \/ UNCHANGED state /\ state[Current(w)] = "Cancelled"
    BY <1>2, <2>4, <2>5, <2>6, WorkerEffects DEF Ending, TaskStates, WorkerHolds
  <2> QED
    BY <1>t, <2>4, <2>7 DEF Current
<1>3. CASE OtherStep
  BY <1>3, OtherEffects DEF Gone, Ending, Current, queueVars
<1> QED
  BY <1>1, <1>2, <1>3 DEF Next, OtherStep

LEMMA NotSettledEarly ==
  ASSUME Books, OnePlace, SettledOnce, [Next]_vars PROVE SettledOnce'
BY Progress DEF SettledOnce, StatesSettle

(* A continuation of a panicked task that nobody may cancel panics as      *)
(* well, and its function is not called; functions that were called had a  *)
(* predecessor that went well.                                             *)
Fails(t) == Pred[t] # NoTask /\ Pred[t] \notin MayCancel /\ state[Pred[t]] = "Panicked"

Verdicts ==
  /\ qpc = "cancelled?" => ~Fails(Head(todo))
  /\ \A t \in begun : Pred[t] # NoTask /\ Pred[t] \notin MayCancel => state[Pred[t]] = "Ready"
  /\ \A t \in Tasks \ MayCancel : Gone(t) /\ Fails(t) => state[t] = "Panicked" /\ t \notin begun

Results == /\ SignalsAreTrue /\ ClearedTasks /\ JoinedTasks /\ BegunTasks
           /\ Settled /\ SettledOnce /\ Verdicts

LEMMA PredecessorIsFixed ==
  ASSUME Books, OnePlace, SettledOnce, [Next]_vars,
         NEW t \in Tasks, Cleared(t), Pred[t] # NoTask, Pred[t] \notin MayCancel
  PROVE  state'[Pred[t]] = state[Pred[t]]
<1>1. Pred[t] \in Tasks /\ state[Pred[t]] # "Pending"
  BY SchedulerAssumption DEF Cleared, PredState
<1> QED
  BY <1>1, Progress DEF SettledOnce, StatesSettle

LEMMA GoneIsCleared ==
  ASSUME Books, OnePlace, ClearedTasks, NEW t \in Tasks, Gone(t) PROVE Cleared(t)
<1>1. \A w \in Threads : Ending(w) => Current(w) \in On(w)
  BY CurrentPlace DEF Ending, WorkerHolds
<1> QED
  BY <1>1 DEF ClearedTasks, Gone, QueueHolds

LEMMA CurrentIsNotGone ==
  ASSUME Books, OnePlace, NEW w \in Threads, wpc[w] \in {"take", "match"} \/ AtPoll(w)
  PROVE  ~Gone(Current(w))
<1>1. /\ Current(w) \notin Queued \cup done
      /\ \A v \in Threads \ {w} : Current(w) \notin On(v)
  BY CurrentPlace DEF WorkerHolds, Waking, AtPoll
<1>2. \A v \in Threads : Ending(v) => Current(v) \in On(v)
  BY CurrentPlace DEF Ending, WorkerHolds
<1>3. qpc = "notify" => Head(todo) \in Queued
  BY HeadPlace DEF Books, Held, QueueHolds
<1>4. ~Ending(w)
  BY DEF Ending, AtPoll
<1> QED
  BY <1>1, <1>2, <1>3, <1>4 DEF Gone

LEMMA HeadVerdict ==
  ASSUME Books, OnePlace, Results, [Next]_vars, qpc' = "cancelled?" PROVE ~Fails(Head(todo))'
<1>1. /\ qpc \in {"panicked?", "cancelled?"} /\ UNCHANGED todo
      /\ qpc = "panicked?" => PredState(Head(todo)) # "Panicked"
  BY QueueEffects, WorkerEffects, OtherEffects DEF Next, OtherStep, queueVars, QueueHolds
<1>2. Head(todo) \in Tasks /\ Cleared(Head(todo)) /\ ~Fails(Head(todo))
  BY <1>1, HeadPlace DEF Books, Held, QueueHolds, Results, ClearedTasks, Verdicts, Fails, PredState
<1> QED
  BY <1>1, <1>2, PredecessorIsFixed DEF Fails, Results

LEMMA BegunVerdict ==
  ASSUME Books, OnePlace, Results, [Next]_vars,
         NEW t \in begun', Pred[t] # NoTask, Pred[t] \notin MayCancel
  PROVE  state'[Pred[t]] = "Ready"
<1>1. CASE t \in begun
  <2>1. Pred[t] \in Tasks /\ Pred[t] \in done
    BY <1>1 DEF Results, BegunTasks, Books, TypeOK, TaskTypeOK
  <2>2. state'[Pred[t]] = state[Pred[t]]
    BY <2>1, Progress DEF StatesSettle, Gone
  <2> QED
    BY <1>1, <2>2 DEF Results, Verdicts
<1>2. CASE t \notin begun
  <2>1. PICK w \in Threads : WorkerStep(w)
    BY <1>2, QueueEffects, OtherEffects DEF Next, OtherStep
  <2>2. \/ wpc[w] = "match" /\ PredState(t) = "Ready" /\ UNCHANGED state
        \/ PollsBody(w) /\ t = Current(w)
    BY <1>2, <2>1, WorkerEffects DEF PollsBody
  <2> QED
    BY <1>2, <2>2 DEF PredState, PollsBody, NeedsResult
<1> QED
  BY <1>1, <1>2

LEMMA GoneVerdict ==
  ASSUME Books, OnePlace, Results, [Next]_vars,
         NEW t \in Tasks \ MayCancel, Gone(t)', Fails(t)'
  PROVE  state'[t] = "Panicked" /\ t \notin begun'
<1>c. Cleared(t) => Fails(t)
  BY PredecessorIsFixed DEF Fails, Results
<1>b. begun' = begun \/ \E w \in Threads :
        (wpc[w] = "match" \/ AtPoll(w)) /\ begun' = begun \cup {Current(w)}
  BY QueueEffects, WorkerEffects, OtherEffects DEF Next, OtherStep, PollsBody
<1>1. CASE Gone(t)
  <2>1. state[t] = "Panicked" /\ t \notin begun /\ state'[t] = state[t]
    BY <1>1, <1>c, GoneIsCleared, Progress DEF Results, Verdicts, StatesSettle
  <2> QED
    BY <1>1, <1>b, <2>1, CurrentIsNotGone
<1>2. CASE ~Gone(t) /\ QueueStep
  <2>1. t \notin done' \/ t \in done
    BY <1>2, QueueEffects DEF Gone, SignalSemaphores
  <2>2. \A w \in Threads : Ending(w)' = Ending(w) /\ Current(w)' = Current(w)
    BY <1>2, QueueEffects DEF Ending, Current
  <2>3. qpc' = "notify" /\ t = Head(todo')
    BY <1>2, <2>1, <2>2 DEF Gone
  <2>4. /\ qpc \in {"panic", "cancelled?"} /\ UNCHANGED <<todo, begun>>
        /\ qpc = "panic" => state' = [state EXCEPT ![Head(todo)] = "Panicked"]
    BY <1>2, <2>3, QueueEffects DEF QueueHolds
  <2>5. /\ t = Head(todo) /\ Cleared(t) /\ t \notin done
        /\ \A w \in Threads : t \notin On(w)
    BY <2>3, <2>4, HeadPlace DEF Books, Held, QueueHolds, Results, ClearedTasks
  <2>6. qpc = "panic"
    BY <1>c, <2>4, <2>5 DEF Results, Verdicts
  <2>7. state \in [Tasks -> TaskStates] /\ t \notin begun
    BY <2>5 DEF Books, TypeOK, TaskTypeOK, Results, BegunTasks
  <2> QED
    BY <2>4, <2>5, <2>6, <2>7
<1>3. ASSUME ~Gone(t), NEW w \in Threads, WorkerStep(w)
      PROVE  state'[t] = "Panicked" /\ t \notin begun'
  <2>1. UNCHANGED <<qpc, todo>>
    BY <1>3, WorkerEffects DEF queueVars
  <2>2. \A v \in Threads \ {w} : Ending(v)' = Ending(v) /\ Current(v)' = Current(v)
    BY <1>3, WorkerEffects DEF Ending, Current
  <2>3. done' = done \/ (Ending(w) /\ done' = done \cup {Current(w)})
    BY <1>3, WorkerEffects DEF SignalSemaphores, Ending
  <2>4. Ending(w)' /\ t = Current(w)'
    BY <1>3, <2>1, <2>2, <2>3 DEF Gone
  <2>5. ~ (wpc[w] = "credit" /\ UNCHANGED polling)
    BY <1>3, <2>4 DEF Gone, Ending, Current
  <2>6. /\ wpc[w] \in {"take", "match"} \/ PollsBody(w)
        /\ t = Current(w)
    BY <1>3, <2>4, <2>5, WorkerEffects DEF Ending, WorkerHolds, Current
  <2>7. Cleared(t) /\ Fails(t)
    BY <1>c, <2>6, CurrentPlace DEF Results, ClearedTasks, WorkerHolds, PollsBody
  <2>8. PredState(t) = "Panicked" /\ t \notin begun
    BY <2>7 DEF Fails, PredState, Results, Verdicts
  <2>9. wpc[w] = "match"
    <3>1. ~PollsBody(w)
      BY <2>6, <2>7, <2>8 DEF PollsBody, NeedsResult, Fails
    <3>2. wpc[w] # "take"
      BY <1>3, <2>4, <2>6, <2>8, <3>1, WorkerEffects DEF Ending, AtPoll, WorkerHolds
    <3> QED
      BY <2>6, <3>1, <3>2
  <2>10. state' = [state EXCEPT ![t] = "Panicked"] /\ UNCHANGED begun
    BY <1>3, <2>6, <2>8, <2>9, WorkerEffects DEF AtPoll, PollsBody, WorkerHolds
  <2> QED
    BY <2>8, <2>10 DEF Books, TypeOK, TaskTypeOK
<1>4. CASE ~Gone(t) /\ OtherStep
  BY <1>4, OtherEffects DEF Gone, Ending, Current, queueVars
<1> QED
  BY <1>1, <1>2, <1>3, <1>4 DEF Next, OtherStep

(* Signals tell the truth, and what was found out about a task and its     *)
(* predecessor stays true until the task is announced.                     *)
THEOREM ResultsAreKept == Spec => []Results
<1>1. Init => Results
  <2> SUFFICES ASSUME Init PROVE Results
    OBVIOUS
  <2>1. /\ done = {} /\ begun = {} /\ qpc = "top" /\ todo = <<>>
        /\ sem = [s \in Semaphores |-> FALSE] /\ tsig = [t \in Tasks |-> FALSE]
        /\ state = [t \in Tasks |-> "Pending"]
        /\ \A w \in Threads : wpc[w] = "top" /\ inbox[w] = <<>> /\ futures[w] = <<>> /\ polling[w] = <<>>
    BY DEF Init, QueueInit, WorkerInit, TaskInit
  <2>2. \A w \in Threads : On(w) = {}
    BY <2>1, RangeOfNone DEF On
  <2>3. \A t \in Tasks : ~Gone(t)
    BY <2>1 DEF Gone, Ending
  <2> QED
    BY <2>1, <2>2, <2>3 DEF Results, SignalsAreTrue, ClearedTasks, JoinedTasks, Joined, BegunTasks,
                            Settled, SettledOnce, Verdicts, QueueHolds
<1>2. Books /\ OnePlace /\ Results /\ [Next]_vars => Results'
  <2> SUFFICES ASSUME Books, OnePlace, Results, [Next]_vars PROVE Results'
    OBVIOUS
  <2>1. SignalsAreTrue' /\ ClearedTasks' /\ JoinedTasks' /\ BegunTasks'
    BY SignalsStayTrue, ClearedFirst, JoinedSafely, BegunInTurn DEF Results
  <2>2. Settled' /\ SettledOnce'
    BY SettledInTime, NotSettledEarly DEF Results
  <2>3. Verdicts'
    BY HeadVerdict, BegunVerdict, GoneVerdict DEF Verdicts
  <2> QED
    BY <2>1, <2>2, <2>3 DEF Results
<1> QED
  BY <1>1, <1>2, BooksBalance, TasksInOnePlace, PTL DEF Spec

(* The worker thread's lists, joined, hold the tasks on it.                *)
LEMMA ListsJoined ==
  ASSUME Books, NEW w \in Threads PROVE Range(inbox[w] \o futures[w] \o polling[w]) = On(w)
<1>1. inbox[w] \in Seq(Tasks) /\ futures[w] \in Seq(Tasks) /\ polling[w] \in Seq(Tasks)
  BY DEF Books, TypeOK, WorkerTypeOK, LinkTypeOK
<1>2. inbox[w] \o futures[w] \in Seq(Tasks) /\ Range(inbox[w] \o futures[w]) = Range(inbox[w]) \cup Range(futures[w])
  BY <1>1, RangeOfJoin
<1>3. ASSUME NEW r \in Seq(Tasks), r = inbox[w] \o futures[w]
      PROVE  Range(r \o polling[w]) = Range(r) \cup Range(polling[w])
  BY <1>1, RangeOfJoin
<1> QED
  BY <1>2, <1>3 DEF On

(* "Tasks that require other tasks to finish will not be popped until they *)
(* are ready" (Queue): every task on a worker thread has the semaphores it *)
(* waits for signalled by announced tasks, every continuation whose        *)
(* function was called has its predecessor announced.                      *)
THEOREM DependenciesAreRespected == Spec => []DependenciesRespected
<1>1. Books /\ Results => DependenciesRespected
  BY ListsJoined DEF Results, ClearedTasks, Cleared, Released, BegunTasks, DependenciesRespected, OnWorker
<1> QED
  BY <1>1, BooksBalance, ResultsAreKept, PTL

(* No task is announced while its state is Pending: TaskHandle::wait never *)
(* reaches "Function finished but is still pending!".                      *)
THEOREM AnnouncedResultsAreSettled == Spec => []ResultsAreSettled
<1>1. Books /\ Results => ResultsAreSettled
  BY DEF Books, TypeOK, TaskTypeOK, Results, Settled, Gone, ResultsAreSettled
<1> QED
  BY <1>1, BooksBalance, ResultsAreKept, PTL

(* A panic is passed on along a chain of continuations, none of whose      *)
(* functions is called.                                                    *)
THEOREM PanicsArePassedOn == Spec => []PanicsPropagate
<1>1. Books /\ Results => PanicsPropagate
  BY DEF Books, TypeOK, TaskTypeOK, Results, Verdicts, Fails, Gone, PanicsPropagate
<1> QED
  BY <1>1, BooksBalance, ResultsAreKept, PTL

-----------------------------------------------------------------------------
(* Wishes are forgotten only when no thread meets them, the preferred      *)
(* label before the excluded ones.                                         *)
WishesKept ==
  \A t \in Tasks :
    /\ \/ pref[t] = Preferred[t]
       \/ pref[t] = NoLabel /\ \A w \in Threads : Label[w] # Preferred[t]
    /\ \/ notOn[t] = NotOn[t]
       \/ notOn[t] = {} /\ pref[t] = NoLabel /\ \A w \in Threads : Label[w] \in NotOn[t]

Placed(t, w) ==
  IF \E v \in Threads : Preferred[t] # NoLabel /\ Label[v] = Preferred[t]
  THEN Label[w] = Preferred[t] /\ \A v \in 1 .. w - 1 : Label[v] # Preferred[t]
  ELSE Label[w] \notin NotOn[t] \/ \A v \in Threads : Label[v] \in NotOn[t]

Targeted    == qpc = "dispatch" => target \in Allowed(Head(todo))
PlacedTasks == \A w \in Threads : \A t \in On(w) : Placed(t, w)

Wishes == WishesKept /\ Targeted /\ PlacedTasks

LEMMA NobodyMeets ==
  ASSUME WishesKept, NEW t \in Tasks, Allowed(t) = {}
  PROVE  /\ pref[t] # NoLabel => \A w \in Threads : Label[w] # pref[t]
         /\ pref[t] = NoLabel => \A w \in Threads : Label[w] # NoLabel /\ Label[w] \in NotOn[t]
         /\ ~Placeable(t)
<1>1. ASSUME pref[t] # NoLabel PROVE \A w \in Threads : Label[w] # pref[t]
  <2> DEFINE S == {w \in Threads : Label[w] = pref[t]}
  <2>1. ASSUME S # {} PROVE FALSE
    <3>1. PICK m \in S : \A n \in S : m <= n
      <4>1. S \subseteq Nat
        BY SchedulerAssumption DEF Threads
      <4> HIDE DEF S
      <4> QED
        BY <2>1, <4>1, LeastNumber
    <3>2. \A v \in 1 .. m - 1 : v \in Threads /\ v \notin S
      BY <3>1, SchedulerAssumption DEF Threads
    <3> QED
      BY <1>1, <3>1, <3>2 DEF Allowed
  <2> QED
    BY <2>1
<1>2. ASSUME pref[t] = NoLabel
      PROVE  \A w \in Threads : Label[w] # NoLabel /\ Label[w] \in NotOn[t]
  <2>1. \A w \in Threads : Label[w] # NoLabel /\ Label[w] \in notOn[t]
    BY <1>2 DEF Allowed
  <2>2. 1 \in Threads
    BY SchedulerAssumption DEF Threads
  <2> QED
    BY <2>1, <2>2 DEF WishesKept
<1>3. ~Placeable(t)
  BY <1>1, <1>2 DEF WishesKept, Placeable
<1> QED
  BY <1>1, <1>2, <1>3

LEMMA AllowedIsPlaced ==
  ASSUME WishesKept, NEW t \in Tasks, NEW w \in Allowed(t) PROVE Placed(t, w)
<1>1. w \in Threads
  BY DEF Allowed
<1>2. CASE pref[t] # NoLabel
  <2>1. pref[t] = Preferred[t] /\ Label[w] = pref[t] /\ \A v \in 1 .. w - 1 : Label[v] # pref[t]
    BY <1>2 DEF WishesKept, Allowed
  <2> QED
    BY <1>1, <1>2, <2>1 DEF Placed
<1>3. CASE pref[t] = NoLabel
  <2>1. ~ \E v \in Threads : Preferred[t] # NoLabel /\ Label[v] = Preferred[t]
    BY <1>3 DEF WishesKept
  <2>2. Label[w] = NoLabel \/ Label[w] \notin notOn[t]
    BY <1>3 DEF Allowed
  <2>3. Label[w] \notin NotOn[t] \/ \A v \in Threads : Label[v] \in NotOn[t]
    BY <2>2, SchedulerAssumption DEF WishesKept
  <2> QED
    BY <2>1, <2>3 DEF Placed
<1> QED
  BY <1>2, <1>3

(* What the actors do to wishes and counters.                              *)
LEMMA NoOtherWishes ==
  ASSUME Books, [Next]_vars, ~QueueStep
  PROVE  /\ UNCHANGED queueVars
         /\ UNCHANGED free \/ \E w \in Threads : wpc[w] = "credit" /\ WorkerStep(w)
<1>1. ASSUME NEW w \in Threads, WorkerStep(w)
      PROVE  UNCHANGED queueVars /\ (UNCHANGED free \/ wpc[w] = "credit")
  BY <1>1 DEF WorkerStep, TakeTasks, WorkerEnds, Join, TakeResult, MatchResult, BodyReturns,
     BodyPanics, BodyPends, Credit, Announce, WakeTask, WakeQueue, RoundEnds, Park, linkVars
<1>2. CASE OtherStep
  BY <1>2 DEF OtherStep, Waken, Send, SendWake, Cancel, WaitForTask, DropQueue, Terminated, vars,
     queueVars, workerVars, clientVars, linkVars, taskVars
<1> QED
  BY <1>1, <1>2 DEF Next, OtherStep

LEMMA QueueWishes ==
  ASSUME QueueStep
  PROVE  \/ UNCHANGED <<pref, notOn>>
         \/ /\ qpc = "select" /\ Allowed(Head(todo)) = {} /\ KeepHead
            /\ IF pref[Head(todo)] # NoLabel
               THEN pref' = [pref EXCEPT ![Head(todo)] = NoLabel] /\ UNCHANGED notOn
               ELSE notOn' = [notOn EXCEPT ![Head(todo)] = {}] /\ UNCHANGED pref
BY DEF QueueStep, Receive, Shutdown, Drain, Examine, CheckPanicked, GetPanic, CheckCancelled,
       Notify, Select, Dispatch, Debit, Poke, PassEnds, QueueWaits, queueVars

LEMMA WishesStay ==
  ASSUME Books, OnePlace, Wishes, [Next]_vars PROVE Wishes'
<1>d. DOMAIN pref = Tasks /\ DOMAIN notOn = Tasks
  BY DEF Books, TypeOK, QueueTypeOK
<1>1. WishesKept'
  <2>1. CASE UNCHANGED <<pref, notOn>>
    BY <2>1 DEF Wishes, WishesKept
  <2>2. ASSUME /\ qpc = "select" /\ Allowed(Head(todo)) = {}
               /\ IF pref[Head(todo)] # NoLabel
                  THEN pref' = [pref EXCEPT ![Head(todo)] = NoLabel] /\ UNCHANGED notOn
                  ELSE notOn' = [notOn EXCEPT ![Head(todo)] = {}] /\ UNCHANGED pref
        PROVE  WishesKept'
    <3>1. PICK h \in Tasks : h = Head(todo)
      BY <2>2, HeadPlace DEF Books, Held, QueueHolds
    <3>2. CASE pref[h] # NoLabel
      <4>1. pref' = [pref EXCEPT ![h] = NoLabel] /\ UNCHANGED notOn
        BY <2>2, <3>1, <3>2
      <4>2. pref[h] = Preferred[h] /\ notOn[h] = NotOn[h] /\ \A w \in Threads : Label[w] # Preferred[h]
        BY <2>2, <3>1, <3>2, NobodyMeets DEF Wishes, WishesKept
      <4> QED
        BY <1>d, <4>1, <4>2 DEF Wishes, WishesKept
    <3>3. CASE pref[h] = NoLabel
      <4>1. notOn' = [notOn EXCEPT ![h] = {}] /\ UNCHANGED pref
        BY <2>2, <3>1, <3>3
      <4>2. \A w \in Threads : Label[w] \in NotOn[h]
        BY <2>2, <3>1, <3>3, NobodyMeets DEF Wishes
      <4> QED
        BY <1>d, <3>3, <4>1, <4>2 DEF Wishes, WishesKept
    <3> QED
      BY <3>2, <3>3
  <2> QED
    BY <2>1, <2>2, QueueWishes, NoOtherWishes DEF queueVars
<1>2. Targeted'
  <2>1. CASE QueueStep
    <3>1. ASSUME qpc' = "dispatch"
          PROVE  target' \in Allowed(Head(todo)) /\ UNCHANGED <<todo, pref, notOn>>
      BY <2>1, <3>1 DEF QueueStep, Receive, Shutdown, Drain, Examine, CheckPanicked, GetPanic,
         CheckCancelled, Notify, Select, Dispatch, Debit, Poke, PassEnds, QueueWaits, KeepHead, Best
    <3> QED
      BY <3>1 DEF Targeted, Allowed
  <2>2. CASE ~QueueStep
    BY <2>2, NoOtherWishes DEF Wishes, Targeted, Allowed, queueVars
  <2> QED
    BY <2>1, <2>2
<1>3. PlacedTasks'
  <2>1. CASE QueueStep
    <3> SUFFICES ASSUME NEW w \in Threads, NEW t \in On(w)', t \notin On(w) PROVE Placed(t, w)
      BY DEF Wishes, PlacedTasks, Placed
    <3>1. qpc = "dispatch" /\ w = target /\ t = Head(todo)
      BY <2>1, QueueMoves DEF Sent
    <3>2. t \in Tasks /\ w \in Allowed(t)
      BY <3>1, HeadPlace DEF Wishes, Targeted, Books, Held, QueueHolds
    <3> QED
      BY <3>2, AllowedIsPlaced DEF Wishes
  <2>2. CASE ~QueueStep
    <3>1. NothingSent
      BY <2>2, WorkerMoves, OtherMoves DEF Next, OtherStep
    <3> QED
      BY <3>1 DEF Wishes, PlacedTasks, NothingSent, Placed
  <2> QED
    BY <2>1, <2>2
<1> QED
  BY <1>1, <1>2, <1>3 DEF Wishes

(* A wish is forgotten only if no thread meets it, and tasks on a worker   *)
(* thread are where they wished to be.                                     *)
THEOREM WishesAreKept == Spec => []Wishes
<1>1. Init => Wishes
  BY RangeOfNone DEF Init, QueueInit, WorkerInit, TaskInit, Wishes, WishesKept, Targeted, PlacedTasks, On
<1> QED
  BY <1>1, WishesStay, BooksBalance, TasksInOnePlace, PTL DEF Spec

(* Every task on a worker thread is where its wishes put it, as far as any *)
(* thread meets them (Task::set_preferred_thread, Task::not_on).           *)
THEOREM TasksArePlaced == Spec => []Placement
<1>1. Books /\ Wishes => Placement
  BY ListsJoined DEF Wishes, PlacedTasks, Placed, Placement
<1> QED
  BY <1>1, BooksBalance, WishesAreKept, PTL

-----------------------------------------------------------------------------
(* While no wake of the queue thread is set or under way, every task it    *)
(* has put aside in this pass is stuck, and the thread it has chosen for   *)
(* the current one still has the most free workers.                        *)
Stuck(t) ==
  \/ ~CanExecute(t) \/ PredState(t) = "Cancelled"
  \/ Allowed(t) # {} /\ \A w \in Allowed(t) : free[w] = 0

Stirring == qsig \/ WakeComing \/ qpc = "notify"
Kept     == Range(IF qpc = "wait" THEN todo ELSE remaining)

NoneMissed ==
  qpc # "dead" /\ ~Stirring =>
    /\ \A t \in Kept : Placeable(t) => Stuck(t)
    /\ qpc = "dispatch" => \A w \in Allowed(Head(todo)) : free[w] <= free[target]

(* Only the wait of the queue thread uses a wake up.                       *)
LEMMA WakesArrive ==
  ASSUME Books, [Next]_vars, Stirring, qpc # "dead", ~QueueWaits PROVE Stirring'
<1> USE DEF queueVars, workerVars, clientVars, linkVars, taskVars
<1>t. /\ wpc \in [Threads -> WorkerPCs] /\ cpc \in [Clients -> Nat]
      /\ \A c \in Clients : Len(Batch[c]) \in Nat
  BY SchedulerAssumption DEF Books, TypeOK, WorkerTypeOK, ClientTypeOK
<1>1. CASE QueueStep
  <2>1. /\ UNCHANGED <<cpc, wpc>> /\ (UNCHANGED qsig \/ qsig' = TRUE)
        /\ qpc = "notify" => qsig' = TRUE
    BY <1>1 DEF QueueStep, Receive, Shutdown, Drain, Examine, CheckPanicked, GetPanic,
       CheckCancelled, Notify, Select, Dispatch, Debit, Poke, PassEnds, QueueWaits
  <2> QED
    BY <2>1 DEF Stirring, WakeComing, Finishing
<1>2. ASSUME NEW w \in Threads, WorkerStep(w) PROVE Stirring'
  <2>1. /\ UNCHANGED <<qpc, cpc>> /\ (UNCHANGED qsig \/ qsig' = TRUE)
        /\ \A v \in Threads \ {w} : wpc'[v] = wpc[v]
        /\ \/ wpc[w] \notin {"credit", "announce", "wakeTask", "wakeQueue"}
           \/ wpc'[w] \in {"announce", "wakeTask", "wakeQueue"}
           \/ qsig' = TRUE
    <3>1. CASE TakeTasks(w) \/ WorkerEnds(w) \/ Join(w) \/ TakeResult(w) \/ MatchResult(w)
      BY <1>t, <3>1 DEF TakeTasks, WorkerEnds, Join, TakeResult, MatchResult, AtPoll, LoseWorker, Goto
    <3>2. CASE BodyReturns(w) \/ BodyPanics(w) \/ BodyPends(w)
      BY <1>t, <3>2 DEF BodyReturns, BodyPanics, BodyPends, PollsBody, AtPoll, LoseWorker, Goto
    <3>3. CASE Credit(w) \/ Announce(w) \/ WakeTask(w) \/ WakeQueue(w) \/ RoundEnds(w) \/ Park(w)
      BY <1>t, <3>3 DEF Credit, Announce, WakeTask, WakeQueue, RoundEnds, Park, Goto
    <3> QED
      BY <1>2, <3>1, <3>2, <3>3 DEF WorkerStep
  <2> QED
    BY <2>1 DEF Stirring, WakeComing, Finishing
<1>3. ASSUME NEW c \in Clients, Send(c) \/ SendWake(c) PROVE Stirring'
  <2>1. CASE Send(c)
    <3>1. cpc[c] < Len(Batch[c]) /\ cpc' = [cpc EXCEPT ![c] = cpc[c] + 1] /\ UNCHANGED <<qsig, wpc, qpc>>
      BY <2>1 DEF Send
    <3>2. cpc'[c] \in 1 .. Len(Batch[c]) /\ \A d \in Clients \ {c} : cpc'[d] = cpc[d]
      BY <1>t, <3>1
    <3> QED
      BY <3>2 DEF WakeComing, Stirring
  <2>2. CASE SendWake(c)
    BY <2>2 DEF SendWake, Stirring
  <2> QED
    BY <1>3, <2>1, <2>2
<1>4. CASE OtherStep /\ ~ \E c \in Clients : Send(c) \/ SendWake(c)
  <2>1. UNCHANGED <<qpc, cpc, wpc, qsig>>
    BY <1>4 DEF OtherStep, Waken, Cancel, WaitForTask, DropQueue, Terminated, vars
  <2> QED
    BY <2>1 DEF Stirring, WakeComing, Finishing
<1> QED
  BY <1>1, <1>2, <1>3, <1>4 DEF Next, OtherStep

(* Without a wake nothing gets a task unstuck.                             *)
LEMMA StuckStays ==
  ASSUME Books, OnePlace, [Next]_vars, ~Stirring, ~Stirring',
         NEW t \in Tasks, Stuck(t), pref'[t] = pref[t], notOn'[t] = notOn[t]
  PROVE  Stuck(t)'
<1>t. /\ free \in [Threads -> Nat] /\ free' \in [Threads -> Nat]
      /\ state \in [Tasks -> TaskStates] /\ MayCancel \subseteq Tasks
  BY QueueActions, WorkerActions, OtherActions, SchedulerAssumption
     DEF Books, TypeOK, LinkTypeOK, TaskTypeOK, Next, OtherStep
<1>1. UNCHANGED sem
  <2>1. QueueStep => UNCHANGED sem
    BY QueueEffects DEF Stirring
  <2>2. ASSUME NEW w \in Threads, WorkerStep(w) PROVE UNCHANGED sem
    BY <2>2, WorkerEffects DEF Stirring, WakeComing, Finishing
  <2> QED
    BY <2>1, <2>2, OtherEffects DEF Next, OtherStep
<1>2. UNCHANGED state \/ \E u \in MayCancel : state' = [state EXCEPT ![u] = "Cancelled"]
  <2>1. QueueStep => UNCHANGED state
    BY QueueEffects DEF Stirring
  <2>2. ASSUME NEW w \in Threads, WorkerStep(w) PROVE UNCHANGED state
    BY <2>2, WorkerEffects DEF Stirring, WakeComing, Finishing
  <2> QED
    BY <2>1, <2>2, OtherEffects DEF Next, OtherStep
<1>3. PredState(t)' \in {PredState(t), "Cancelled"}
  BY <1>t, <1>2, SchedulerAssumption DEF PredState
<1>4. ASSUME NEW w \in Threads, free[w] = 0 PROVE free'[w] = 0
  <2>1. UNCHANGED free \/ Debit
    <3>1. QueueStep => UNCHANGED free \/ Debit
      BY DEF QueueStep, Receive, Shutdown, Drain, Examine, CheckPanicked, GetPanic,
         CheckCancelled, Notify, Select, Dispatch, Poke, PassEnds, QueueWaits, linkVars
    <3> QED
      BY <3>1, NoOtherWishes DEF Stirring, WakeComing
  <2>2. CASE Debit
    BY <1>t, <1>4, <2>2 DEF Debit
  <2> QED
    BY <1>4, <2>1, <2>2
<1>5. Allowed(t)' = Allowed(t) /\ Allowed(t) \subseteq Threads
  BY DEF Allowed
<1>6. CASE ~CanExecute(t) \/ PredState(t) = "Cancelled"
  BY <1>1, <1>3, <1>6 DEF Stuck, CanExecute
<1>7. CASE Allowed(t) # {} /\ \A w \in Allowed(t) : free[w] = 0
  BY <1>4, <1>5, <1>7 DEF Stuck
<1> QED
  BY <1>6, <1>7 DEF Stuck

LEMMA NoneGetsMissed ==
  ASSUME Books, OnePlace, Leftovers, Wishes, NoneMissed, [Next]_vars PROVE NoneMissed'
<1> SUFFICES ASSUME qpc' # "dead", ~Stirring' PROVE NoneMissed'
  BY DEF NoneMissed
<1>t. /\ free \in [Threads -> Nat] /\ todo \in Seq(Tasks) /\ remaining \in Seq(Tasks)
  BY DEF Books, TypeOK, QueueTypeOK, LinkTypeOK
<1>a. Kept \subseteq Queued /\ Kept \subseteq Tasks
  BY <1>t DEF Kept, Queued, Range
<1>n. Range(<<>>) = {}
  BY RangeOfNone
<1>1. CASE QueueWaits
  <2>1. qpc' = "top" /\ remaining' = <<>>
    BY <1>1 DEF QueueWaits, Leftovers
  <2> QED
    BY <1>n, <2>1 DEF NoneMissed, Kept
<1>2. CASE ~QueueWaits
  <2>1. qpc # "dead" /\ ~Stirring
    <3>1. qpc # "dead"
      BY QueueEffects, NoOtherWishes DEF queueVars, QueueHolds
    <3> QED
      BY <1>2, <3>1, WakesArrive
  <2>2. /\ \A t \in Kept : Placeable(t) => Stuck(t)
        /\ qpc = "dispatch" => \A w \in Allowed(Head(todo)) : free[w] <= free[target]
    BY <2>1 DEF NoneMissed
  <2>3. ASSUME NEW t \in Kept, Placeable(t), pref'[t] = pref[t], notOn'[t] = notOn[t] PROVE Stuck(t)'
    BY <1>a, <2>1, <2>2, <2>3, StuckStays
  <2>4. CASE ~QueueStep
    <3>1. UNCHANGED queueVars /\ UNCHANGED free
      BY <2>1, <2>4, NoOtherWishes DEF Stirring, WakeComing
    <3>2. Kept' = Kept
      BY <3>1 DEF Kept, queueVars
    <3>3. qpc' = "dispatch" => \A w \in Allowed(Head(todo))' : free'[w] <= free'[target']
      BY <2>2, <3>1 DEF Allowed, queueVars
    <3> QED
      BY <2>3, <3>1, <3>2, <3>3 DEF NoneMissed, queueVars
  <2>5. ASSUME QueueStep, Kept' \subseteq Kept, UNCHANGED <<pref, notOn>>, qpc' # "dispatch"
        PROVE  NoneMissed'
    BY <2>3, <2>5 DEF NoneMissed, Placeable
  <2>6. ASSUME KeepHead, QueueStep, todo # <<>>, qpc # "wait",
               NEW h \in Tasks, h = Head(todo), Placeable(h) => Stuck(h)',
               \A t \in Tasks \ {h} : pref'[t] = pref[t] /\ notOn'[t] = notOn[t]
        PROVE  NoneMissed'
    <3>1. Kept' = Kept \cup {h} /\ qpc' = "next"
      <4>1. remaining' = Append(remaining, h) /\ qpc' = "next"
        BY <2>6 DEF KeepHead
      <4>2. Range(remaining') = Range(remaining) \cup {h}
        BY <1>t, <4>1, RangeOfAppend
      <4> QED
        BY <2>6, <4>1, <4>2 DEF Kept
    <3>2. h \notin Kept
      BY <1>t, <2>6, RangeOfTail DEF Kept, OnePlace, QueueLists
    <3> QED
      BY <1>a, <2>3, <2>6, <3>1, <3>2 DEF NoneMissed, Placeable
  <2>7. CASE Receive \/ Shutdown \/ Drain \/ PassEnds
    <3>1. Kept' \subseteq Kept /\ UNCHANGED <<pref, notOn>> /\ qpc' # "dispatch"
      BY <1>n, <2>7 DEF Receive, Shutdown, Drain, PassEnds, Kept
    <3> QED
      BY <2>5, <2>7, <3>1 DEF QueueStep
  <2>8. CASE CheckPanicked \/ GetPanic \/ CheckCancelled \/ Notify \/ Debit \/ Poke
    <3>1. Kept' \subseteq Kept /\ UNCHANGED <<pref, notOn>> /\ qpc' # "dispatch"
      BY <2>8 DEF CheckPanicked, GetPanic, CheckCancelled, Notify, Debit, Poke, Kept
    <3> QED
      BY <2>5, <2>8, <3>1 DEF QueueStep
  <2>9. CASE Examine
    <3>1. CASE CanExecute(Head(todo))
      <4>1. Kept' \subseteq Kept /\ UNCHANGED <<pref, notOn>> /\ qpc' # "dispatch"
        BY <2>9, <3>1 DEF Examine, Kept
      <4> QED
        BY <2>5, <2>9, <4>1 DEF QueueStep
    <3>2. CASE ~CanExecute(Head(todo))
      <4>1. PICK h \in Tasks : h = Head(todo)
        BY <2>9, HeadPlace DEF Examine
      <4>2. KeepHead /\ UNCHANGED <<pref, notOn>> /\ todo # <<>> /\ qpc = "next" /\ QueueStep
        BY <2>9, <3>2 DEF Examine, QueueStep
      <4>3. Stuck(h)'
        BY <2>1, <3>2, <4>1, <4>2, StuckStays DEF Stuck
      <4> QED
        BY <2>6, <4>1, <4>2, <4>3
    <3> QED
      BY <3>1, <3>2
  <2>10. CASE Select
    <3>1. PICK h \in Tasks : h = Head(todo) /\ todo # <<>>
      BY <2>10, HeadPlace DEF Select, Books, Held, QueueHolds
    <3>2. CASE /\ target' \in Best(Allowed(h)) /\ qpc' = "dispatch"
               /\ UNCHANGED <<todo, remaining, pref, notOn, free>>
      <4>1. Kept' = Kept
        BY <2>10, <3>2 DEF Kept, Select
      <4>2. \A w \in Allowed(h) : free[w] <= free[target']
        BY <1>t, <3>2 DEF Best, Allowed
      <4>3. \A w \in Allowed(Head(todo))' : free'[w] <= free'[target']
        BY <3>1, <3>2, <4>2 DEF Allowed
      <4> QED
        BY <2>3, <3>2, <4>1, <4>3 DEF NoneMissed
    <3>3. CASE Allowed(h) = {} /\ KeepHead
      <4>1. ~Placeable(h)
        BY <3>3, NobodyMeets DEF Wishes
      <4>2. \A t \in Tasks \ {h} : pref'[t] = pref[t] /\ notOn'[t] = notOn[t]
        BY <2>10, <3>1 DEF Select, Books, TypeOK, QueueTypeOK
      <4> QED
        BY <2>6, <2>10, <3>1, <3>3, <4>1, <4>2 DEF Select, QueueStep
    <3> QED
      BY <2>10, <3>1, <3>2, <3>3 DEF Select, linkVars
  <2>11. CASE Dispatch
    <3>1. PICK h \in Tasks : h = Head(todo) /\ todo # <<>>
      BY <2>11, HeadPlace DEF Dispatch, Books, Held, QueueHolds
    <3>2. CASE free[target] > 0
      <4>1. Kept' \subseteq Kept /\ UNCHANGED <<pref, notOn>> /\ qpc' # "dispatch"
        BY <2>11, <3>2 DEF Dispatch, Kept
      <4> QED
        BY <2>5, <2>11, <4>1 DEF QueueStep
    <3>3. CASE ~ (free[target] > 0)
      <4>1. KeepHead /\ UNCHANGED <<pref, notOn>> /\ qpc = "dispatch" /\ QueueStep
        BY <2>11, <3>3 DEF Dispatch, QueueStep
      <4>2. target \in Allowed(h) /\ target \in Threads
        BY <3>1, <4>1 DEF Wishes, Targeted, Books, TypeOK, QueueTypeOK
      <4>3. \A w \in Allowed(h) : free[w] = 0
        <5>1. Allowed(h) \subseteq Threads
          BY DEF Allowed
        <5>2. \A w \in Allowed(h) : free[w] <= free[target]
          BY <2>2, <3>1, <4>1
        <5> QED
          BY <1>t, <3>3, <4>2, <5>1, <5>2
      <4>4. Stuck(h)'
        BY <2>1, <4>1, <4>2, <4>3, StuckStays DEF Stuck
      <4> QED
        BY <2>6, <3>1, <4>1, <4>4
    <3> QED
      BY <3>2, <3>3
  <2> QED
    BY <1>2, <2>4, <2>7, <2>8, <2>9, <2>10, <2>11 DEF QueueStep
<1> QED
  BY <1>1, <1>2

(* The queue thread never sleeps over work: when it waits, no wake is set  *)
(* and none is under way, every task it holds that some thread may take    *)
(* waits for another task or for a worker, though the counters, states and *)
(* semaphores it has read may have changed since.                          *)
THEOREM NoDispatchIsMissed == Spec => []NoMissedDispatch
<1>1. Init => NoneMissed
  BY RangeOfNone DEF Init, QueueInit, NoneMissed, Kept
<1>2. NoneMissed => NoMissedDispatch
  BY DEF NoneMissed, NoMissedDispatch, Kept, Stuck, Stirring
<1> QED
  BY <1>1, <1>2, NoneGetsMissed, BooksBalance, TasksInOnePlace, TasksAreKept, WishesAreKept, PTL DEF Spec

-----------------------------------------------------------------------------
(* The tasks of the abstract pool: `queued` and `running` are sets of      *)
(* elements of lists.                                                      *)
Busy == UNION {On(w) : w \in Threads}
BusyWorkers == {t \in Tasks : OnWorker(t)} \ (Leaving \cup done)

ListsAreSets ==
  {t \in Tasks : InQueue(t)} = Queued /\ {t \in Tasks : OnWorker(t)} = Busy

LEMMA PoolView == ASSUME Books PROVE ListsAreSets
<1>1. Queued \subseteq Tasks
  BY DEF Books, TypeOK, QueueTypeOK, LinkTypeOK, Queued, Range
<1>2. Range(chan \o todo \o remaining) = Queued
  <2>1. chan \in Seq(Tasks) /\ todo \in Seq(Tasks) /\ remaining \in Seq(Tasks)
    BY DEF Books, TypeOK, QueueTypeOK, LinkTypeOK
  <2>2. chan \o todo \in Seq(Tasks) /\ Range(chan \o todo) = Range(chan) \cup Range(todo)
    BY <2>1, RangeOfJoin
  <2>3. ASSUME NEW r \in Seq(Tasks), r = chan \o todo
        PROVE  Range(r \o remaining) = Range(r) \cup Range(remaining)
    BY <2>1, RangeOfJoin
  <2> QED
    BY <2>2, <2>3 DEF Queued
<1>3. \A t : OnWorker(t) <=> \E w \in Threads : t \in On(w)
  BY ListsJoined DEF OnWorker
<1> QED
  BY <1>1, <1>2, <1>3, TasksOnWorkers DEF ListsAreSets, InQueue, Busy

LEMMA PoolViewNext == Books' => ListsAreSets'
<1>1. Books => ListsAreSets
  BY PoolView
<1> QED
  BY <1>1, PTL

(* Capacity, summed over the threads: a worker thread with room for a task *)
(* leaves room in the pool.                                                *)
Occupants(w) == inbox[w] \o futures[w] \o (IF Finishing(w) THEN Tail(polling[w]) ELSE polling[w])

LEMMA OccupantsFit ==
  ASSUME Books, OnePlace, NEW w \in Threads
  PROVE  /\ Occupants(w) \in Seq(Tasks) /\ Len(Occupants(w)) = Load(w)
         /\ On(w) \ (Leaving \cup done) \subseteq Range(Occupants(w))
<1>1. inbox[w] \in Seq(Tasks) /\ futures[w] \in Seq(Tasks) /\ polling[w] \in Seq(Tasks)
  BY DEF Books, TypeOK, WorkerTypeOK, LinkTypeOK
<1>2. CASE Finishing(w)
  <2>1. polling[w] # <<>>
    BY <1>2 DEF Books, Held, Finishing, WorkerHolds
  <2>2. PICK p \in Seq(Tasks) : p = Tail(polling[w])
    BY <1>1, <2>1, TakeTask
  <2>3. PICK r \in Seq(Tasks) : r = inbox[w] \o futures[w]
    BY <1>1, JoinTasks
  <2>4. Len(p) = Len(polling[w]) - 1 /\ Range(polling[w]) = {Current(w)} \cup Range(p)
    BY <1>1, <2>1, <2>2, TakeTask, RangeOfTail DEF Current
  <2>5. Len(r) = Len(inbox[w]) + Len(futures[w]) /\ Range(r) = Range(inbox[w]) \cup Range(futures[w])
    BY <1>1, <2>3, JoinTasks, RangeOfJoin
  <2>6. Occupants(w) = r \o p
    BY <1>2, <2>2, <2>3 DEF Occupants
  <2>7. r \o p \in Seq(Tasks) /\ Len(r \o p) = Len(r) + Len(p) /\ Range(r \o p) = Range(r) \cup Range(p)
    BY JoinTasks, RangeOfJoin
  <2>8. Current(w) \in Leaving \cup done
    BY <1>2, CurrentPlace DEF Finishing, WorkerHolds, Waking, Leaving
  <2> QED
    BY <1>1, <1>2, <2>4, <2>5, <2>6, <2>7, <2>8 DEF Load, On
<1>3. CASE ~Finishing(w)
  <2>1. PICK r \in Seq(Tasks) : r = inbox[w] \o futures[w]
    BY <1>1, JoinTasks
  <2>2. Len(r) = Len(inbox[w]) + Len(futures[w]) /\ Range(r) = Range(inbox[w]) \cup Range(futures[w])
    BY <1>1, <2>1, JoinTasks, RangeOfJoin
  <2>3. Occupants(w) = r \o polling[w]
    BY <1>3, <2>1 DEF Occupants
  <2>4. /\ r \o polling[w] \in Seq(Tasks) /\ Len(r \o polling[w]) = Len(r) + Len(polling[w])
        /\ Range(r \o polling[w]) = Range(r) \cup Range(polling[w])
    BY <1>1, JoinTasks, RangeOfJoin
  <2> QED
    BY <1>1, <1>3, <2>2, <2>3, <2>4 DEF Load, On
<1> QED
  BY <1>2, <1>3

LEMMA RoomInPool ==
  ASSUME Books, OnePlace, NEW w \in Threads, free[w] > 0, qpc # "debit"
  PROVE  Cardinality(BusyWorkers) < NThreads * WorkersPerThread
<1> DEFINE All == Threads \X (1 .. WorkersPerThread)
<1> DEFINE Seats == {s \in All : s[2] <= Len(Occupants(s[1]))}
<1> DEFINE Seated == {Occupants(s[1])[s[2]] : s \in Seats}
<1>1. WorkersPerThread \in Nat /\ NThreads \in Nat
  BY SchedulerAssumption
<1>2. \A v \in Threads : Len(Occupants(v)) \in Nat /\ Len(Occupants(v)) <= WorkersPerThread
  <2>1. ASSUME NEW v \in Threads PROVE Len(Occupants(v)) \in Nat /\ Len(Occupants(v)) <= WorkersPerThread
    <3>1. Len(Occupants(v)) \in Nat /\ Len(Occupants(v)) = Load(v)
      BY OccupantsFit
    <3>2. Load(v) + lost[v] <= WorkersPerThread /\ lost[v] \in Nat
      BY DEF Books, Capacity, TypeOK, WorkerTypeOK
    <3> QED
      BY <1>1, <3>1, <3>2
  <2> QED
    BY <2>1
<1>3. Len(Occupants(w)) < WorkersPerThread
  <2>1. Len(Occupants(w)) \in Nat /\ Len(Occupants(w)) = Load(w)
    BY OccupantsFit
  <2>2. free[w] + Load(w) + lost[w] = WorkersPerThread /\ lost[w] \in Nat /\ free[w] \in Nat
    BY <1>1 DEF Books, Conservation, TypeOK, WorkerTypeOK, LinkTypeOK
  <2> QED
    BY <1>1, <2>1, <2>2
<1>4. IsFiniteSet(All) /\ Cardinality(All) = NThreads * WorkersPerThread
  <2>1. IsFiniteSet(Threads) /\ Cardinality(Threads) = NThreads
    BY <1>1, FS_Interval, SchedulerAssumption DEF Threads
  <2>2. IsFiniteSet(1 .. WorkersPerThread) /\ Cardinality(1 .. WorkersPerThread) = WorkersPerThread
    BY <1>1, FS_Interval
  <2> QED
    BY <2>1, <2>2, FS_Product
<1>5. IsFiniteSet(Seats) /\ Cardinality(Seats) < NThreads * WorkersPerThread
  <2>1. PICK last : last = <<w, WorkersPerThread>>
    OBVIOUS
  <2>2. last \in All
    BY <1>1, <1>2, <1>3, <2>1
  <2>3. Seats \subseteq All \ {last}
    BY <1>1, <1>2, <1>3, <2>1
  <2>4. IsFiniteSet(All \ {last}) /\ Cardinality(All \ {last}) = Cardinality(All) - 1
    BY <1>4, <2>2, FS_RemoveElement
  <2>5. IsFiniteSet(Seats) /\ Cardinality(Seats) <= Cardinality(All \ {last}) /\ Cardinality(Seats) \in Nat
    BY <2>3, <2>4, FS_Subset, FS_CardinalityType
  <2> QED
    BY <1>1, <1>4, <2>4, <2>5
<1>6. IsFiniteSet(Seated) /\ Cardinality(Seated) <= Cardinality(Seats)
  <2>1. [s \in Seats |-> Occupants(s[1])[s[2]]] \in Surjection(Seats, Seated)
    BY DEF Surjection
  <2> QED
    BY <1>5, <2>1, FS_Surjection
<1>7. BusyWorkers \subseteq Seated
  <2> SUFFICES ASSUME NEW v \in Threads, NEW t \in On(v) \ (Leaving \cup done) PROVE t \in Seated
    BY PoolView DEF ListsAreSets, BusyWorkers, Busy
  <2>1. PICK i \in DOMAIN Occupants(v) : Occupants(v)[i] = t
    BY OccupantsFit DEF Range
  <2>2. i \in 1 .. WorkersPerThread /\ i <= Len(Occupants(v))
    BY <1>1, <1>2, OccupantsFit
  <2>3. <<v, i>> \in Seats
    BY <2>2
  <2> QED
    BY <2>1, <2>3
<1>8. /\ Cardinality(BusyWorkers) <= Cardinality(Seated) /\ Cardinality(BusyWorkers) \in Nat
      /\ Cardinality(Seated) \in Nat /\ Cardinality(Seats) \in Nat
  BY <1>5, <1>6, <1>7, FS_Subset, FS_CardinalityType
<1> QED
  BY <1>1, <1>5, <1>6, <1>8

(* What every step does to the pool when no task is announced or started.  *)
LEMMA PoolRests ==
  ASSUME Books, Books', Queued' = Queued, Busy' \ done' = Busy \ done,
         UNCHANGED <<Leaving, done, begun>>
  PROVE  UNCHANGED Pool!vars
BY PoolView, PoolViewNext DEF ListsAreSets, Pool!vars

LEMMA BusyStays ==
  ASSUME NoneDropped, NothingSent PROVE Busy' \ done' = Busy \ done'
BY DEF NoneDropped, NothingSent, Busy

LEMMA QueueRefines ==
  ASSUME Books, Books', OnePlace, OnePlace', Results, QueueStep
  PROVE  [Pool!Next]_(Pool!vars)
<1>m. /\ NoneDropped /\ NothingAdded
      /\ \A w \in Threads : On(w)' \subseteq On(w) \cup Sent(w)
  BY QueueMoves
<1>f. UNCHANGED <<Leaving, begun>>
  BY QueueEffects DEF Leaving, Current
<1>v. /\ {t \in Tasks : InQueue(t)} = Queued /\ {t \in Tasks : OnWorker(t)} = Busy
      /\ {t \in Tasks : InQueue(t)}' = Queued' /\ {t \in Tasks : OnWorker(t)}' = Busy'
  BY PoolView, PoolViewNext DEF ListsAreSets
<1>l. Leaving \subseteq Busy \ done
  BY CurrentPlace DEF Leaving, Busy, WorkerHolds, Waking
<1>q. Queued \subseteq Tasks /\ Queued \cap Busy = {}
  BY <1>v DEF OnePlace, Owners, Busy
<1>1. CASE qpc = "dispatch" /\ free[target] > 0
  <2>1. PICK h \in Tasks : h = Head(todo) /\ h \in Queued /\ h \notin done /\ h \notin Busy
    BY <1>1, HeadPlace DEF Books, Held, QueueHolds, Busy
  <2>2. PICK w \in Threads : w = target
    BY DEF Books, TypeOK, QueueTypeOK
  <2>3. /\ inbox' = [inbox EXCEPT ![w] = Append(inbox[w], h)]
        /\ UNCHANGED <<done, futures, polling>>
    BY <1>1, <2>1, <2>2 DEF QueueStep, Receive, Shutdown, Drain, Examine, CheckPanicked, GetPanic,
       CheckCancelled, Notify, Select, Dispatch, Debit, Poke, PassEnds, QueueWaits, taskVars, workerVars
  <2>4. h \in On(w)'
    <3>1. inbox[w] \in Seq(Tasks) /\ inbox'[w] = Append(inbox[w], h)
      BY <2>3 DEF Books, TypeOK, LinkTypeOK
    <3> QED
      BY <3>1, RangeOfAppend DEF On
  <2>5. Busy' = Busy \cup {h}
    <3>1. Busy' \subseteq Busy \cup {h}
      BY <1>m, <2>1 DEF Busy, Sent
    <3>2. Busy \ done \subseteq Busy'
      BY <1>m, <2>3 DEF Busy, NoneDropped
    <3>3. On(w) \subseteq On(w)' /\ \A v \in Threads \ {w} : On(v)' = On(v)
      <4>1. inbox[w] \in Seq(Tasks) /\ inbox'[w] = Append(inbox[w], h)
            /\ \A v \in Threads \ {w} : inbox'[v] = inbox[v]
        BY <2>3 DEF Books, TypeOK, LinkTypeOK
      <4> QED
        BY <2>3, <4>1, RangeOfAppend DEF On
    <3> QED
      BY <2>4, <3>1, <3>3 DEF Busy
  <2>6. Queued' = Queued \ {h}
    <3>1. h \notin Queued'
      BY <2>4 DEF OnePlace, Owners
    <3>2. Queued \ {h} \subseteq Queued'
      BY <1>m, <1>q, <2>1, <2>3, <2>5 DEF NoneDropped, Somewhere, Busy, OnePlace, Announced
    <3> QED
      BY <1>m, <3>1, <3>2 DEF NothingAdded
  <2>7. Pool!Released(h)
    BY <1>1, <2>1 DEF Results, ClearedTasks, Cleared, Released, Pool!Released, QueueHolds
  <2>8. Cardinality(Busy \ (Leaving \cup done)) < NThreads * WorkersPerThread
    BY <1>1, <1>v, <2>2, RoomInPool DEF BusyWorkers
  <2>9. Busy' \ (Leaving' \cup done') = (Busy \ (Leaving \cup done)) \cup {h}
    BY <1>f, <1>l, <2>1, <2>3, <2>5
  <2>10. Pool!Start(h)
    <3>1. h \in {t \in Tasks : InQueue(t)} /\ {t \in Tasks : InQueue(t)}' = {t \in Tasks : InQueue(t)} \ {h}
      BY <1>v, <2>1, <2>6
    <3>2. ({t \in Tasks : OnWorker(t)} \ (Leaving \cup done))'
          = ({t \in Tasks : OnWorker(t)} \ (Leaving \cup done)) \cup {h}
      BY <1>v, <2>9
    <3>3. Pool!Cardinality({t \in Tasks : OnWorker(t)} \ (Leaving \cup done)) < NThreads * WorkersPerThread
      BY <1>v, <2>8 DEF Cardinality, Pool!Cardinality
    <3>4. UNCHANGED <<Leaving, begun, done>>
      BY <1>f, <2>3
    <3> QED
      BY <2>7, <3>1, <3>2, <3>3, <3>4 DEF Pool!Start
  <2> QED
    BY <2>10 DEF Pool!Next
<1>2. CASE ~ (qpc = "dispatch" /\ free[target] > 0)
  <2>1. NothingSent /\ Busy' \ done' = Busy \ done'
    BY <1>m, <1>2, BusyStays DEF Sent, NothingSent
  <2>2. CASE qpc # "notify"
    <3>1. UNCHANGED done
      BY <2>2, QueueEffects
    <3>2. Queued' = Queued
      BY <1>m, <1>q, <2>1, <3>1 DEF NoneDropped, NothingAdded, NothingSent, Somewhere, Busy, OnePlace, Announced
    <3> QED
      BY <1>f, <2>1, <3>1, <3>2, PoolRests
  <2>3. CASE qpc = "notify"
    <3>1. PICK h \in Tasks : h = Head(todo) /\ h \in Queued /\ h \notin done /\ h \notin Busy
      BY <2>3, HeadPlace DEF Books, Held, QueueHolds, Busy
    <3>2. done' = done \cup {h}
      BY <2>3, <3>1, QueueEffects DEF SignalSemaphores, QueueHolds
    <3>3. Queued' = Queued \ {h}
      <4>1. h \notin Queued'
        BY <3>2 DEF OnePlace, Announced
      <4>2. Queued \ {h} \subseteq Queued'
        BY <1>m, <1>q, <2>1, <3>1, <3>2 DEF NoneDropped, NothingSent, Somewhere, Busy, OnePlace, Announced
      <4> QED
        BY <1>m, <4>1, <4>2 DEF NothingAdded
    <3>4. Pool!Released(h)
      BY <2>3, <3>1 DEF Results, ClearedTasks, Cleared, Released, Pool!Released, QueueHolds
    <3>5. Busy' \ (Leaving' \cup done') = Busy \ (Leaving \cup done)
      BY <1>f, <2>1, <3>1, <3>2
    <3>6. Pool!Discard(h)
      BY <1>f, <1>v, <3>1, <3>2, <3>3, <3>4, <3>5 DEF Pool!Discard
    <3> QED
      BY <3>6 DEF Pool!Next
  <2> QED
    BY <2>2, <2>3
<1> QED
  BY <1>1, <1>2

LEMMA WorkerRefines ==
  ASSUME Books, Books', OnePlace, OnePlace', Results, NEW w \in Threads, WorkerStep(w)
  PROVE  [Pool!Next]_(Pool!vars)
<1>m. NoneDropped /\ NothingSent /\ Busy' \ done' = Busy \ done'
  BY WorkerMoves, BusyStays
<1>q. UNCHANGED Queued
  BY WorkerEffects DEF Queued, queueVars
<1>v. /\ {t \in Tasks : InQueue(t)} = Queued /\ {t \in Tasks : OnWorker(t)} = Busy
      /\ {t \in Tasks : InQueue(t)}' = Queued' /\ {t \in Tasks : OnWorker(t)}' = Busy'
  BY PoolView, PoolViewNext DEF ListsAreSets
<1>l. Leaving \subseteq Busy \ done
  BY CurrentPlace DEF Leaving, Busy, WorkerHolds, Waking
<1>o. \A v \in Threads \ {w} : wpc'[v] = wpc[v] /\ Current(v)' = Current(v)
  BY WorkerEffects DEF Current
<1>1. CASE wpc[w] = "announce"
  <2>1. PICK t \in Tasks : t = Current(w) /\ t \in Leaving
    BY <1>1, CurrentPlace DEF WorkerHolds, Leaving
  <2>2. done' = done \cup {t} /\ UNCHANGED begun /\ wpc'[w] = "wakeTask"
    BY <1>1, <2>1, WorkerEffects DEF SignalSemaphores, WorkerHolds, PollsBody, AtPoll
  <2>3. Leaving' = Leaving \ {t}
    <3>1. \A v \in Threads \ {w} : wpc[v] = "announce" => Current(v) # t
      BY <1>1, <2>1, CurrentPlace DEF WorkerHolds
    <3> QED
      BY <1>o, <2>1, <2>2, <3>1 DEF Leaving
  <2>4. Busy' \ (Leaving' \cup done') = Busy \ (Leaving \cup done)
    BY <1>m, <2>1, <2>2, <2>3
  <2>5. Pool!Announce(t)
    BY <1>q, <1>v, <2>1, <2>2, <2>3, <2>4 DEF Pool!Announce
  <2> QED
    BY <2>5 DEF Pool!Next
<1>2. CASE wpc[w] # "announce"
  <2>1. UNCHANGED done
    BY <1>2, WorkerEffects
  <2>2. \/ UNCHANGED begun
        \/ \E t \in Busy \ (Leaving \cup done) : /\ Pred[t] # NoTask => Pred[t] \in done
                                                 /\ t = Current(w) /\ begun' = begun \cup {t}
    <3> SUFFICES ASSUME begun' # begun
                 PROVE  /\ Current(w) \in Busy \ (Leaving \cup done)
                        /\ Pred[Current(w)] # NoTask => Pred[Current(w)] \in done
                        /\ begun' = begun \cup {Current(w)}
      OBVIOUS
    <3>1. /\ begun' = begun \cup {Current(w)}
          /\ wpc[w] = "match" \/ (AtPoll(w) /\ ~NeedsResult(Current(w)))
      BY WorkerEffects DEF PollsBody
    <3>2. Current(w) \in Busy \ done
      BY <3>1, CurrentPlace DEF WorkerHolds, Waking, AtPoll, Busy
    <3>3. Current(w) \notin Leaving
      BY <1>2, <3>1, CurrentPlace DEF WorkerHolds, Leaving
    <3>4. Pred[Current(w)] # NoTask => Pred[Current(w)] \in done
      BY <3>1 DEF Results, JoinedTasks, Joined, BegunTasks, NeedsResult
    <3> QED
      BY <3>1, <3>2, <3>3, <3>4
  <2>3. CASE wpc'[w] = "announce"
    <3>1. UNCHANGED polling /\ (wpc[w] \in WorkerHolds \/ AtPoll(w))
          /\ wpc[w] \notin {"wakeTask", "wakeQueue"}
      BY <1>2, <2>3, WorkerEffects DEF WorkerHolds, PollsBody, AtPoll
    <3>2. PICK t \in Tasks : t = Current(w)
      BY <3>1, CurrentPlace
    <3>3. Leaving' = Leaving \cup {t}
      <4>1. Current(w)' = t
        BY <3>1, <3>2 DEF Current
      <4> QED
        BY <1>2, <1>o, <2>3, <4>1 DEF Leaving
    <3>4. t \in Busy \ (Leaving \cup done)
      <4>1. t \in Busy \ done
        BY <3>1, <3>2, CurrentPlace DEF Busy, Waking, AtPoll
      <4>2. t \notin Leaving
        BY <1>2, <3>1, <3>2, CurrentPlace DEF WorkerHolds, Leaving
      <4> QED
        BY <4>1, <4>2
    <3>5. Busy' \ (Leaving' \cup done') = (Busy \ (Leaving \cup done)) \ {t}
      BY <1>m, <2>1, <3>3
    <3>6. UNCHANGED begun \/ (Pool!Callable(t) /\ begun' = begun \cup {t})
      BY <1>v, <2>2, <3>2 DEF Pool!Callable
    <3>7. Pool!Leave(t)
      BY <1>q, <1>v, <2>1, <3>3, <3>4, <3>5, <3>6 DEF Pool!Leave
    <3> QED
      BY <3>7 DEF Pool!Next
  <2>4. CASE wpc'[w] # "announce"
    <3>1. Leaving' = Leaving
      BY <1>2, <1>o, <2>4 DEF Leaving
    <3>2. Busy' \ (Leaving' \cup done') = Busy \ (Leaving \cup done)
      BY <1>m, <2>1, <3>1
    <3>3. CASE UNCHANGED begun
      BY <1>m, <1>q, <2>1, <3>1, <3>3, PoolRests
    <3>4. ASSUME NEW t \in Busy \ (Leaving \cup done),
                 Pred[t] # NoTask => Pred[t] \in done, begun' = begun \cup {t}, begun' # begun
          PROVE  [Pool!Next]_(Pool!vars)
      <4>1. t \in Tasks /\ t \notin begun
        BY <1>v, <3>4
      <4>2. Pool!Begin(t)
        BY <1>q, <1>v, <2>1, <3>1, <3>2, <3>4, <4>1 DEF Pool!Begin, Pool!Callable
      <4> QED
        BY <4>1, <4>2 DEF Pool!Next
    <3> QED
      BY <2>2, <3>3, <3>4
  <2> QED
    BY <2>3, <2>4
<1> QED
  BY <1>1, <1>2

LEMMA OthersRefine ==
  ASSUME Books, Books', OnePlace, OnePlace', OtherStep
  PROVE  [Pool!Next]_(Pool!vars)
<1>m. /\ NoneDropped /\ NothingSent /\ Busy' \ done' = Busy \ done'
      /\ NothingAdded \/ \E u \in Tasks : ~Somewhere(u) /\ Queued' = Queued \cup {u}
  BY OtherMoves, BusyStays
<1>f. UNCHANGED <<Leaving, done, begun>>
  BY OtherEffects DEF Leaving, Current
<1>v. /\ {t \in Tasks : InQueue(t)} = Queued /\ {t \in Tasks : OnWorker(t)} = Busy
      /\ {t \in Tasks : InQueue(t)}' = Queued' /\ {t \in Tasks : OnWorker(t)}' = Busy'
  BY PoolView, PoolViewNext DEF ListsAreSets
<1>1. CASE NothingAdded
  <2>1. Queued' = Queued
    <3>1. Queued \subseteq Tasks
      BY <1>v
    <3> QED
      BY <1>1, <1>m, <1>f, <3>1 DEF NoneDropped, NothingAdded, NothingSent, Somewhere, OnePlace, Owners, Announced
  <2> QED
    BY <1>m, <1>f, <2>1, PoolRests
<1>2. ASSUME NEW u \in Tasks, ~Somewhere(u), Queued' = Queued \cup {u}
      PROVE  [Pool!Next]_(Pool!vars)
  <2>1. u \notin Queued \cup done \cup Busy
    BY <1>2 DEF Somewhere, Busy
  <2>2. Leaving \subseteq Busy
    BY CurrentPlace DEF Leaving, Busy, WorkerHolds
  <2>3. Pool!Submit(u)
    BY <1>2, <1>m, <1>f, <1>v, <2>1, <2>2 DEF Pool!Submit
  <2> QED
    BY <2>3 DEF Pool!Next
<1> QED
  BY <1>m, <1>1, <1>2

(* The queue thread and the worker threads implement what `Queue` promises *)
(* of its tasks: each is taken once, after the semaphores it waits for, by *)
(* no more workers than there are, called at most once and in turn, and    *)
(* announced once.                                                         *)
THEOREM TaskPoolIsImplemented == Spec => ImplementsTaskPool
<1>1. Init => Pool!Init
  <2> SUFFICES ASSUME Init PROVE Pool!Init
    OBVIOUS
  <2>1. /\ chan = <<>> /\ todo = <<>> /\ remaining = <<>> /\ done = {} /\ begun = {}
        /\ \A w \in Threads : wpc[w] = "top" /\ inbox[w] = <<>> /\ futures[w] = <<>> /\ polling[w] = <<>>
    BY DEF Init, QueueInit, WorkerInit, TaskInit
  <2>2. Queued = {} /\ Busy = {} /\ Leaving = {}
    BY <2>1, RangeOfNone DEF Queued, Busy, On, Leaving
  <2>3. {t \in Tasks : InQueue(t)} = Queued /\ {t \in Tasks : OnWorker(t)} = Busy
    BY BooksOpen, PoolView DEF ListsAreSets
  <2> QED
    BY <2>1, <2>2, <2>3 DEF Pool!Init
<1>2. Books /\ Books' /\ OnePlace /\ OnePlace' /\ Results /\ [Next]_vars => [Pool!Next]_(Pool!vars)
  BY QueueRefines, WorkerRefines, OthersRefine DEF Next, OtherStep
<1> QED
  BY <1>1, <1>2, BooksBalance, TasksInOnePlace, ResultsAreKept, PTL DEF Spec, ImplementsTaskPool, Pool!Spec
=============================================================================
