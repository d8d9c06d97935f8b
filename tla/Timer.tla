------------------------------- MODULE Timer -------------------------------
(***************************************************************************)
(* The timer (src/src/timer.rs): futures of async_sleep put themselves in  *)
(* a heap ordered by time, and one timer thread wakes them when they are   *)
(* due.  The heap is a mutex; SIGNAL is a condition variable that has no   *)
(* flag of its own, so a notification that finds nobody waiting is lost.   *)
(*                                                                         *)
(* A step is one critical section of the mutex, one reading of the clock   *)
(* or one notification.                                                    *)
(***************************************************************************)
EXTENDS Integers

CONSTANTS Sleepers,   \* futures of async_sleep, each with an executor
          Duration    \* Sleep::duration

ASSUME TimerAssumption == Duration \in [Sleepers -> Nat]

(* An Instant t is represented by how long it is until t, 0 once it has    *)
(* come, so that the clock needs no bound.                                 *)
VARIABLES heap,       \* QUEUE: the sleepers with an entry
          left,       \* Sleep::when, TimerEntry::when
          spc,        \* where each sleeper is
          woken,      \* its executor has been woken
          tpc,        \* where the timer thread is
          next,       \* the time it peeked at, or Never
          pause,      \* the duration it computed, or Never
          alarm       \* when its wait times out, or Never

sleepVars == <<left, spc, woken>>
timerVars == <<tpc, next, pause, alarm>>
vars == <<heap, sleepVars, timerVars>>

Never == -1
Time  == Nat \cup {Never}

TypeOK ==
  /\ heap \subseteq Sleepers
  /\ left \in [Sleepers -> Nat] /\ woken \in [Sleepers -> BOOLEAN]
  /\ spc \in [Sleepers -> {"new", "push", "notify", "parked", "poll", "done"}]
  /\ tpc \in {"peek", "compare", "pop", "wait", "waiting"}
  /\ next \in Time /\ pause \in Time /\ alarm \in Time

Init ==
  /\ heap = {} /\ left = [f \in Sleepers |-> 0]
  /\ spc = [f \in Sleepers |-> "new"] /\ woken = [f \in Sleepers |-> FALSE]
  /\ tpc = "peek" /\ next = Never /\ pause = Never /\ alarm = Never

Sooner(t) == IF t > 0 THEN t - 1 ELSE t

(* Time passes; a Duration, unlike an Instant, does not change by it.      *)
Tick ==
  /\ left' = [f \in Sleepers |-> Sooner(left[f])]
  /\ next' = Sooner(next) /\ alarm' = Sooner(alarm)
  /\ UNCHANGED <<heap, spc, woken, tpc, pause>>

-----------------------------------------------------------------------------
(* The first Sleep::poll: read the clock, push an entry, notify_one.       *)
Start(f) ==
  /\ spc[f] = "new"
  /\ left' = [left EXCEPT ![f] = Duration[f]]
  /\ spc' = [spc EXCEPT ![f] = "push"]
  /\ UNCHANGED <<heap, woken, timerVars>>

Push(f) ==
  /\ spc[f] = "push"
  /\ heap' = heap \cup {f}
  /\ spc' = [spc EXCEPT ![f] = "notify"]
  /\ UNCHANGED <<left, woken, timerVars>>

Notify(f) ==
  /\ spc[f] = "notify"
  /\ spc' = [spc EXCEPT ![f] = "parked"]
  /\ tpc' = IF tpc = "waiting" THEN "peek" ELSE tpc
  /\ UNCHANGED <<heap, left, woken, next, pause, alarm>>

(* The executor polls again once it has been woken, by the timer thread or *)
(* for another of its futures.  The later polls do not push.               *)
OtherWake(f) ==
  /\ spc[f] = "parked" /\ ~woken[f]
  /\ woken' = [woken EXCEPT ![f] = TRUE]
  /\ UNCHANGED <<heap, left, spc, timerVars>>

Resume(f) ==
  /\ spc[f] = "parked" /\ woken[f]
  /\ woken' = [woken EXCEPT ![f] = FALSE]
  /\ spc' = [spc EXCEPT ![f] = "poll"]
  /\ UNCHANGED <<heap, left, timerVars>>

Poll(f) ==
  /\ spc[f] = "poll"
  /\ spc' = [spc EXCEPT ![f] = IF left[f] = 0 THEN "done" ELSE "parked"]
  /\ UNCHANGED <<heap, left, woken, timerVars>>

-----------------------------------------------------------------------------
(* Mutant of First: the order is not reversed, the latest entry is first.  *)
LastFirst(f) == f \in heap /\ \A g \in heap : left[g] <= left[f]

(* BinaryHeap::peek and pop, with the reversed order of TimerEntry.  Which *)
(* of two entries that are both due comes first is left open.              *)
First(f) == f \in heap /\ \A g \in heap : left[f] <= left[g]

(* The timer thread looks at the first entry and lets the lock go.         *)
Peek ==
  /\ tpc = "peek"
  /\ \/ heap = {} /\ next' = Never
     \/ \E f \in Sleepers : First(f) /\ next' = left[f]
  /\ tpc' = "compare"
  /\ UNCHANGED <<heap, sleepVars, pause, alarm>>

(* Mutant of Compare: the operands of duration_since are swapped.          *)
CompareSwapped ==
  /\ tpc = "compare"
  /\ tpc' = IF next = 0 THEN "pop" ELSE "wait"
  /\ pause' = IF next = Never THEN Never ELSE 0 - next
  /\ UNCHANGED <<heap, sleepVars, next, alarm>>

(* Then it reads the clock: the entry is due, or how long it may wait.     *)
Compare ==
  /\ tpc = "compare"
  /\ tpc' = IF next = 0 THEN "pop" ELSE "wait"
  /\ pause' = next
  /\ UNCHANGED <<heap, sleepVars, next, alarm>>

(* Mutant of Pop: the waker is dropped.                                    *)
PopSilently ==
  /\ tpc = "pop"
  /\ \E f \in Sleepers : First(f) /\ heap' = heap \ {f}
  /\ tpc' = "peek"
  /\ UNCHANGED <<sleepVars, next, pause, alarm>>

(* It pops what is first by now, and wakes it.                             *)
Pop ==
  /\ tpc = "pop"
  /\ \E f \in Sleepers :
       /\ First(f)
       /\ heap' = heap \ {f}
       /\ woken' = [woken EXCEPT ![f] = TRUE]
  /\ tpc' = "peek"
  /\ UNCHANGED <<left, spc, next, pause, alarm>>

(* It locks the heap again and waits, without looking at it: SIGNAL.wait   *)
(* or SIGNAL.wait_timeout.                                                 *)
Wait ==
  /\ tpc = "wait"
  /\ tpc' = "waiting"
  /\ alarm' = pause
  /\ UNCHANGED <<heap, sleepVars, next, pause>>

Timeout ==
  /\ tpc = "waiting" /\ alarm = 0
  /\ tpc' = "peek"
  /\ UNCHANGED <<heap, sleepVars, next, pause, alarm>>

(* Condvar::wait may return without a notification.                        *)
Spurious ==
  /\ tpc = "waiting"
  /\ tpc' = "peek"
  /\ UNCHANGED <<heap, sleepVars, next, pause, alarm>>

Sleeper(f) == \/ Start(f) \/ Push(f) \/ Notify(f) \/ OtherWake(f) \/ Resume(f) \/ Poll(f)
TimerStep  == Peek \/ Compare \/ Pop \/ Wait \/ Timeout

Next == Tick \/ TimerStep \/ Spurious \/ \E f \in Sleepers : Sleeper(f)

(* Time passes, the timer thread runs, and an executor that has begun to   *)
(* poll a future goes on with it.  Nothing has to return spuriously.       *)
Fairness ==
  /\ WF_vars(Tick) /\ WF_vars(TimerStep)
  /\ \A f \in Sleepers : WF_vars(Push(f) \/ Notify(f) \/ Resume(f) \/ Poll(f))

Spec     == Init /\ [][Next]_vars
FairSpec == Spec /\ Fairness

-----------------------------------------------------------------------------
(* The timer thread pops an entry after it let go of the lock under which  *)
(* it saw one that was due: what it pops is due nevertheless.              *)
NobodyWokenEarly == [][\A f \in heap \ heap' : left[f] = 0]_vars

(* A sleeper that has registered once is never forgotten: while it is not  *)
(* done its entry is in the heap, or its executor is about to find it due. *)
NobodyForgotten ==
  \A f \in Sleepers :
    /\ spc[f] = "parked" => f \in heap \/ woken[f]
    /\ spc[f] = "poll" => f \in heap \/ left[f] = 0

(* The timer thread waits without a timeout although the heap has entries, *)
(* and whoever could notify it has done so.                                *)
Asleep == /\ tpc = "waiting" /\ alarm = Never /\ heap # {}
          /\ \A f \in Sleepers : spc[f] # "notify"

(* A notification that comes too early is the only thing that can go wrong *)
(* for long: every sleeper is done some time, unless the timer thread went *)
(* to sleep over an entry it has not seen.                                 *)
SleepersWakeOrAsleep == \A f \in Sleepers : spc[f] = "parked" ~> (spc[f] = "done" \/ Asleep)

(* src/src/block.rs:100: await_sync polls a future "to completion", which  *)
(* for a future of async_sleep takes a wake by the timer thread.           *)
EverySleeperWakes == \A f \in Sleepers : spc[f] = "parked" ~> spc[f] = "done"
=============================================================================
