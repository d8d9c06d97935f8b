------------------------------- MODULE Signal -------------------------------
(***************************************************************************)
(* `Signal` (src/src/block.rs): a flag under a mutex, a condition variable *)
(* for the threads in Signal::wait, and a list of wakers for the futures   *)
(* of Signal::wait_async.  It is the only blocking primitive of the        *)
(* library: await_sync, the queue thread, the worker threads, TaskHandle,  *)
(* TaskController and Fence all wait on one.                               *)
(*                                                                         *)
(* A step is one critical section of the mutex `ready`.  Signal::wake and  *)
(* SignalFuture::poll take the second mutex, `wakers`, only while they     *)
(* hold the first, so it adds no interleaving of its own.                  *)
(***************************************************************************)
EXTENDS Naturals, FiniteSets

CONSTANTS Blockers,   \* threads that may call Signal::wait
          Futures,    \* futures of Signal::wait_async, one executor each
          MaxWakes    \* bound on the calls of Signal::wake

ASSUME SignalAssumption ==
  /\ MaxWakes \in Nat
  /\ Blockers \cap Futures = {}

VARIABLES ready,      \* Signal::ready
          wakers,     \* Signal::wakers: the futures whose waker is stored
          bpc,        \* where each blocker is
          fpc,        \* where each future and its executor are
          started,    \* SignalFuture::started
          woken,      \* the Signal of the executor that polls the future
          wakes,      \* history: number of wakes so far
          returns     \* history: number of returns from wait so far

blockerVars == <<bpc, returns>>
futureVars  == <<fpc, started, woken>>
vars == <<ready, wakers, bpc, fpc, started, woken, wakes, returns>>

TypeOK ==
  /\ ready \in BOOLEAN
  /\ wakers \in SUBSET Futures
  /\ bpc \in [Blockers -> {"idle", "enter", "asleep", "awake"}]
  /\ fpc \in [Futures -> {"idle", "poll", "parked", "done"}]
  /\ started \in [Futures -> BOOLEAN]
  /\ woken \in [Futures -> BOOLEAN]
  /\ wakes \in 0 .. MaxWakes /\ returns \in 0 .. MaxWakes

Init ==
  /\ ready = FALSE /\ wakers = {}
  /\ bpc = [b \in Blockers |-> "idle"]
  /\ fpc = [f \in Futures |-> "idle"]
  /\ started = [f \in Futures |-> FALSE]
  /\ woken = [f \in Futures |-> FALSE]
  /\ wakes = 0 /\ returns = 0

-----------------------------------------------------------------------------
(* Mutants of Wake: the notify_all is missing; a waker is dropped unwoken. *)
WakeWithoutNotify ==
  /\ wakes < MaxWakes
  /\ ready' = TRUE
  /\ woken' = [f \in Futures |-> woken[f] \/ f \in wakers]
  /\ wakers' = {}
  /\ wakes' = wakes + 1
  /\ UNCHANGED <<bpc, fpc, started, returns>>

WakeOneWaker ==
  /\ wakes < MaxWakes
  /\ ready' = TRUE
  /\ woken' = [f \in Futures |-> woken[f] \/ wakers = {f}]
  /\ wakers' = {}
  /\ bpc' = [b \in Blockers |-> IF bpc[b] = "asleep" THEN "awake" ELSE bpc[b]]
  /\ wakes' = wakes + 1
  /\ UNCHANGED <<fpc, started, returns>>

(* Signal::wake: under the lock, set the flag, wake and forget the stored  *)
(* wakers, and notify_all.                                                 *)
Wake ==
  /\ wakes < MaxWakes
  /\ ready' = TRUE
  /\ woken' = [f \in Futures |-> woken[f] \/ f \in wakers]
  /\ wakers' = {}
  /\ bpc' = [b \in Blockers |-> IF bpc[b] = "asleep" THEN "awake" ELSE bpc[b]]
  /\ wakes' = wakes + 1
  /\ UNCHANGED <<fpc, started, returns>>

(* A thread calls Signal::wait and goes for the lock.                      *)
CallWait(b) ==
  /\ bpc[b] = "idle"
  /\ bpc' = [bpc EXCEPT ![b] = "enter"]
  /\ UNCHANGED <<ready, wakers, futureVars, wakes, returns>>

(* Mutants of Consume: the flag is not reset; `if` instead of `while`.     *)
ConsumeWithoutReset(b) ==
  /\ bpc[b] \in {"enter", "awake"} /\ ready
  /\ bpc' = [bpc EXCEPT ![b] = "idle"]
  /\ returns' = returns + 1
  /\ UNCHANGED <<ready, wakers, futureVars, wakes>>

ConsumeWithoutRetest(b) ==
  /\ bpc[b] = "awake" \/ (bpc[b] = "enter" /\ ready)
  /\ ready' = FALSE
  /\ bpc' = [bpc EXCEPT ![b] = "idle"]
  /\ returns' = returns + 1
  /\ UNCHANGED <<wakers, futureVars, wakes>>

(* The loop of Signal::wait, lock held: consume the flag and return, or    *)
(* release the lock and sleep on the condition variable.                   *)
Consume(b) ==
  /\ bpc[b] \in {"enter", "awake"} /\ ready
  /\ ready' = FALSE
  /\ bpc' = [bpc EXCEPT ![b] = "idle"]
  /\ returns' = returns + 1
  /\ UNCHANGED <<wakers, futureVars, wakes>>

Sleep(b) ==
  /\ bpc[b] \in {"enter", "awake"} /\ ~ready
  /\ bpc' = [bpc EXCEPT ![b] = "asleep"]
  /\ UNCHANGED <<ready, wakers, futureVars, wakes, returns>>

(* Condvar::wait may return without a notification.                        *)
Spurious(b) ==
  /\ bpc[b] = "asleep"
  /\ bpc' = [bpc EXCEPT ![b] = "awake"]
  /\ UNCHANGED <<ready, wakers, futureVars, wakes, returns>>

-----------------------------------------------------------------------------
(* Signal::wait_async makes a SignalFuture and awaits it.                  *)
CallWaitAsync(f) ==
  /\ fpc[f] = "idle"
  /\ fpc' = [fpc EXCEPT ![f] = "poll"]
  /\ UNCHANGED <<ready, wakers, blockerVars, started, woken, wakes>>

(* SignalFuture::poll, lock held.  A ready signal is not consumed; the     *)
(* waker is stored by the first unsuccessful poll only.                    *)
PollReady(f) ==
  /\ fpc[f] = "poll" /\ ready
  /\ fpc' = [fpc EXCEPT ![f] = "done"]
  /\ UNCHANGED <<ready, wakers, blockerVars, started, woken, wakes>>

(* Mutant of PollPending: the waker is not stored.                         *)
PollWithoutWaker(f) ==
  /\ fpc[f] = "poll" /\ ~ready
  /\ started' = [started EXCEPT ![f] = TRUE]
  /\ fpc' = [fpc EXCEPT ![f] = "parked"]
  /\ UNCHANGED <<ready, wakers, blockerVars, woken, wakes>>

PollPending(f) ==
  /\ fpc[f] = "poll" /\ ~ready
  /\ wakers' = IF started[f] THEN wakers ELSE wakers \cup {f}
  /\ started' = [started EXCEPT ![f] = TRUE]
  /\ fpc' = [fpc EXCEPT ![f] = "parked"]
  /\ UNCHANGED <<ready, blockerVars, woken, wakes>>

(* The executor (await_sync, or a worker thread) waits on its own Signal   *)
(* until woken, and polls again.                                           *)
Resume(f) ==
  /\ fpc[f] = "parked" /\ woken[f]
  /\ woken' = [woken EXCEPT ![f] = FALSE]
  /\ fpc' = [fpc EXCEPT ![f] = "poll"]
  /\ UNCHANGED <<ready, wakers, blockerVars, started, wakes>>

(* A worker thread has one waker for all its futures: another one may      *)
(* have it poll this one too.                                              *)
OtherWake(f) ==
  /\ fpc[f] = "parked" /\ ~woken[f]
  /\ woken' = [woken EXCEPT ![f] = TRUE]
  /\ UNCHANGED <<ready, wakers, blockerVars, fpc, started, wakes>>

BlockerStep(b) == CallWait(b) \/ Consume(b) \/ Sleep(b) \/ Spurious(b)
FutureStep(f)  == \/ CallWaitAsync(f) \/ PollReady(f) \/ PollPending(f)
                  \/ Resume(f) \/ OtherWake(f)

Next == \/ Wake
        \/ \E b \in Blockers : BlockerStep(b)
        \/ \E f \in Futures : FutureStep(f)

(* Threads that can take the lock take it, and woken executors run.        *)
(* Nobody has to call wake, wait or wait_async.                            *)
Fairness ==
  /\ \A b \in Blockers : WF_vars(Consume(b)) /\ WF_vars(Sleep(b))
  /\ \A f \in Futures : WF_vars(PollReady(f) \/ PollPending(f)) /\ WF_vars(Resume(f))

Spec     == Init /\ [][Next]_vars
FairSpec == Spec /\ Fairness

-----------------------------------------------------------------------------
(* A thread sleeps on the condition variable only while the flag is down:  *)
(* Signal::wake cannot slip between the test of the flag and the sleep.    *)
NobodySleepsOnReady == \A b \in Blockers : bpc[b] = "asleep" => ~ready

(* Every return from Signal::wait consumes a wake of its own, however many *)
(* threads race for the flag that notify_all announced.                    *)
OneReturnPerWake == returns + (IF ready THEN 1 ELSE 0) <= wakes

(* As long as no blocking waiter has reset the flag, a signal that some    *)
(* future waits for has the future's waker, or the future is already being *)
(* woken: SignalFuture::poll need not register twice.                      *)
ParkedIsRegistered ==
  returns = 0 =>
    \A f \in Futures : fpc[f] = "parked" /\ ~woken[f] => f \in wakers /\ ~ready

(* A wake resolves every future, unless a blocking waiter resets the flag. *)
FuturesResolve ==
  \A f \in Futures : (ready /\ fpc[f] # "idle") ~> (fpc[f] = "done" \/ returns > 0)

(* src/src/block.rs:100: await_sync polls a future "to completion": one of *)
(* Signal::wait_async is resolved if the signal stays ready for good.      *)
EveryFutureResolves ==
  \A f \in Futures : <>[](ready /\ fpc[f] # "idle") => <>(fpc[f] = "done")

(* The abstract event a Signal implements.                                 *)
E == INSTANCE Event WITH
       set <- ready,
       blocked <- {b \in Blockers : bpc[b] # "idle"},
       resolved <- {f \in Futures : fpc[f] = "done"}
ImplementsEvent == E!Spec
=============================================================================
