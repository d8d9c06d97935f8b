------------------------------ MODULE MainThread ------------------------------
(***************************************************************************)
(* A thread of the program as a worker thread: register_main_thread,       *)
(* submit_to_main_thread and end_main_thread (src/src/lib.rs, 101-183),    *)
(* and WorkerThread::run with its end flag (src/src/queue.rs, 286-375).    *)
(*                                                                         *)
(* The lock on MVSync::worker orders these three calls, but not the worker *)
(* loop, which reads the flag and the channel and stores 2 without it.     *)
(* Here a task is finished in one step; how the steps of that interleave   *)
(* with a queue thread is the matter of module Scheduler.                  *)
(***************************************************************************)
EXTENDS Naturals, Sequences

CONSTANTS
  Calls,        \* calls of register_main_thread; a call also names its init task
  NoCall,
  EndWhenDone,  \* the calls with end_when_done
  Tasks,        \* tasks submitted to the main thread: those of InitTasks by the
                \* init task of a call, each other one by a thread of its own
  InitTasks,    \* InitTasks[r]: what the init task of r submits, in this order
  Enders,       \* threads that call end_main_thread
  Pred, NoTask, \* predecessor of a continuation, or NoTask
  Elsewhere,    \* tasks that run on the worker threads of the queue
  Pends,        \* how often a task may return Pending
  MayPanic, MayCancel

AllTasks == Tasks \cup Calls

ASSUME MainThreadAssumption ==
  /\ NoCall \notin Calls /\ NoTask \notin Tasks \cup Elsewhere
  /\ Calls \cap Tasks = {} /\ Elsewhere \cap AllTasks = {}
  /\ EndWhenDone \subseteq Calls
  /\ InitTasks \in [Calls -> Seq(Tasks)]
  /\ \A q, r \in Calls : \A i \in DOMAIN InitTasks[q], j \in DOMAIN InitTasks[r] :
       InitTasks[q][i] = InitTasks[r][j] => q = r /\ i = j
  /\ Pred \in [AllTasks -> Tasks \cup Elsewhere \cup {NoTask}]
  /\ \A r \in Calls : Pred[r] = NoTask
  /\ \A t, u \in AllTasks : Pred[t] = Pred[u] /\ Pred[t] # NoTask => t = u
  /\ Pends \in [AllTasks -> Nat]
  /\ MayPanic \subseteq AllTasks /\ MayCancel \subseteq Tasks

VARIABLES
  worker,        \* MVSync::worker: the last call that registered
  end,           \* WorkerThread::end: 0, 1 (to end), 2 (finished)
  rpc,           \* where each call of register_main_thread is
  futures, polling, chan, msig,
  spc,           \* where the call that submits a task is
  epc,           \* where a call of end_main_thread is
  state, awaited, pends,
  dest, begun, done   \* history

callVars == <<worker, rpc, spc, epc>>
loopVars == <<futures, polling>>
taskVars == <<state, awaited, pends, begun, done>>
vars == <<callVars, end, loopVars, chan, msig, taskVars, dest>>

TaskStates == {"Pending", "Ready", "Panicked", "Cancelled"}
RegisterPCs == {"idle", "refused", "top", "empty?", "recv", "poll", "park", "leave",
                "drop", "returned"}

TypeOK ==
  /\ worker \in Calls \cup {NoCall} /\ end \in [Calls -> 0 .. 2]
  /\ rpc \in [Calls -> RegisterPCs]
  /\ futures \in [Calls -> Seq(AllTasks)] /\ polling \in [Calls -> Seq(AllTasks)]
  /\ chan \in [Calls -> Seq(AllTasks)] /\ msig \in [Calls -> BOOLEAN]
  /\ spc \in [Tasks -> {"idle", "checked", "sent", "accepted", "refused"}]
  /\ epc \in [Enders -> {"idle", "checked", "returned"}]
  /\ state \in [AllTasks \cup Elsewhere -> TaskStates]
  /\ awaited \subseteq AllTasks /\ pends \in [AllTasks -> Nat]
  /\ dest \in [AllTasks -> Calls \cup {NoCall}]
  /\ begun \subseteq AllTasks /\ done \subseteq AllTasks \cup Elsewhere

Init ==
  /\ worker = NoCall /\ end = [r \in Calls |-> 0]
  /\ rpc = [r \in Calls |-> "idle"]
  /\ futures = [r \in Calls |-> <<>>] /\ polling = [r \in Calls |-> <<>>]
  /\ chan = [r \in Calls |-> <<>>] /\ msig = [r \in Calls |-> FALSE]
  /\ spc = [t \in Tasks |-> "idle"] /\ epc = [e \in Enders |-> "idle"]
  /\ state = [t \in AllTasks \cup Elsewhere |-> "Pending"]
  /\ awaited = {} /\ pends = Pends
  /\ dest = [t \in AllTasks |-> NoCall] /\ begun = {} /\ done = {}

-----------------------------------------------------------------------------
(* MVSync::worker is locked for reading by submitters, for writing by      *)
(* enders and, in one step, by register_main_thread.                       *)
Reading == \E t \in Tasks : spc[t] \in {"checked", "sent"}
Writing == \E e \in Enders : epc[e] = "checked"

Ended == worker = NoCall \/ end[worker] > 0
Finished == worker = NoCall \/ end[worker] = 2

(* Mutant of Register: ended is asked instead of finished.                 *)
RegisterOnceEnded(r) ==
  /\ rpc[r] = "idle" /\ ~Reading /\ ~Writing
  /\ IF Ended
     THEN /\ worker' = r
          /\ chan' = [chan EXCEPT ![r] = <<r>>]
          /\ msig' = [msig EXCEPT ![r] = TRUE]
          /\ dest' = [dest EXCEPT ![r] = r]
          /\ rpc' = [rpc EXCEPT ![r] = "top"]
     ELSE rpc' = [rpc EXCEPT ![r] = "refused"] /\ UNCHANGED <<worker, chan, msig, dest>>
  /\ UNCHANGED <<spc, epc, end, loopVars, taskVars>>

(* A WorkerThread with a channel of its own replaces the last one and gets *)
(* the init task; or the call panics.  The loop runs without the lock.     *)
Register(r) ==
  /\ rpc[r] = "idle" /\ ~Reading /\ ~Writing
  /\ IF Finished
     THEN /\ worker' = r
          /\ chan' = [chan EXCEPT ![r] = <<r>>]
          /\ msig' = [msig EXCEPT ![r] = TRUE]
          /\ dest' = [dest EXCEPT ![r] = r]
          /\ rpc' = [rpc EXCEPT ![r] = "top"]
     ELSE rpc' = [rpc EXCEPT ![r] = "refused"] /\ UNCHANGED <<worker, chan, msig, dest>>
  /\ UNCHANGED <<spc, epc, end, loopVars, taskVars>>

(* submit_to_main_thread, by an init task in its turn or by another thread *)
(* at any time: the flag is read, the task sent, the main thread woken.    *)
Current(r) == Head(polling[r])
Submitter(t) == {r \in Calls : \E i \in DOMAIN InitTasks[r] : InitTasks[r][i] = t}
InTurn(t, r) ==
  /\ rpc[r] = "poll" /\ polling[r] # <<>> /\ Current(r) = r /\ r \notin awaited
  /\ \E i \in DOMAIN InitTasks[r] :
       InitTasks[r][i] = t /\ \A j \in 1 .. i - 1 : spc[InitTasks[r][j]] = "accepted"

CheckEnded(t) ==
  /\ spc[t] = "idle" /\ ~Writing
  /\ \A r \in Submitter(t) : InTurn(t, r)
  /\ spc' = [spc EXCEPT ![t] = IF Ended THEN "refused" ELSE "checked"]
  /\ UNCHANGED <<worker, rpc, epc, end, loopVars, chan, msig, taskVars, dest>>

(* The channel has a receiver until the loop returns; without one, send    *)
(* fails and the caller panics.                                            *)
Send(t) ==
  /\ spc[t] = "checked"
  /\ IF rpc[worker] = "returned"
     THEN spc' = [spc EXCEPT ![t] = "refused"] /\ UNCHANGED <<chan, dest>>
     ELSE /\ spc' = [spc EXCEPT ![t] = "sent"]
          /\ chan' = [chan EXCEPT ![worker] = Append(@, t)]
          /\ dest' = [dest EXCEPT ![t] = worker]
  /\ UNCHANGED <<worker, rpc, epc, end, loopVars, msig, taskVars>>

WakeMain(t) ==
  /\ spc[t] = "sent"
  /\ spc' = [spc EXCEPT ![t] = "accepted"]
  /\ msig' = [msig EXCEPT ![worker] = TRUE]
  /\ UNCHANGED <<worker, rpc, epc, end, loopVars, chan, taskVars, dest>>

(* end_main_thread: the flag is read, and stored by WorkerThread::end.     *)
CheckRunning(e) ==
  /\ epc[e] = "idle" /\ ~Reading /\ ~Writing
  /\ epc' = [epc EXCEPT ![e] = IF Ended THEN "returned" ELSE "checked"]
  /\ UNCHANGED <<worker, rpc, spc, end, loopVars, chan, msig, taskVars, dest>>

StoreEnd(e) ==
  /\ epc[e] = "checked"
  /\ end' = [end EXCEPT ![worker] = 1]
  /\ epc' = [epc EXCEPT ![e] = "returned"]
  /\ UNCHANGED <<worker, rpc, spc, loopVars, chan, msig, taskVars, dest>>

-----------------------------------------------------------------------------
(* The loop of WorkerThread::run.                                          *)
Goto(r, pc) == rpc' = [rpc EXCEPT ![r] = pc]

(* try_recv until the channel is empty.                                    *)
Drain(r) ==
  /\ polling' = [polling EXCEPT ![r] = futures[r] \o chan[r]]
  /\ futures' = [futures EXCEPT ![r] = <<>>]
  /\ chan' = [chan EXCEPT ![r] = <<>>]
  /\ Goto(r, "poll")

(* Mutant of Top: the flag is not read.                                    *)
TopDeaf(r) ==
  /\ rpc[r] = "top"
  /\ IF futures[r] = <<>>
     THEN Goto(r, IF r \in EndWhenDone THEN "empty?" ELSE "recv") /\ UNCHANGED <<loopVars, chan>>
     ELSE Drain(r)
  /\ UNCHANGED <<worker, spc, epc, end, msig, taskVars, dest>>

(* Without futures the end flag is read; with some, try_recv empties the   *)
(* channel.                                                                *)
Top(r) ==
  /\ rpc[r] = "top"
  /\ IF futures[r] = <<>>
     THEN /\ Goto(r, IF end[r] > 0 THEN "leave" ELSE IF r \in EndWhenDone THEN "empty?" ELSE "recv")
          /\ UNCHANGED <<loopVars, chan>>
     ELSE Drain(r)
  /\ UNCHANGED <<worker, spc, epc, end, msig, taskVars, dest>>

(* Mutant of CheckEmpty: having no futures is taken for being done.        *)
CheckEmptyHanded(r) ==
  /\ rpc[r] = "empty?"
  /\ Goto(r, IF futures[r] = <<>> THEN "leave" ELSE "recv")
  /\ UNCHANGED <<worker, spc, epc, end, loopVars, chan, msig, taskVars, dest>>

CheckEmpty(r) ==
  /\ rpc[r] = "empty?"
  /\ Goto(r, IF chan[r] = <<>> THEN "leave" ELSE "recv")
  /\ UNCHANGED <<worker, spc, epc, end, loopVars, chan, msig, taskVars, dest>>

(* Mutant of Recv: the rest of the channel is lost.                        *)
RecvOnly(r) ==
  /\ rpc[r] = "recv" /\ chan[r] # <<>>
  /\ polling' = [polling EXCEPT ![r] = <<Head(chan[r])>>]
  /\ chan' = [chan EXCEPT ![r] = <<>>]
  /\ Goto(r, "poll")
  /\ UNCHANGED <<worker, spc, epc, end, futures, msig, taskVars, dest>>

(* recv blocks; the sender lives in MVSync::worker.                        *)
Recv(r) ==
  /\ rpc[r] = "recv" /\ chan[r] # <<>>
  /\ polling' = [polling EXCEPT ![r] = <<Head(chan[r])>>]
  /\ chan' = [chan EXCEPT ![r] = Tail(@)]
  /\ Goto(r, "poll")
  /\ UNCHANGED <<worker, spc, epc, end, futures, msig, taskVars, dest>>

(* A poll gets to the function of a task if what it awaits has happened;   *)
(* a continuation blocks the thread in TaskHandle::wait first: nobody has  *)
(* asked can_execute.  An init task goes on after its submissions.         *)
Polls(r, t) ==
  /\ rpc[r] = "poll" /\ polling[r] # <<>> /\ t = Current(r)
  /\ t \notin awaited
  /\ Pred[t] # NoTask => Pred[t] \in done

Submitted(t) == t \in Calls => \A i \in DOMAIN InitTasks[t] : spc[InitTasks[t][i]] = "accepted"
Rejected(t)  == t \in Calls /\ \E i \in DOMAIN InitTasks[t] : spc[InitTasks[t][i]] = "refused"
Runs(t) == t \in begun \/ (Pred[t] # NoTask => state[Pred[t]] = "Ready")

(* retain_mut drops the future of a finished task and announces it.        *)
Finish(r, t, s) ==
  /\ state' = [state EXCEPT ![t] = s]
  /\ done' = done \cup {t}
  /\ begun' = IF Runs(t) THEN begun \cup {t} ELSE begun
  /\ polling' = [polling EXCEPT ![r] = Tail(@)]
  /\ UNCHANGED <<callVars, end, futures, chan, msig, awaited, pends, dest>>

Returns(r) == \E t \in AllTasks :
  /\ Polls(r, t) /\ Submitted(t)
  /\ Finish(r, t, IF Runs(t) THEN "Ready" ELSE IF state[Pred[t]] = "Panicked" THEN "Panicked" ELSE "Cancelled")

Panics(r) == \E t \in AllTasks :
  /\ Polls(r, t) /\ Runs(t)
  /\ Rejected(t) \/ (t \in MayPanic /\ Submitted(t))
  /\ Finish(r, t, "Panicked")

(* Pending: kept, unless it was cancelled.                                 *)
Keep(r, t) ==
  /\ polling' = [polling EXCEPT ![r] = Tail(@)]
  /\ IF state[t] = "Cancelled"
     THEN done' = done \cup {t} /\ UNCHANGED futures
     ELSE futures' = [futures EXCEPT ![r] = Append(@, t)] /\ UNCHANGED done
  /\ UNCHANGED <<callVars, end, chan, msig, state, dest>>

PollPending(r) == \E t \in AllTasks :
  /\ Polls(r, t) /\ Runs(t) /\ Submitted(t) /\ pends[t] > 0
  /\ pends' = [pends EXCEPT ![t] = @ - 1]
  /\ awaited' = awaited \cup {t}
  /\ begun' = begun \cup {t}
  /\ Keep(r, t)

PollAgain(r) == \E t \in AllTasks :
  /\ rpc[r] = "poll" /\ polling[r] # <<>> /\ t = Current(r) /\ t \in awaited
  /\ Keep(r, t)
  /\ UNCHANGED <<pends, awaited, begun>>

RoundEnds(r) ==
  /\ rpc[r] = "poll" /\ polling[r] = <<>>
  /\ Goto(r, IF futures[r] # <<>> /\ chan[r] = <<>> THEN "park" ELSE "top")
  /\ UNCHANGED <<worker, spc, epc, end, loopVars, chan, msig, taskVars, dest>>

Park(r) ==
  /\ rpc[r] = "park" /\ msig[r]
  /\ msig' = [msig EXCEPT ![r] = FALSE]
  /\ Goto(r, "top")
  /\ UNCHANGED <<worker, spc, epc, end, loopVars, chan, taskVars, dest>>

(* Mutant of StoreFinished: 2 is added.                                    *)
AddFinished(r) ==
  /\ rpc[r] = "leave"
  /\ end' = [end EXCEPT ![r] = @ + 2]
  /\ Goto(r, "drop")
  /\ UNCHANGED <<worker, spc, epc, loopVars, chan, msig, taskVars, dest>>

(* The loop is left: 2 is stored, then the receiver is dropped, with the   *)
(* tasks in it, and register_main_thread returns.                          *)
StoreFinished(r) ==
  /\ rpc[r] = "leave"
  /\ end' = [end EXCEPT ![r] = 2]
  /\ Goto(r, "drop")
  /\ UNCHANGED <<worker, spc, epc, loopVars, chan, msig, taskVars, dest>>

DropReceiver(r) ==
  /\ rpc[r] = "drop"
  /\ chan' = [chan EXCEPT ![r] = <<>>]
  /\ Goto(r, "returned")
  /\ UNCHANGED <<worker, spc, epc, end, loopVars, msig, taskVars, dest>>

MainStep(r) == \/ Top(r) \/ CheckEmpty(r) \/ Recv(r) \/ Returns(r) \/ Panics(r)
               \/ PollPending(r) \/ PollAgain(r) \/ RoundEnds(r) \/ Park(r)
               \/ StoreFinished(r) \/ DropReceiver(r)
               \/ \E i \in DOMAIN InitTasks[r] : CheckEnded(InitTasks[r][i])

-----------------------------------------------------------------------------
(* What a task awaits happens and its waker wakes the main thread; for     *)
(* async_yield (src/src/utils.rs) that is in the poll itself.              *)
Waken(t) ==
  /\ t \in awaited
  /\ awaited' = awaited \ {t}
  /\ msig' = [msig EXCEPT ![dest[t]] = TRUE]
  /\ UNCHANGED <<callVars, end, loopVars, chan, state, pends, begun, done, dest>>

Cancel(t) ==
  /\ t \in MayCancel /\ state[t] # "Cancelled"
  /\ state' = [state EXCEPT ![t] = "Cancelled"]
  /\ UNCHANGED <<callVars, end, loopVars, chan, msig, awaited, pends, begun, done, dest>>

FinishElsewhere(t) ==
  /\ t \in Elsewhere \ done
  /\ \E s \in {"Ready", "Panicked"} : state' = [state EXCEPT ![t] = s]
  /\ done' = done \cup {t}
  /\ UNCHANGED <<callVars, end, loopVars, chan, msig, awaited, pends, begun, dest>>

(* A main thread that waits for tasks, with nobody about to send one.      *)
Idle(r) == rpc[r] = "recv" /\ chan[r] = <<>>

Terminated ==
  /\ \A r \in Calls : rpc[r] \in {"refused", "returned"} \/ Idle(r)
  /\ \A t \in Tasks : spc[t] = "idle" => Submitter(t) # {}
  /\ ~Reading /\ \A e \in Enders : epc[e] = "returned"
  /\ UNCHANGED vars

Next == \/ \E r \in Calls : Register(r) \/ MainStep(r)
        \/ \E t \in Tasks : CheckEnded(t) \/ Send(t) \/ WakeMain(t) \/ Cancel(t)
        \/ \E e \in Enders : CheckRunning(e) \/ StoreEnd(e)
        \/ \E t \in AllTasks : Waken(t)
        \/ \E t \in Elsewhere : FinishElsewhere(t)
        \/ Terminated

(* Threads run, calls that were begun go on, awaited events happen, and    *)
(* the queue finishes its tasks.  Nobody has to call anything.             *)
Fairness == /\ \A r \in Calls : WF_vars(MainStep(r))
            /\ \A t \in Tasks : WF_vars(Send(t) \/ WakeMain(t))
            /\ \A e \in Enders : WF_vars(StoreEnd(e))
            /\ \A t \in AllTasks : WF_vars(Waken(t))
            /\ \A t \in Elsewhere : WF_vars(FinishElsewhere(t))

Spec     == Init /\ [][Next]_vars
FairSpec == Spec /\ Fairness

-----------------------------------------------------------------------------
(* src/src/lib.rs:110: "Only a single main thread can be registered". The  *)
(* loop of the previous one is over, whatever made it end, and every task  *)
(* whose function it has called is finished. The tasks that it was sent    *)
(* and has not received are not, although the comment goes on that all the *)
(* tasks on the previous main thread must have finished: a main thread     *)
(* without futures notices the end flag whatever is in its channel, be it  *)
(* the init task, and DropReceiver drops that.                             *)
OneMainThread ==
  /\ \A q, r \in Calls : worker = r /\ q # r =>
       rpc[q] \in {"idle", "refused", "drop", "returned"}
  /\ \A r \in Calls : rpc[r] \in {"leave", "drop", "returned"} =>
       \A t \in begun : dest[t] = r => t \in done

(* Until its receiver is dropped, the main thread has every task that was  *)
(* sent to it exactly once: in its channel, among its futures, or          *)
(* finished.  What is lost is what is in the channel when it is dropped.   *)
Held(r) == chan[r] \o futures[r] \o polling[r]
AcceptedIsHeld ==
  \A r \in Calls : rpc[r] # "returned" =>
    /\ \A t \in AllTasks : dest[t] = r =>
         (t \in done) # (\E i \in DOMAIN Held(r) : Held(r)[i] = t)
    /\ \A i, j \in DOMAIN Held(r) : Held(r)[i] = Held(r)[j] => i = j

(* The test in src/src/lib.rs:306: what the init function of a main thread *)
(* with end_when_done submits has run when register_main_thread returns,   *)
(* if nobody else ended the main thread.                                   *)
InitTasksRun ==
  \A r \in EndWhenDone : rpc[r] = "returned" /\ (\A e \in Enders : epc[e] = "idle") =>
    r \in done /\ \A i \in DOMAIN InitTasks[r] :
      dest[InitTasks[r][i]] = r => InitTasks[r][i] \in done

(* src/src/lib.rs:113: with end_when_done the call returns some time,      *)
(* finitely many tasks being submitted meanwhile; and the flag is noticed  *)
(* wherever end_main_thread finds the main thread, but in recv: there the  *)
(* next task has to come first.  It returns, also if it leaves tasks in    *)
(* its channel.                                                            *)
EndIsNoticed ==
  \A r \in Calls :
    (r \in EndWhenDone /\ rpc[r] = "top") \/ (end[r] = 1 /\ ~Idle(r)) ~> rpc[r] = "returned"

(* src/src/lib.rs:103: register_main_thread blocks "until end_main_thread  *)
(* is called and all async tasks have finished".                           *)
EndedMainThreadReturns == \A r \in Calls : end[r] = 1 ~> rpc[r] = "returned"
=============================================================================
