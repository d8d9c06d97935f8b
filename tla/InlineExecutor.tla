--------------------------- MODULE InlineExecutor ---------------------------
(***************************************************************************)
(* MVSyncSpecs::thread_count = 0: there is no queue thread, and whoever    *)
(* submits a task runs it (src/src/run.rs).  Several threads may submit;   *)
(* they share semaphores, task states and signals.  A predecessor may also *)
(* be a task of another MVSync instance, which does have threads.          *)
(*                                                                         *)
(* As in module Scheduler, every access to what threads share is a step,   *)
(* and a Signal is the event of module Event.                              *)
(***************************************************************************)
EXTENDS Naturals, Sequences

CONSTANTS
  Tasks, NoTask, Semaphores,
  Clients,         \* threads that submit
  Batch,           \* Batch[c]: the tasks client c submits
  Singly,          \* clients that submit one task after the other: run
                   \* (the others submit all of them at once: run_all)
  Elsewhere,       \* tasks of another MVSync instance
  WaitOn, Signals, Pred, MayPanic, MayCancel

ASSUME InlineAssumption ==
  /\ NoTask \notin Tasks /\ Elsewhere \subseteq Tasks /\ Singly \subseteq Clients
  /\ Batch \in [Clients -> Seq(Tasks \ Elsewhere)]
  \* a task is submitted once, and has one continuation: both take it by value
  /\ \A c, d \in Clients : \A i \in DOMAIN Batch[c], j \in DOMAIN Batch[d] :
       Batch[c][i] = Batch[d][j] => c = d /\ i = j
  /\ Pred \in [Tasks -> Tasks \cup {NoTask}]
  /\ \A t, u \in Tasks : Pred[t] = Pred[u] /\ Pred[t] # NoTask => t = u
  /\ WaitOn \in [Tasks -> SUBSET Semaphores] /\ Signals \in [Tasks -> SUBSET Semaphores]
  /\ MayPanic \subseteq Tasks /\ MayCancel \subseteq Tasks

VARIABLES cpc,         \* where each client is
          todo,        \* run_all: `tasks`, the rest of the round
          kept,        \* run_all: `new_tasks`
          ran,         \* run_all: `ran`
          got,         \* what TaskHandle::wait has read
          state, sem, tsig,
          begun, done  \* history

clientVars == <<cpc, todo, kept, ran, got>>
vars == <<clientVars, state, sem, tsig, begun, done>>

TaskStates == {"Pending", "Ready", "Panicked", "Cancelled"}
ClientPCs  == {"next", "panic", "cancelled?", "ready?", "join", "take", "match",
               "body", "announce", "wake", "returned", "dead"}

TypeOK ==
  /\ cpc \in [Clients -> ClientPCs] /\ ran \in [Clients -> BOOLEAN]
  /\ todo \in [Clients -> Seq(Tasks)] /\ kept \in [Clients -> Seq(Tasks)]
  /\ got \in [Clients -> TaskStates] /\ state \in [Tasks -> TaskStates]
  /\ sem \in [Semaphores -> BOOLEAN] /\ tsig \in [Tasks -> BOOLEAN]
  /\ begun \subseteq Tasks /\ done \subseteq Tasks
  /\ \A c \in Clients : Len(todo[c]) + Len(kept[c]) <= Len(Batch[c])

Init ==
  /\ cpc = [c \in Clients |-> "next"] /\ ran = [c \in Clients |-> FALSE]
  /\ todo = Batch /\ kept = [c \in Clients |-> <<>>]
  /\ got = [c \in Clients |-> "Pending"]
  /\ state = [t \in Tasks |-> "Pending"] /\ sem = [s \in Semaphores |-> FALSE]
  /\ tsig = [t \in Tasks |-> FALSE] /\ begun = {} /\ done = {}

PredState(t) == IF Pred[t] = NoTask THEN "Ready" ELSE state[Pred[t]]

(* Mutants of CanExecute: the semaphores are not asked; the predecessor is *)
(* not asked.                                                              *)
CanExecuteUnsignalled(t) == PredState(t) # "Pending"
CanExecuteUnordered(t) == \A s \in WaitOn[t] : sem[s]

CanExecute(t) == (\A s \in WaitOn[t] : sem[s]) /\ PredState(t) # "Pending"

(* Mutant of Current: the tasks are taken from the end.                    *)
Last(c) == todo[c][Len(todo[c])]

Current(c) == Head(todo[c])
Goto(c, pc) == cpc' = [cpc EXCEPT ![c] = pc]
SetState(t, s) == state' = [state EXCEPT ![t] = s]

-----------------------------------------------------------------------------
(* The task is checked: is_panicked, get_panic (which panics if the state  *)
(* of the predecessor has changed meanwhile), is_cancelled ...             *)
CheckPanicked(c) ==
  /\ cpc[c] = "next" /\ todo[c] # <<>>
  /\ Goto(c, IF PredState(Current(c)) = "Panicked" THEN "panic" ELSE "cancelled?")
  /\ UNCHANGED <<todo, kept, ran, got, state, sem, tsig, begun, done>>

(* Mutant of GetPanic: the panic is not passed on to the task.             *)
GetPanicOnly(c) ==
  /\ cpc[c] = "panic"
  /\ Goto(c, IF PredState(Current(c)) = "Panicked" THEN "announce" ELSE "dead")
  /\ UNCHANGED <<todo, kept, ran, got, state, sem, tsig, begun, done>>

GetPanic(c) ==
  /\ cpc[c] = "panic"
  /\ IF PredState(Current(c)) = "Panicked"
     THEN SetState(Current(c), "Panicked") /\ Goto(c, "announce")
     ELSE Goto(c, "dead") /\ UNCHANGED state
  /\ UNCHANGED <<todo, kept, ran, got, sem, tsig, begun, done>>

CheckCancelled(c) ==
  /\ cpc[c] = "cancelled?"
  /\ IF "Cancelled" \in {PredState(Current(c)), state[Current(c)]}
     THEN SetState(Current(c), "Cancelled") /\ Goto(c, "announce")
     ELSE Goto(c, "ready?") /\ UNCHANGED state
  /\ UNCHANGED <<todo, kept, ran, got, sem, tsig, begun, done>>

(* ... and can_execute.  A task that cannot be executed is kept for the    *)
(* next round by run_all and dropped by run.                               *)
NextTask(c) == todo' = [todo EXCEPT ![c] = Tail(@)] /\ Goto(c, "next")

(* Mutant of CheckReady: an executed task is kept.                         *)
CheckReadyKeepAll(c) ==
  /\ cpc[c] = "ready?"
  /\ IF CanExecute(Current(c))
     THEN Goto(c, IF Pred[Current(c)] = NoTask THEN "body" ELSE "join") /\ UNCHANGED todo
     ELSE NextTask(c)
  /\ kept' = [kept EXCEPT ![c] = Append(@, Current(c))]
  /\ UNCHANGED <<ran, got, state, sem, tsig, begun, done>>

CheckReady(c) ==
  /\ cpc[c] = "ready?"
  /\ IF CanExecute(Current(c))
     THEN /\ Goto(c, IF Pred[Current(c)] = NoTask THEN "body" ELSE "join")
          /\ UNCHANGED <<todo, kept>>
     ELSE /\ NextTask(c)
          /\ kept' = [kept EXCEPT ![c] = IF c \in Singly THEN @ ELSE Append(@, Current(c))]
  /\ UNCHANGED <<ran, got, state, sem, tsig, begun, done>>

(* Task::await_sync.  A continuation waits for the signal of its           *)
(* predecessor, and reads its state once for the result and once to decide.*)
Join(c) ==
  /\ cpc[c] = "join" /\ tsig[Pred[Current(c)]]
  /\ tsig' = [tsig EXCEPT ![Pred[Current(c)]] = FALSE]
  /\ Goto(c, "take")
  /\ UNCHANGED <<todo, kept, ran, got, state, sem, begun, done>>

TakeResult(c) ==
  /\ cpc[c] = "take"
  /\ got' = [got EXCEPT ![c] = PredState(Current(c))]
  /\ Goto(c, IF PredState(Current(c)) = "Pending" THEN "dead" ELSE "match")
  /\ UNCHANGED <<todo, kept, ran, state, sem, tsig, begun, done>>

MatchResult(c) ==
  /\ cpc[c] = "match"
  /\ LET p == PredState(Current(c))
     IN  IF p = "Ready"
         THEN Goto(c, IF got[c] = "Ready" THEN "body" ELSE "announce") /\ UNCHANGED state
         ELSE /\ SetState(Current(c), IF p = "Panicked" THEN p ELSE "Cancelled")
              /\ Goto(c, "announce")
  /\ UNCHANGED <<todo, kept, ran, got, sem, tsig, begun, done>>

(* The function runs, awaiting what it awaits, until it returns; if it     *)
(* panics nobody catches it, and the thread that submitted it panics.      *)
BodyReturns(c) ==
  /\ cpc[c] = "body"
  /\ begun' = begun \cup {Current(c)}
  /\ SetState(Current(c), "Ready")
  /\ Goto(c, "announce")
  /\ UNCHANGED <<todo, kept, ran, got, sem, tsig, done>>

BodyPanics(c) ==
  /\ cpc[c] = "body" /\ Current(c) \in MayPanic
  /\ begun' = begun \cup {Current(c)}
  /\ Goto(c, "dead")
  /\ UNCHANGED <<todo, kept, ran, got, state, sem, tsig, done>>

(* Mutant of Announce: the semaphores are not signalled.                   *)
AnnounceNothing(c) ==
  /\ cpc[c] = "announce"
  /\ done' = done \cup {Current(c)}
  /\ Goto(c, "wake")
  /\ UNCHANGED <<todo, kept, ran, got, state, sem, tsig, begun>>

Announce(c) ==
  /\ cpc[c] = "announce"
  /\ sem' = [s \in Semaphores |-> sem[s] \/ s \in Signals[Current(c)]]
  /\ done' = done \cup {Current(c)}
  /\ Goto(c, "wake")
  /\ UNCHANGED <<todo, kept, ran, got, state, tsig, begun>>

WakeTask(c) ==
  /\ cpc[c] = "wake"
  /\ tsig' = [tsig EXCEPT ![Current(c)] = TRUE]
  /\ ran' = [ran EXCEPT ![c] = TRUE]
  /\ NextTask(c)
  /\ UNCHANGED <<kept, got, state, sem, begun, done>>

(* The end of a round.  `count` is to stop run_all after IdleRounds rounds *)
(* in which nothing ran, but every round sets it to 0 at its beginning.    *)
IdleRounds == 5

RoundEnds(c) ==
  /\ cpc[c] = "next" /\ todo[c] = <<>>
  /\ LET count == IF ran[c] THEN 0 ELSE 1
     IN  IF c \in Singly \/ count >= IdleRounds
         THEN Goto(c, "returned") /\ UNCHANGED <<todo, kept, ran>>
         ELSE /\ todo' = [todo EXCEPT ![c] = kept[c]]
              /\ kept' = [kept EXCEPT ![c] = <<>>]
              /\ ran' = [ran EXCEPT ![c] = FALSE]
              /\ UNCHANGED cpc
  /\ UNCHANGED <<got, state, sem, tsig, begun, done>>

Step(c) == \/ CheckPanicked(c) \/ GetPanic(c) \/ CheckCancelled(c) \/ CheckReady(c)
           \/ Join(c) \/ TakeResult(c) \/ MatchResult(c) \/ BodyReturns(c)
           \/ BodyPanics(c) \/ Announce(c) \/ WakeTask(c) \/ RoundEnds(c)

-----------------------------------------------------------------------------
(* TaskHandle::cancel and TaskController::cancel, at any moment.           *)
Cancel(t) ==
  /\ t \in MayCancel /\ state[t] # "Cancelled"
  /\ SetState(t, "Cancelled")
  /\ UNCHANGED <<clientVars, sem, tsig, begun, done>>

(* A task of another instance finishes, with a result or a panic.          *)
FinishElsewhere(t) ==
  /\ t \in Elsewhere \ done
  /\ \E s \in {"Ready", "Panicked"} : SetState(t, s)
  /\ done' = done \cup {t}
  /\ tsig' = [tsig EXCEPT ![t] = TRUE]
  /\ UNCHANGED <<clientVars, sem, begun>>

(* All clients have returned or panicked.                                  *)
Terminated == (\A c \in Clients : cpc[c] \in {"returned", "dead"}) /\ UNCHANGED vars

Next == \/ \E c \in Clients : Step(c)
        \/ \E t \in Tasks : Cancel(t) \/ FinishElsewhere(t)
        \/ Terminated

(* Threads run, functions return, other instances finish their tasks.      *)
Fairness == /\ \A c \in Clients : WF_vars(Step(c))
            /\ \A t \in Elsewhere : WF_vars(FinishElsewhere(t))

Spec     == Init /\ [][Next]_vars
FairSpec == Spec /\ Fairness

-----------------------------------------------------------------------------
(* A function is called only after every semaphore its task waits for was  *)
(* signalled by a finished task, and after its predecessor finished, even  *)
(* when the state of the predecessor is set early, by a cancel.            *)
DependenciesRespected ==
  \A t \in begun :
    /\ \A s \in WaitOn[t] : \E u \in done : s \in Signals[u]
    /\ Pred[t] # NoTask => Pred[t] \in done

(* src/src/queue.rs:150: tasks submitted together are executed in order: a *)
(* task that waits for nothing is finished before those behind it begin.   *)
SubmissionOrder ==
  \A c \in Clients : \A i, j \in DOMAIN Batch[c] :
    i < j /\ Batch[c][j] \in begun /\ WaitOn[Batch[c][i]] = {} /\ Pred[Batch[c][i]] = NoTask =>
      Batch[c][i] \in done

(* "Function finished but is still pending!" (src/src/task.rs:322) is      *)
(* never reached; and a continuation of a task that panicked is announced  *)
(* as panicked and its function never called.  (Cancelling either of the   *)
(* two overwrites the panic.)                                              *)
PanicsPropagate ==
  /\ \A t \in done : state[t] # "Pending"
  /\ \A t \in done \ (MayCancel \cup Elsewhere) :
       Pred[t] # NoTask /\ Pred[t] \notin MayCancel /\ state[Pred[t]] = "Panicked" =>
         state[t] = "Panicked" /\ t \notin begun

(* src/src/run.rs:71 lets a continuation through only to block, in         *)
(* TaskHandle::wait, for a signal that is set or about to be: by a thread  *)
(* that is announcing the predecessor.  A predecessor cancelled before it  *)
(* was found to be is the exception: who is to announce it may be the      *)
(* blocked thread itself.                                                  *)
JoinsAreShort ==
  \A c \in Clients : cpc[c] = "join" =>
    LET p == Pred[Current(c)]
    IN  \/ tsig[p] \/ state[p] = "Cancelled"
        \/ \E d \in Clients \ {c} : cpc[d] \in {"announce", "wake"} /\ Current(d) = p

(* What run_all was given is finished some time, in whatever order the     *)
(* tasks of all clients become ready, unless a submitting thread panics.   *)
EveryTaskFinishes ==
  \A c \in Clients \ Singly : \A i \in DOMAIN Batch[c] :
    <>(Batch[c][i] \in done \/ \E d \in Clients : cpc[d] = "dead")
=============================================================================
