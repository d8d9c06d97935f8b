---------------------------- MODULE TimerProofs ----------------------------
(* Proofs about Timer: no entry is popped before it is due, and none is    *)
(* popped without its sleeper being about to find out.                     *)
EXTENDS Timer, TLAPS

(* Registered once Sleep::poll has pushed, until the entry is popped; and  *)
(* what the timer thread saw in the heap is still there when it acts.      *)
Unregistered == \A f \in heap : spc[f] \notin {"new", "push"}
OutWhenDue == \A f \in Sleepers \ heap : spc[f] \notin {"new", "push"} => left[f] = 0
Notified == \A f \in Sleepers : spc[f] = "notify" => f \in heap \/ woken[f]
SawEntry == tpc = "compare" /\ next # Never => \E f \in heap : left[f] = next
SawDue   == tpc = "pop" => \E f \in heap : left[f] = 0

Inv == TypeOK /\ NobodyForgotten /\ Unregistered /\ OutWhenDue /\ Notified /\ SawEntry /\ SawDue

LEMMA SoonerType == \A t \in Time : Sooner(t) \in Time /\ (t # Never => Sooner(t) \in Nat /\ Sooner(t) # Never)
  BY SMT DEF Sooner, Time, Never

LEMMA StartStep == Inv /\ (\E f \in Sleepers : Start(f)) => Inv'
  <1> SUFFICES ASSUME Inv, NEW f \in Sleepers, Start(f) PROVE Inv'
    OBVIOUS
  <1> USE DEF Inv
  <1>1. f \notin heap
    BY DEF Start, Unregistered
  <1>2. TypeOK'
    BY TimerAssumption DEF TypeOK, Start, timerVars
  <1>3. \A g \in heap : left'[g] = left[g] /\ spc'[g] = spc[g]
    BY <1>1 DEF TypeOK, Start
  <1>4. NobodyForgotten' /\ Unregistered' /\ OutWhenDue' /\ Notified'
    BY <1>1 DEF NobodyForgotten, Unregistered, OutWhenDue, Notified, TypeOK, Start
  <1>5. SawEntry' /\ SawDue'
    BY <1>3 DEF SawEntry, SawDue, Start, timerVars
  <1> QED BY <1>2, <1>4, <1>5

LEMMA OtherSleeperSteps ==
  ASSUME Inv, NEW f \in Sleepers,
         Push(f) \/ Notify(f) \/ OtherWake(f) \/ Resume(f) \/ Poll(f)
  PROVE  Inv'
  <1> USE DEF Inv
  <1>1. CASE Push(f)
    BY <1>1 DEF Push, TypeOK, NobodyForgotten, Unregistered, OutWhenDue, Notified, SawEntry, SawDue, timerVars
  <1>2. CASE Notify(f)
    BY <1>2 DEF Notify, TypeOK, NobodyForgotten, Unregistered, OutWhenDue, Notified, SawEntry, SawDue
  <1>3. CASE OtherWake(f)
    BY <1>3 DEF OtherWake, TypeOK, NobodyForgotten, Unregistered, OutWhenDue, Notified, SawEntry, SawDue, timerVars
  <1>4. CASE Resume(f)
    BY <1>4 DEF Resume, TypeOK, NobodyForgotten, Unregistered, OutWhenDue, Notified, SawEntry, SawDue, timerVars
  <1>5. CASE Poll(f)
    BY <1>5 DEF Poll, TypeOK, NobodyForgotten, Unregistered, OutWhenDue, Notified, SawEntry, SawDue, timerVars
  <1> QED BY <1>1, <1>2, <1>3, <1>4, <1>5

(* What is popped is what is first, hence due if anything is.              *)
LEMMA FirstIsDue ==
  ASSUME Inv, Pop, NEW f \in heap \ heap'
  PROVE  left[f] = 0 /\ woken' = [woken EXCEPT ![f] = TRUE] /\ heap' = heap \ {f}
  <1>1. PICK g \in heap : left[g] = 0
    BY DEF Inv, SawDue, Pop
  <1>2. First(f) /\ woken' = [woken EXCEPT ![f] = TRUE] /\ heap' = heap \ {f}
    BY DEF Pop
  <1>3. left[f] <= 0 /\ left[f] \in Nat
    BY <1>1, <1>2 DEF First, Inv, TypeOK
  <1> QED BY <1>2, <1>3

LEMMA PopStep == Inv /\ Pop => Inv'
  <1> SUFFICES ASSUME Inv, Pop PROVE Inv'
    OBVIOUS
  <1> USE DEF Inv
  <1>1. PICK f \in heap : f \in heap \ heap'
    BY DEF Pop, First
  <1>2. left[f] = 0 /\ woken' = [woken EXCEPT ![f] = TRUE] /\ heap' = heap \ {f}
    BY <1>1, FirstIsDue
  <1>3. TypeOK'
    BY <1>2 DEF TypeOK, Pop
  <1>4. NobodyForgotten'
    BY <1>2 DEF NobodyForgotten, TypeOK, Pop
  <1>5. Unregistered' /\ OutWhenDue' /\ Notified'
    BY <1>2 DEF Unregistered, OutWhenDue, Notified, TypeOK, Pop
  <1>6. SawEntry' /\ SawDue'
    BY DEF SawEntry, SawDue, Pop
  <1> QED BY <1>3, <1>4, <1>5, <1>6

LEMMA OtherTimerSteps == Inv /\ (Peek \/ Compare \/ Wait \/ Timeout \/ Spurious) => Inv'
  <1> SUFFICES ASSUME Inv, Peek \/ Compare \/ Wait \/ Timeout \/ Spurious PROVE Inv'
    OBVIOUS
  <1> USE DEF Inv
  <1>1. NobodyForgotten' /\ Unregistered' /\ OutWhenDue' /\ Notified'
    BY DEF NobodyForgotten, Unregistered, OutWhenDue, Notified, sleepVars, Peek, Compare, Wait, Timeout, Spurious
  <1>2. TypeOK'
    BY DEF TypeOK, Time, sleepVars, Peek, First, Compare, Wait, Timeout, Spurious
  <1>3. SawEntry' /\ SawDue'
    BY DEF SawEntry, SawDue, Never, First, sleepVars, Peek, Compare, Wait, Timeout, Spurious
  <1> QED BY <1>1, <1>2, <1>3

(* Time passes for a peeked time and for the entry it was read from alike. *)
LEMMA TickStep == Inv /\ Tick => Inv'
  <1> SUFFICES ASSUME Inv, Tick PROVE Inv'
    OBVIOUS
  <1> USE DEF Inv
  <1>1. \A f \in Sleepers : left'[f] = Sooner(left[f])
    BY DEF Tick
  <1>2. TypeOK'
    BY SoonerType DEF TypeOK, Tick, Time, Never, Sooner
  <1>3. NobodyForgotten' /\ Unregistered' /\ OutWhenDue' /\ Notified'
    BY <1>1 DEF NobodyForgotten, Unregistered, OutWhenDue, Notified, Tick, TypeOK, Sooner
  <1>4. SawDue'
    BY <1>1 DEF SawDue, Tick, TypeOK, Sooner
  <1>5. SawEntry'
    BY <1>1 DEF SawEntry, Tick, TypeOK, Sooner, Never, Time
  <1> QED BY <1>2, <1>3, <1>4, <1>5

LEMMA Invariance == Spec => []Inv
  <1>1. Init => Inv
    BY DEF Init, Inv, TypeOK, Time, Never, NobodyForgotten, Unregistered, OutWhenDue, Notified, SawEntry, SawDue
  <1>2. Inv /\ [Next]_vars => Inv'
    <2> SUFFICES ASSUME Inv, [Next]_vars PROVE Inv'
      OBVIOUS
    <2>1. CASE UNCHANGED vars
      BY <2>1 DEF Inv, TypeOK, NobodyForgotten, Unregistered, OutWhenDue, Notified, SawEntry, SawDue, First,
                  vars, sleepVars, timerVars
    <2>2. CASE Next
      BY <2>2, StartStep, OtherSleeperSteps, PopStep, OtherTimerSteps, TickStep
         DEF Next, TimerStep, Sleeper
    <2> QED BY <2>1, <2>2
  <1> QED BY <1>1, <1>2, PTL DEF Spec

(* TypeOK is an invariant, whatever the durations.                         *)
THEOREM TypeCorrect == Spec => []TypeOK
  <1>1. Inv => TypeOK
    BY DEF Inv
  <1> QED BY <1>1, Invariance, PTL

(* Sleep::poll registers once.  That is enough: its entry leaves the heap  *)
(* only when its executor is woken late enough to find the time has come.  *)
THEOREM RegisteringOnceSuffices == Spec => []NobodyForgotten
  <1>1. Inv => NobodyForgotten
    BY DEF Inv
  <1> QED BY <1>1, Invariance, PTL

(* The timer thread looks at the heap, lets the lock go, reads the clock   *)
(* and pops under a second lock: it never pops an entry before its time.   *)
THEOREM OnlyDueEntriesArePopped == Spec => NobodyWokenEarly
  <1>1. Inv /\ [Next]_vars => [\A f \in heap \ heap' : left[f] = 0]_vars
    <2> SUFFICES ASSUME Inv, Next, NEW f \in heap \ heap' PROVE left[f] = 0
      BY DEF vars
    <2>1. Pop
      BY DEF Next, TimerStep, Sleeper, Tick, Spurious, Peek, Compare, Wait, Timeout, Start, Push,
             Notify, OtherWake, Resume, Poll
    <2> QED BY <2>1, FirstIsDue
  <1> QED BY <1>1, Invariance, PTL DEF Spec, NobodyWokenEarly
=============================================================================
