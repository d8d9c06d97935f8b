---------------------------- MODULE SignalProofs ----------------------------
(* Theorems about Signal, for any sets of blockers and futures and any     *)
(* number of wakes.                                                        *)
EXTENDS Signal, TLAPS

(* The type invariant alone is not inductive: that `returns` stays within  *)
(* MaxWakes follows from OneReturnPerWake.                                 *)
Counted == TypeOK /\ OneReturnPerWake

LEMMA CountedInvariant == Spec => []Counted
<1>1. Init => Counted
  <2>1. Init => ready \in BOOLEAN
    BY Zenon DEF Init
  <2> QED
    BY <2>1, SignalAssumption DEF Init, Counted, TypeOK, OneReturnPerWake
<1>2. Counted /\ [Next]_vars => Counted'
  <2> SUFFICES ASSUME TypeOK, OneReturnPerWake, [Next]_vars
               PROVE  TypeOK' /\ OneReturnPerWake'
    BY DEF Counted
  <2> USE SignalAssumption DEF TypeOK, OneReturnPerWake, futureVars, blockerVars
  <2>1. CASE Wake
    BY <2>1 DEF Wake
  <2>2. ASSUME NEW b \in Blockers, BlockerStep(b) PROVE TypeOK' /\ OneReturnPerWake'
    <3>1. ready' \in BOOLEAN
      BY <2>2, Zenon DEF BlockerStep, CallWait, Consume, Sleep, Spurious
    <3> QED
      BY <2>2, <3>1 DEF BlockerStep, CallWait, Consume, Sleep, Spurious
  <2>3. ASSUME NEW f \in Futures, FutureStep(f) PROVE TypeOK' /\ OneReturnPerWake'
    <3>1. UNCHANGED <<ready, bpc, wakes, returns>>
      BY <2>3 DEF FutureStep, CallWaitAsync, PollReady, PollPending, Resume, OtherWake
    <3>2. wakers' \in SUBSET Futures /\ fpc' \in [Futures -> {"idle", "poll", "parked", "done"}]
      BY <2>3 DEF FutureStep, CallWaitAsync, PollReady, PollPending, Resume, OtherWake
    <3>3. started' \in [Futures -> BOOLEAN] /\ woken' \in [Futures -> BOOLEAN]
      BY <2>3 DEF FutureStep, CallWaitAsync, PollReady, PollPending, Resume, OtherWake
    <3> QED
      BY <3>1, <3>2, <3>3
  <2>4. CASE UNCHANGED vars
    BY <2>4 DEF vars
  <2> QED
    BY <2>1, <2>2, <2>3, <2>4 DEF Next
<1> QED
  BY <1>1, <1>2, PTL DEF Spec

(* The variables of Signal stay in their ranges; in particular there are   *)
(* never more returns from wait than calls of wake were allowed.           *)
THEOREM TypeCorrect == Spec => []TypeOK
<1>1. Counted => TypeOK
  BY DEF Counted
<1> QED
  BY <1>1, CountedInvariant, PTL

(* No wake lets two threads out of Signal::wait.                           *)
THEOREM WakesAreNotShared == Spec => []OneReturnPerWake
<1>1. Counted => OneReturnPerWake
  BY DEF Counted
<1> QED
  BY <1>1, CountedInvariant, PTL

(* No thread sleeps on the condition variable of a signal that is ready:   *)
(* Signal::wait never misses a Signal::wake.                               *)
THEOREM NoMissedWake == Spec => []NobodySleepsOnReady
<1>1. Init => NobodySleepsOnReady
  BY DEF Init, NobodySleepsOnReady
<1>2. TypeOK /\ NobodySleepsOnReady /\ [Next]_vars => NobodySleepsOnReady'
  <2> SUFFICES ASSUME TypeOK, NobodySleepsOnReady, [Next]_vars
               PROVE  NobodySleepsOnReady'
    OBVIOUS
  <2> USE DEF TypeOK, NobodySleepsOnReady, futureVars, blockerVars
  <2>1. CASE Wake
    BY <2>1 DEF Wake
  <2>2. ASSUME NEW b \in Blockers, BlockerStep(b) PROVE NobodySleepsOnReady'
    BY <2>2 DEF BlockerStep, CallWait, Consume, Sleep, Spurious
  <2>3. ASSUME NEW f \in Futures, FutureStep(f) PROVE NobodySleepsOnReady'
    BY <2>3 DEF FutureStep, CallWaitAsync, PollReady, PollPending, Resume, OtherWake
  <2>4. CASE UNCHANGED vars
    BY <2>4 DEF vars
  <2> QED
    BY <2>1, <2>2, <2>3, <2>4 DEF Next
<1> QED
  BY <1>1, <1>2, TypeCorrect, PTL DEF Spec

-----------------------------------------------------------------------------
(* The strengthening of ParkedIsRegistered: a future that has stored its   *)
(* waker and is neither done nor being woken still has it stored; one that *)
(* is about to be polled for the first time has not started.               *)
Registered ==
  returns = 0 =>
    /\ \A f \in Futures :
         /\ fpc[f] = "parked" => started[f]
         /\ started[f] /\ ~ready => f \in wakers
    /\ \A f \in Futures : fpc[f] = "parked" /\ ready => woken[f]

(* Until a blocking waiter resets the flag, storing the waker once is      *)
(* enough.                                                                 *)
THEOREM OneRegistrationSuffices == Spec => []ParkedIsRegistered
<1>1. Init => Registered
  BY DEF Init, Registered
<1>2. TypeOK /\ Registered /\ [Next]_vars => Registered'
  <2> SUFFICES ASSUME TypeOK, Registered, [Next]_vars PROVE Registered'
    OBVIOUS
  <2> USE DEF TypeOK, Registered, futureVars, blockerVars
  <2>1. CASE Wake
    BY <2>1 DEF Wake
  <2>2. ASSUME NEW b \in Blockers, BlockerStep(b) PROVE Registered'
    BY <2>2 DEF BlockerStep, CallWait, Consume, Sleep, Spurious
  <2>3. ASSUME NEW f \in Futures, FutureStep(f) PROVE Registered'
    BY <2>3 DEF FutureStep, CallWaitAsync, PollReady, PollPending, Resume, OtherWake
  <2>4. CASE UNCHANGED vars
    BY <2>4 DEF vars
  <2> QED
    BY <2>1, <2>2, <2>3, <2>4 DEF Next
<1>3. TypeOK /\ Registered => ParkedIsRegistered
  BY DEF TypeOK, Registered, ParkedIsRegistered
<1> QED
  BY <1>1, <1>2, <1>3, TypeCorrect, PTL DEF Spec

-----------------------------------------------------------------------------
(* Signal implements the safety part of the abstract event: every critical *)
(* section is a step of Event or changes nothing that Event shows.         *)
THEOREM SignalIsAnEvent == Spec => E!Init /\ [][E!Next]_(E!vars)
<1>1. Init => E!Init
  BY DEF Init, E!Init
<1>2. TypeOK /\ [Next]_vars => [E!Next]_(E!vars)
  <2> SUFFICES ASSUME TypeOK, [Next]_vars PROVE [E!Next]_(E!vars)
    OBVIOUS
  <2> USE DEF TypeOK, futureVars, blockerVars, E!Next, E!vars
  <2>1. CASE Wake
    BY <2>1 DEF Wake, E!Set
  <2>2. ASSUME NEW b \in Blockers, BlockerStep(b) PROVE [E!Next]_(E!vars)
    <3>1. CASE CallWait(b)
      BY <3>1 DEF CallWait, E!Call
    <3>2. CASE Consume(b)
      BY <3>2 DEF Consume, E!Return
    <3>3. CASE Sleep(b) \/ Spurious(b)
      BY <3>3 DEF Sleep, Spurious
    <3> QED
      BY <2>2, <3>1, <3>2, <3>3 DEF BlockerStep
  <2>3. ASSUME NEW f \in Futures, FutureStep(f) PROVE [E!Next]_(E!vars)
    <3>1. CASE PollReady(f)
      BY <3>1 DEF PollReady, E!Resolve
    <3>2. CASE CallWaitAsync(f) \/ PollPending(f) \/ Resume(f) \/ OtherWake(f)
      BY <3>2 DEF CallWaitAsync, PollPending, Resume, OtherWake
    <3> QED
      BY <2>3, <3>1, <3>2 DEF FutureStep
  <2>4. CASE UNCHANGED vars
    BY <2>4 DEF vars
  <2> QED
    BY <2>1, <2>2, <2>3, <2>4 DEF Next
<1> QED
  BY <1>1, <1>2, TypeCorrect, PTL DEF Spec
=============================================================================
