---------------------------- MODULE InlineProofs ----------------------------
(* Theorems about InlineExecutor, for any number of clients and tasks.     *)
EXTENDS InlineExecutor, ListLemmas

(* A client that works on a task has it at the head of its list; so has    *)
(* one that panicked.                                                      *)
Held == \A c \in Clients : cpc[c] \notin {"next", "returned"} => todo[c] # <<>>

(* A task is in one list of one client, once.  Only a task that is being   *)
(* woken is done and still in a list.                                      *)
Ours(c) == Range(todo[c]) \cup Range(kept[c])

ListsOf(c) ==
  /\ Ours(c) \subseteq Range(Batch[c])
  /\ IsInjective(todo[c]) /\ IsInjective(kept[c]) /\ Range(todo[c]) \cap Range(kept[c]) = {}
  /\ \A t \in Ours(c) \cap done : cpc[c] = "wake" /\ t = Current(c)
  /\ cpc[c] = "wake" => Current(c) \in done

Lists == \A c \in Clients : ListsOf(c)

(* Semaphores and signals come from finished tasks; what a client has      *)
(* found out about its task stays true.                                    *)
Signalled ==
  /\ \A s \in Semaphores : sem[s] => \E u \in done : s \in Signals[u]
  /\ \A t \in Tasks : tsig[t] => t \in done

Checked(c) ==
  /\ cpc[c] \in {"join", "take", "match", "body"} => \A s \in WaitOn[Current(c)] : sem[s]
  /\ cpc[c] \in {"join", "take", "match"} =>
       Pred[Current(c)] # NoTask /\ state[Pred[Current(c)]] # "Pending"
  /\ cpc[c] \in {"take", "match", "body"} /\ Pred[Current(c)] # NoTask => Pred[Current(c)] \in done

Dependencies == Signalled /\ (\A c \in Clients : Checked(c)) /\ DependenciesRespected

(* The state of a task is set when it is decided, and then only cancelled. *)
At(pcs, t) == \E c \in Clients : cpc[c] \in pcs /\ Current(c) = t
Decided(t) == t \in done \/ At({"announce"}, t)

Decisions ==
  /\ \A t \in Tasks : Decided(t) => state[t] # "Pending"
  /\ \A t \in Tasks : ~Decided(t) =>
       state[t] = "Pending" \/ (state[t] = "Cancelled" /\ t \in MayCancel)
  /\ \A t \in begun : Decided(t) \/ At({"dead"}, t)

(* What a continuation knows of its predecessor.                           *)
Inherited(c) ==
  /\ cpc[c] = "match" => state[Pred[Current(c)]] \in {got[c], "Cancelled"}
  /\ cpc[c] = "body" /\ Pred[Current(c)] \notin MayCancel \cup {NoTask} =>
       state[Pred[Current(c)]] = "Ready"

(* The verdict on a continuation follows the one on its predecessor.       *)
Verdicts ==
  \A t \in Tasks \ (MayCancel \cup Elsewhere) :
    Decided(t) /\ Pred[t] \notin MayCancel \cup {NoTask} =>
      /\ Decided(Pred[t])
      /\ state[Pred[t]] = "Panicked" => state[t] = "Panicked" /\ t \notin begun

(* The signal of a finished task is set until its continuation takes it.   *)
PastJoin(t) == t \in done \/ At({"take", "match", "body", "announce", "dead"}, t)

Woken ==
  \A p \in done : \/ tsig[p] \/ At({"wake"}, p)
                  \/ \E t \in Tasks : Pred[t] = p /\ PastJoin(t)

(* In its first round a client goes through its batch in order.            *)
Free(t) == WaitOn[t] = {} /\ Pred[t] = NoTask
Behind(c) == Len(Batch[c]) - Len(todo[c])

FirstRound(c) ==
  /\ Len(todo[c]) <= Len(Batch[c])
  /\ \A k \in DOMAIN todo[c] : todo[c][k] = Batch[c][Behind(c) + k]
  /\ \A i \in DOMAIN Batch[c] :
       /\ i <= Behind(c) /\ Free(Batch[c][i]) => Batch[c][i] \in done
       /\ i > Behind(c) + 1 => Batch[c][i] \notin begun

InOrder(c) ==
  FirstRound(c) \/ \A i \in DOMAIN Batch[c] : Free(Batch[c][i]) => Batch[c][i] \in done

-----------------------------------------------------------------------------
LEMMA ClientTask ==
  ASSUME TypeOK, NEW c \in Clients, todo[c] # <<>>
  PROVE  /\ Current(c) \in Tasks /\ Current(c) \in Ours(c)
         /\ Tail(todo[c]) \in Seq(Tasks) /\ Len(todo[c]) \in Nat \ {0}
         /\ Len(Tail(todo[c])) = Len(todo[c]) - 1
         /\ Range(todo[c]) = {Current(c)} \cup Range(Tail(todo[c]))
         /\ IsInjective(todo[c]) =>
              Current(c) \notin Range(Tail(todo[c])) /\ IsInjective(Tail(todo[c]))
<1>1. todo[c] \in Seq(Tasks)
  BY DEF TypeOK
<1> QED
  BY <1>1, RangeOfTail DEF Current, Ours

LEMMA TypesOpen == Init => TypeOK /\ Held
<1> SUFFICES ASSUME Init PROVE TypeOK /\ Held
  OBVIOUS
<1>1. Batch \in [Clients -> Seq(Tasks)]
  BY InlineAssumption
<1>2. <<>> \in Seq(Tasks) /\ Len(<<>>) = 0 /\ \A c \in Clients : Len(Batch[c]) \in Nat
  BY <1>1
<1> QED
  BY <1>1, <1>2 DEF Init, TypeOK, Held, ClientPCs, TaskStates

LEMMA TypesStay == TypeOK /\ Held /\ [Next]_vars => TypeOK' /\ Held'
<1> SUFFICES ASSUME TypeOK, Held, [Next]_vars PROVE TypeOK' /\ Held'
  OBVIOUS
<1> USE DEF TypeOK, Held, ClientPCs, TaskStates
<1>1. ASSUME NEW c \in Clients, Step(c) PROVE TypeOK' /\ Held'
  <2>1. todo[c] # <<>> => /\ Current(c) \in Tasks
                          /\ Tail(todo[c]) \in Seq(Tasks) /\ Len(todo[c]) \in Nat \ {0}
                          /\ Len(Tail(todo[c])) = Len(todo[c]) - 1
    BY ClientTask
  <2>2. /\ kept[c] \in Seq(Tasks) /\ Len(kept[c]) \in Nat /\ Len(Batch[c]) \in Nat
        /\ <<>> \in Seq(Tasks) /\ Len(<<>>) = 0
        /\ \A t \in Tasks : Append(kept[c], t) \in Seq(Tasks) /\ Len(Append(kept[c], t)) = Len(kept[c]) + 1
    BY InlineAssumption
  <2>3. CASE CheckPanicked(c)
    BY <2>3 DEF CheckPanicked, Goto
  <2>4. CASE GetPanic(c)
    BY <2>1, <2>4 DEF GetPanic, Goto, SetState
  <2>5. CASE CheckCancelled(c)
    BY <2>1, <2>5 DEF CheckCancelled, Goto, SetState
  <2>6. CASE CheckReady(c)
    <3>1. CASE CanExecute(Current(c))
      BY <2>6, <3>1 DEF CheckReady, Goto
    <3>2. CASE ~CanExecute(Current(c))
      <4>1. /\ cpc' = [cpc EXCEPT ![c] = "next"] /\ todo' = [todo EXCEPT ![c] = Tail(todo[c])]
            /\ kept' = [kept EXCEPT ![c] = IF c \in Singly THEN kept[c] ELSE Append(kept[c], Current(c))]
            /\ UNCHANGED <<ran, got, state, sem, tsig, begun, done>> /\ todo[c] # <<>>
        BY <2>6, <3>2 DEF CheckReady, NextTask, Goto
      <4> QED
        BY <2>1, <2>2, <4>1
    <3> QED
      BY <3>1, <3>2
  <2>7. CASE Join(c)
    BY <2>7 DEF Join, Goto
  <2>8. CASE TakeResult(c)
    <3>1. PredState(Current(c)) \in TaskStates
      <4> HIDE DEF TypeOK
      <4>1. Current(c) \in Tasks /\ Pred[Current(c)] \in Tasks \cup {NoTask}
        BY <2>1, <2>8, InlineAssumption DEF TakeResult
      <4>2. \A p \in Tasks : state[p] \in TaskStates
        BY DEF TypeOK
      <4> QED
        BY <4>1, <4>2 DEF PredState
    <3> QED
      BY <2>8, <3>1 DEF TakeResult, Goto
  <2>9. CASE MatchResult(c)
    BY <2>1, <2>9 DEF MatchResult, Goto, SetState
  <2>10. CASE BodyReturns(c) \/ BodyPanics(c)
    BY <2>1, <2>10 DEF BodyReturns, BodyPanics, Goto, SetState
  <2>11. CASE Announce(c)
    BY <2>1, <2>11 DEF Announce, Goto
  <2>12. CASE WakeTask(c)
    <3>1. /\ cpc' = [cpc EXCEPT ![c] = "next"] /\ todo' = [todo EXCEPT ![c] = Tail(todo[c])]
          /\ ran' = [ran EXCEPT ![c] = TRUE] /\ tsig' = [tsig EXCEPT ![Current(c)] = TRUE]
          /\ UNCHANGED <<kept, got, state, sem, begun, done>> /\ todo[c] # <<>>
      BY <2>12 DEF WakeTask, NextTask, Goto
    <3> QED
      BY <2>1, <2>2, <3>1
  <2>13. CASE RoundEnds(c)
    <3>1. CASE UNCHANGED <<todo, kept, ran>>
      BY <2>13, <3>1 DEF RoundEnds, Goto
    <3>2. CASE ~ (UNCHANGED <<todo, kept, ran>>)
      <4>1. /\ todo' = [todo EXCEPT ![c] = kept[c]] /\ kept' = [kept EXCEPT ![c] = <<>>]
            /\ ran' = [ran EXCEPT ![c] = FALSE]
            /\ UNCHANGED <<cpc, got, state, sem, tsig, begun, done>> /\ todo[c] = <<>> /\ cpc[c] = "next"
        BY <2>13, <3>2 DEF RoundEnds
      <4>2. \A d \in Clients : Len(todo'[d]) + Len(kept'[d]) <= Len(Batch[d])
        <5>1. todo'[c] = kept[c] /\ kept'[c] = <<>>
              /\ \A d \in Clients \ {c} : todo'[d] = todo[d] /\ kept'[d] = kept[d]
          BY <4>1
        <5>2. Len(kept[c]) + 0 <= Len(Batch[c])
          BY <2>2, <4>1
        <5> QED
          BY <2>2, <5>1, <5>2
      <4>3. todo' \in [Clients -> Seq(Tasks)] /\ kept' \in [Clients -> Seq(Tasks)]
            /\ ran' \in [Clients -> BOOLEAN] /\ Held'
        BY <2>2, <4>1
      <4> QED
        BY <4>1, <4>2, <4>3
    <3> QED
      BY <3>1, <3>2
  <2> QED
    BY <1>1, <2>3, <2>4, <2>5, <2>6, <2>7, <2>8, <2>9, <2>10, <2>11, <2>12, <2>13 DEF Step
<1>2. ASSUME NEW t \in Tasks, Cancel(t) \/ FinishElsewhere(t) PROVE TypeOK' /\ Held'
  BY <1>2 DEF Cancel, FinishElsewhere, SetState, clientVars
<1>3. CASE UNCHANGED vars
  BY <1>3 DEF vars, clientVars
<1> QED
  BY <1>1, <1>2, <1>3 DEF Next, Terminated

(* The types of the variables: what is left of a batch fits in it.         *)
THEOREM TypeCorrect == Spec => []TypeOK
BY TypesOpen, TypesStay, PTL DEF Spec

-----------------------------------------------------------------------------
(* What a step does to the lists, and when a task is done.                 *)
Typed == TypeOK /\ Held

LEMMA ListSteps ==
  ASSUME Typed, NEW c \in Clients, Step(c)
  PROVE  /\ \A d \in Clients \ {c} : cpc'[d] = cpc[d] /\ todo'[d] = todo[d] /\ kept'[d] = kept[d]
         /\ done' = IF cpc[c] = "announce" THEN done \cup {Current(c)} ELSE done
         /\ cpc'[c] = "wake" <=> cpc[c] = "announce"
         /\ cpc[c] \in {"announce", "wake"} => todo[c] # <<>>
         /\ \/ todo'[c] = todo[c] /\ kept'[c] = kept[c] /\ cpc[c] # "wake"
            \/ /\ cpc[c] \in {"ready?", "wake"} /\ todo[c] # <<>> /\ todo'[c] = Tail(todo[c])
               /\ \/ kept'[c] = kept[c]
                  \/ cpc[c] = "ready?" /\ kept'[c] = Append(kept[c], Current(c))
            \/ cpc[c] = "next" /\ todo[c] = <<>> /\ todo'[c] = kept[c] /\ kept'[c] = <<>>
<1> USE DEF Typed, TypeOK, Held
<1>1. CASE CheckPanicked(c) \/ GetPanic(c) \/ CheckCancelled(c)
  BY <1>1 DEF CheckPanicked, GetPanic, CheckCancelled, Goto
<1>2. CASE CheckReady(c)
  BY <1>2 DEF CheckReady, NextTask, Goto
<1>3. CASE Join(c) \/ TakeResult(c) \/ MatchResult(c)
  BY <1>3 DEF Join, TakeResult, MatchResult, Goto
<1>4. CASE BodyReturns(c) \/ BodyPanics(c) \/ Announce(c)
  BY <1>4 DEF BodyReturns, BodyPanics, Announce, Goto
<1>5. CASE WakeTask(c)
  BY <1>5 DEF WakeTask, NextTask, Goto
<1>6. CASE RoundEnds(c)
  BY <1>6 DEF RoundEnds, Goto
<1> QED
  BY <1>1, <1>2, <1>3, <1>4, <1>5, <1>6 DEF Step

LEMMA OwnTasks ==
  ASSUME Lists, NEW c \in Clients, NEW d \in Clients, NEW t \in Ours(c), t \in Ours(d)
  PROVE  c = d
<1>1. Range(Batch[c]) \cap Range(Batch[d]) # {} => c = d
  BY InlineAssumption DEF Range
<1> QED
  BY <1>1 DEF Lists, ListsOf

LEMMA ListsOpen == Init => Lists
<1> SUFFICES ASSUME Init PROVE Lists
  OBVIOUS
<1>1. ASSUME NEW c \in Clients
      PROVE  /\ cpc[c] = "next" /\ done = {} /\ todo[c] = Batch[c] /\ IsInjective(Batch[c])
             /\ Range(kept[c]) = {} /\ IsInjective(kept[c])
  BY RangeOfNone, InlineAssumption DEF Init, IsInjective
<1> QED
  BY <1>1 DEF Lists, ListsOf, Ours

LEMMA ListsStay == Typed /\ Lists /\ [Next]_vars => Lists'
<1> SUFFICES ASSUME Typed, Lists, [Next]_vars PROVE Lists'
  OBVIOUS
<1>1. ASSUME NEW c \in Clients, Step(c) PROVE Lists'
  <2>1. ASSUME NEW d \in Clients, d # c PROVE ListsOf(d)'
    <3>1. cpc'[d] = cpc[d] /\ todo'[d] = todo[d] /\ kept'[d] = kept[d]
      BY <1>1, <2>1, ListSteps
    <3>2. cpc[c] = "announce" => Current(c) \notin Ours(d)
      BY <1>1, <2>1, ListSteps, ClientTask, OwnTasks DEF Typed
    <3>3. Ours(d)' = Ours(d) /\ Ours(d) \cap done' = Ours(d) \cap done /\ Current(d)' = Current(d)
      BY <1>1, <3>1, <3>2, ListSteps DEF Ours, Current
    <3>4. done \subseteq done'
      BY <1>1, ListSteps
    <3> QED
      BY <3>1, <3>3, <3>4 DEF Lists, ListsOf
  <2>2. CASE todo'[c] = todo[c] /\ kept'[c] = kept[c] /\ cpc[c] # "wake"
    <3>1. Ours(c)' = Ours(c) /\ Current(c)' = Current(c)
      BY <2>2 DEF Ours, Current
    <3>2. cpc[c] = "announce" => Current(c) \in Ours(c)
      BY <1>1, ListSteps, ClientTask DEF Typed
    <3>3. \A t \in Ours(c)' \cap done' : cpc'[c] = "wake" /\ t = Current(c)'
      BY <1>1, <2>2, <3>1, ListSteps DEF Lists, ListsOf
    <3>4. cpc'[c] = "wake" => Current(c)' \in done'
      BY <1>1, <3>1, ListSteps
    <3> QED
      BY <2>1, <2>2, <3>1, <3>3, <3>4 DEF Lists, ListsOf
  <2>3. CASE /\ cpc[c] \in {"ready?", "wake"} /\ todo[c] # <<>> /\ todo'[c] = Tail(todo[c])
             /\ \/ kept'[c] = kept[c]
                \/ cpc[c] = "ready?" /\ kept'[c] = Append(kept[c], Current(c))
    <3>1. /\ Range(todo[c]) = {Current(c)} \cup Range(todo'[c])
          /\ Current(c) \notin Range(todo'[c]) /\ IsInjective(todo'[c]) /\ Current(c) \in Ours(c)
          /\ Current(c) \notin Range(kept[c])
      BY <2>3, ClientTask DEF Lists, ListsOf, Typed
    <3>2. /\ IsInjective(kept'[c]) /\ Range(todo'[c]) \cap Range(kept'[c]) = {}
          /\ \/ Range(kept'[c]) = Range(kept[c])
             \/ cpc[c] = "ready?" /\ Range(kept'[c]) = Range(kept[c]) \cup {Current(c)}
      <4>1. kept[c] \in Seq(Tasks) /\ Current(c) \in Tasks
        BY <2>3, ClientTask DEF Typed, TypeOK
      <4>2. /\ Range(Append(kept[c], Current(c))) = Range(kept[c]) \cup {Current(c)}
            /\ IsInjective(Append(kept[c], Current(c)))
        BY <3>1, <4>1, RangeOfAppend DEF Lists, ListsOf
      <4>3. /\ IsInjective(kept[c]) /\ Range(todo[c]) \cap Range(kept[c]) = {}
        BY DEF Lists, ListsOf
      <4>4. CASE kept'[c] = kept[c]
        BY <3>1, <4>3, <4>4
      <4>5. CASE cpc[c] = "ready?" /\ kept'[c] = Append(kept[c], Current(c))
        BY <3>1, <4>2, <4>3, <4>5
      <4> QED
        BY <2>3, <4>4, <4>5
    <3>4. done' = done /\ cpc'[c] # "wake" /\ Ours(c)' \subseteq Ours(c)
      BY <1>1, <2>3, <3>1, <3>2, ListSteps DEF Ours
    <3>5. Ours(c)' \cap done' = {}
      BY <2>3, <3>1, <3>2, <3>4 DEF Lists, ListsOf, Ours
    <3> QED
      BY <2>1, <3>1, <3>2, <3>4, <3>5 DEF Lists, ListsOf
  <2>4. CASE cpc[c] = "next" /\ todo[c] = <<>> /\ todo'[c] = kept[c] /\ kept'[c] = <<>>
    <3>1. Ours(c)' = Ours(c) /\ IsInjective(kept'[c]) /\ Range(kept'[c]) = {}
      BY <2>4, RangeOfNone DEF Ours
    <3>2. done' = done /\ cpc'[c] # "wake"
      BY <1>1, <2>4, ListSteps
    <3> QED
      BY <2>1, <2>4, <3>1, <3>2 DEF Lists, ListsOf
  <2> QED
    BY <1>1, <2>2, <2>3, <2>4, ListSteps DEF Lists
<1>2. ASSUME NEW t \in Tasks, Cancel(t) \/ FinishElsewhere(t) PROVE Lists'
  <2>1. /\ UNCHANGED <<cpc, todo, kept>>
        /\ done' = done \/ (t \in Elsewhere /\ done' = done \cup {t})
    BY <1>2 DEF Cancel, FinishElsewhere, clientVars
  <2>2. \A c \in Clients : Ours(c)' = Ours(c) /\ Current(c)' = Current(c)
    BY <2>1 DEF Ours, Current
  <2>3. ASSUME NEW c \in Clients PROVE Range(Batch[c]) \cap Elsewhere = {}
    <3>1. Batch[c] \in Seq(Tasks \ Elsewhere)
      BY InlineAssumption
    <3> QED
      BY <3>1 DEF Range
  <2> QED
    BY <2>1, <2>2, <2>3 DEF Lists, ListsOf
<1>3. CASE UNCHANGED vars
  BY <1>3 DEF vars, clientVars, Lists, ListsOf, Ours, Current
<1> QED
  BY <1>1, <1>2, <1>3 DEF Next, Terminated

-----------------------------------------------------------------------------
(* A step of one client leaves alone what the others are at; states leave  *)
(* Pending, and semaphores are signalled, for good.                        *)
Unmoved(c) ==
  \A d \in Clients \ {c} :
    cpc'[d] = cpc[d] /\ todo'[d] = todo[d] /\ got'[d] = got[d] /\ Current(d)' = Current(d)

Onward ==
  /\ done \subseteq done'
  /\ \A s \in Semaphores : sem[s] => sem'[s]
  /\ \A t \in Tasks : state[t] # "Pending" => state'[t] # "Pending"

LEMMA ClientSteps ==
  ASSUME Typed, NEW c \in Clients, Step(c)
  PROVE  Unmoved(c) /\ Onward
<1> USE DEF Typed, TypeOK, Held, Unmoved, Onward, Goto, SetState, Current
<1>1. CASE CheckPanicked(c) \/ GetPanic(c) \/ CheckCancelled(c)
  BY <1>1 DEF CheckPanicked, GetPanic, CheckCancelled
<1>2. CASE CheckReady(c)
  BY <1>2 DEF CheckReady, NextTask
<1>3. CASE Join(c) \/ TakeResult(c) \/ MatchResult(c)
  BY <1>3 DEF Join, TakeResult, MatchResult
<1>4. CASE BodyReturns(c) \/ BodyPanics(c) \/ Announce(c)
  BY <1>4 DEF BodyReturns, BodyPanics, Announce
<1>5. CASE WakeTask(c)
  BY <1>5 DEF WakeTask, NextTask
<1>6. CASE RoundEnds(c)
  BY <1>6 DEF RoundEnds
<1> QED
  BY <1>1, <1>2, <1>3, <1>4, <1>5, <1>6 DEF Step

LEMMA OtherSteps ==
  ASSUME Typed, NEW t \in Tasks, Cancel(t) \/ FinishElsewhere(t)
  PROVE  Onward /\ UNCHANGED <<cpc, todo, kept, ran, got, sem, begun>>
         /\ \A c \in Clients : Current(c)' = Current(c)
BY DEF Typed, TypeOK, Onward, Cancel, FinishElsewhere, SetState, clientVars, Current

LEMMA DependenciesStay == Typed /\ Lists /\ Dependencies /\ [Next]_vars => Dependencies'
<1> SUFFICES ASSUME Typed, Lists, Dependencies, [Next]_vars PROVE Dependencies'
  OBVIOUS
<1>1. ASSUME NEW c \in Clients, Step(c) PROVE Dependencies'
  <2>1. Unmoved(c) /\ Onward
    BY <1>1, ClientSteps
  <2>2. ASSUME NEW d \in Clients, d # c PROVE Checked(d)'
    <3>1. cpc[d] \notin {"next", "returned"} => Current(d) \in Tasks
      BY ClientTask DEF Typed, Held
    <3> QED
      BY <2>1, <2>2, <3>1, InlineAssumption DEF Unmoved, Onward, Dependencies, Checked
  <2>3. PICK h : h = Current(c)
    OBVIOUS
  <2>4. /\ cpc[c] \notin {"next", "returned"} => h \in Tasks
        /\ todo'[c] = todo[c] => Current(c)' = h
    BY <2>3, ClientTask DEF Typed, Held, Current
  <2>5. /\ cpc \in [Clients -> ClientPCs] /\ state \in [Tasks -> TaskStates]
        /\ sem \in [Semaphores -> BOOLEAN] /\ tsig \in [Tasks -> BOOLEAN]
    BY DEF Typed, TypeOK
  <2>6. Checked(c) /\ Signalled /\ DependenciesRespected
    BY DEF Dependencies
  <2>7. CASE CheckPanicked(c) \/ GetPanic(c) \/ CheckCancelled(c) \/ RoundEnds(c)
    <3>1. cpc'[c] \notin {"join", "take", "match", "body"} /\ UNCHANGED <<begun, sem, tsig, done>>
      BY <2>5, <2>7 DEF CheckPanicked, GetPanic, CheckCancelled, RoundEnds, Goto
    <3> QED
      BY <2>2, <2>6, <3>1 DEF Dependencies, Checked, Signalled, DependenciesRespected
  <2>8. CASE CheckReady(c)
    <3>1. UNCHANGED <<begun, sem, tsig, state, done>>
      BY <2>8 DEF CheckReady
    <3>2. Checked(c)'
      <4>1. CASE CanExecute(h)
        <5>1. /\ cpc'[c] = (IF Pred[h] = NoTask THEN "body" ELSE "join") /\ Current(c)' = h
          BY <2>3, <2>4, <2>5, <2>8, <4>1 DEF CheckReady, Goto
        <5>2. (\A s \in WaitOn[h] : sem'[s]) /\ (Pred[h] = NoTask \/ state'[Pred[h]] # "Pending")
          BY <3>1, <4>1 DEF CanExecute, PredState
        <5> QED
          BY <5>1, <5>2 DEF Checked
      <4>2. CASE ~CanExecute(h)
        BY <2>3, <2>5, <2>8, <4>2 DEF CheckReady, NextTask, Goto, Checked
      <4> QED
        BY <4>1, <4>2
    <3> QED
      BY <2>2, <2>6, <3>1, <3>2 DEF Dependencies, Signalled, DependenciesRespected
  <2>9. CASE Join(c)
    <3>1. /\ cpc[c] = "join" /\ cpc'[c] = "take" /\ tsig[Pred[h]] /\ UNCHANGED <<begun, sem, state, done>>
          /\ Current(c)' = h /\ h \in Tasks
      BY <2>3, <2>4, <2>5, <2>9 DEF Join, Goto
    <3>2. \A t \in Tasks : tsig'[t] => tsig[t]
      BY <2>5, <2>9 DEF Join
    <3>3. Pred[h] \in Tasks /\ Pred[h] \in done
      BY <2>3, <2>6, <3>1, InlineAssumption DEF Checked, Signalled
    <3> QED
      BY <2>2, <2>3, <2>6, <3>1, <3>2, <3>3 DEF Dependencies, Checked, Signalled, DependenciesRespected
  <2>10. CASE TakeResult(c) \/ MatchResult(c)
    <3>1. /\ cpc[c] \in {"take", "match"} /\ cpc'[c] \in {"match", "body", "announce", "dead"}
          /\ UNCHANGED <<begun, sem, tsig, done>> /\ Current(c)' = h /\ h \in Tasks
      BY <2>3, <2>4, <2>5, <2>10 DEF TakeResult, MatchResult, Goto
    <3>2. Pred[h] \in Tasks
      BY <2>3, <2>6, <3>1, InlineAssumption DEF Checked
    <3>3. Checked(c)'
      BY <2>1, <2>3, <2>6, <3>1, <3>2 DEF Checked, Onward
    <3> QED
      BY <2>2, <2>6, <3>1, <3>3 DEF Dependencies, Signalled, DependenciesRespected
  <2>11. CASE BodyReturns(c) \/ BodyPanics(c)
    <3>1. /\ cpc[c] = "body" /\ cpc'[c] \in {"announce", "dead"} /\ begun' = begun \cup {h} /\ h \in Tasks
          /\ UNCHANGED <<sem, tsig, done>>
      BY <2>3, <2>4, <2>5, <2>11 DEF BodyReturns, BodyPanics, Goto
    <3>2. /\ \A s \in WaitOn[h] : s \in Semaphores /\ sem[s]
          /\ Pred[h] # NoTask => Pred[h] \in done
      BY <2>3, <2>6, <3>1, InlineAssumption DEF Checked
    <3>3. DependenciesRespected'
      BY <2>6, <3>1, <3>2 DEF Signalled, DependenciesRespected
    <3> QED
      BY <2>2, <2>6, <3>1, <3>3 DEF Dependencies, Checked, Signalled
  <2>12. CASE Announce(c)
    <3>1. /\ cpc'[c] = "wake" /\ UNCHANGED <<begun, tsig>> /\ done' = done \cup {h}
          /\ \A s \in Semaphores : sem'[s] => sem[s] \/ s \in Signals[h]
      BY <2>3, <2>5, <2>12 DEF Announce, Goto
    <3> QED
      BY <2>2, <2>6, <3>1 DEF Dependencies, Checked, Signalled, DependenciesRespected
  <2>13. CASE WakeTask(c)
    <3>1. /\ cpc'[c] = "next" /\ UNCHANGED <<begun, sem, done>> /\ h \in done
          /\ \A t \in Tasks : tsig'[t] => tsig[t] \/ t = h
      BY <2>3, <2>5, <2>13 DEF WakeTask, NextTask, Goto, Lists, ListsOf
    <3> QED
      BY <2>2, <2>6, <3>1 DEF Dependencies, Checked, Signalled, DependenciesRespected
  <2> QED
    BY <1>1, <2>7, <2>8, <2>9, <2>10, <2>11, <2>12, <2>13 DEF Step
<1>2. ASSUME NEW t \in Tasks, Cancel(t) \/ FinishElsewhere(t) PROVE Dependencies'
  <2>1. Onward /\ UNCHANGED <<cpc, todo, sem, begun>> /\ \A c \in Clients : Current(c)' = Current(c)
    BY <1>2, OtherSteps
  <2>2. ASSUME NEW c \in Clients PROVE Checked(c)'
    <3>1. cpc[c] \notin {"next", "returned"} => Current(c) \in Tasks
      BY ClientTask DEF Typed, Held
    <3> QED
      BY <2>1, <3>1, InlineAssumption DEF Onward, Dependencies, Checked
  <2>3. \A u \in Tasks : tsig'[u] => u \in done'
    BY <1>2, <2>1 DEF Cancel, FinishElsewhere, Typed, TypeOK, Dependencies, Signalled, Onward
  <2> QED
    BY <2>1, <2>2, <2>3 DEF Dependencies, Signalled, DependenciesRespected, Onward
<1>3. CASE UNCHANGED vars
  BY <1>3 DEF vars, clientVars, Dependencies, Signalled, Checked, DependenciesRespected, Current
<1> QED
  BY <1>1, <1>2, <1>3 DEF Next, Terminated

LEMMA ListsAreKept == Spec => [](Typed /\ Lists)
<1>1. Init => Typed
  BY TypesOpen DEF Typed
<1>2. Typed /\ [Next]_vars => Typed'
  BY TypesStay DEF Typed
<1> QED
  BY <1>1, <1>2, ListsOpen, ListsStay, PTL DEF Spec

LEMMA DependenciesAreKept == Spec => []Dependencies
<1>1. Init => Dependencies
  BY DEF Init, Dependencies, Signalled, Checked, DependenciesRespected
<1> QED
  BY <1>1, DependenciesStay, ListsAreKept, PTL DEF Spec

(* A function is called when its semaphores are signalled and its          *)
(* predecessor is done, although CheckReady asks the state of the          *)
(* predecessor, which a cancel sets at any time: a client that goes past   *)
(* Join has taken a signal, which only comes from a finished task.         *)
THEOREM DependenciesAreRespected == Spec => []DependenciesRespected
BY DependenciesAreKept, PTL DEF Dependencies

-----------------------------------------------------------------------------
(* Where a client is with one of its tasks, nobody else is.                *)
LEMMA PlaceOf ==
  ASSUME Typed, Lists, NEW c \in Clients, NEW t \in Ours(c),
         NEW pcs, pcs \cap {"next", "returned"} = {}
  PROVE  At(pcs, t) <=> cpc[c] \in pcs /\ Current(c) = t
<1>1. ASSUME NEW d \in Clients, cpc[d] \in pcs, Current(d) = t PROVE d = c
  <2>1. Current(d) \in Ours(d)
    BY <1>1, ClientTask DEF Typed, Held
  <2> QED
    BY <1>1, <2>1, OwnTasks
<1> QED
  BY <1>1 DEF At

LEMMA DecidedHere ==
  ASSUME Typed, Lists, NEW c \in Clients, cpc[c] \notin {"next", "returned"}
  PROVE  /\ Current(c) \in Tasks
         /\ Decided(Current(c)) <=> cpc[c] \in {"announce", "wake"}
         /\ At({"dead"}, Current(c)) <=> cpc[c] = "dead"
<1>1. Current(c) \in Tasks /\ Current(c) \in Ours(c)
  BY ClientTask DEF Typed, Held
<1>2. Current(c) \in done <=> cpc[c] = "wake"
  BY <1>1 DEF Lists, ListsOf
<1> QED
  BY <1>1, <1>2, PlaceOf DEF Decided

States == Decisions /\ (\A c \in Clients : Inherited(c)) /\ Verdicts

(* What decides a task, and what follows of its predecessor.               *)
LEMMA StateSteps ==
  ASSUME Typed, Lists, Dependencies, States, NEW c \in Clients, Step(c), NEW h, h = Current(c)
  PROVE  /\ cpc'[c] # "announce" => /\ UNCHANGED state
                                    /\ begun' = begun \/ (begun' = begun \cup {h} /\ cpc'[c] = "dead")
         /\ cpc'[c] = "announce" =>
              /\ Current(c)' = h /\ cpc[c] \notin {"next", "returned", "announce", "wake", "dead"}
              /\ state'[h] # "Pending" /\ \A t \in Tasks \ {h} : state'[t] = state[t]
              /\ \/ begun' = begun /\ PredState(h) = state'[h]
                 \/ begun' = begun /\ state[h] = "Cancelled"
                 \/ begun' = begun \cup {h} /\ cpc[c] = "body"
         /\ cpc[c] = "dead" => FALSE
<1> USE DEF Goto, SetState
<1>1. /\ cpc \in [Clients -> ClientPCs] /\ state \in [Tasks -> TaskStates]
      /\ cpc[c] \notin {"next", "returned"} => h \in Tasks /\ todo[c] # <<>>
  BY ClientTask DEF Typed, TypeOK, Held
<1>2. todo'[c] = todo[c] => Current(c)' = h
  BY DEF Current
<1>3. CASE CheckPanicked(c) \/ RoundEnds(c) \/ Join(c) \/ TakeResult(c)
  BY <1>1, <1>3 DEF CheckPanicked, RoundEnds, Join, TakeResult
<1>4. CASE GetPanic(c)
  BY <1>1, <1>2, <1>4 DEF GetPanic
<1>5. CASE CheckCancelled(c)
  BY <1>1, <1>2, <1>5 DEF CheckCancelled
<1>6. CASE CheckReady(c)
  BY <1>1, <1>6 DEF CheckReady, NextTask
<1>7. CASE MatchResult(c)
  <2>1. /\ Pred[h] # NoTask /\ state[Pred[h]] # "Pending" /\ state[Pred[h]] \in {got[c], "Cancelled"}
        /\ Pred[h] \in Tasks
    BY <1>1, <1>7, InlineAssumption DEF MatchResult, Dependencies, Checked, States, Inherited
  <2>2. PredState(h) = state[Pred[h]] /\ state[Pred[h]] \in TaskStates
    BY <1>1, <2>1 DEF PredState
  <2> QED
    BY <1>1, <1>2, <1>7, <2>1, <2>2 DEF MatchResult, TaskStates
<1>8. CASE BodyReturns(c) \/ BodyPanics(c)
  BY <1>1, <1>2, <1>8 DEF BodyReturns, BodyPanics
<1>9. CASE Announce(c) \/ WakeTask(c)
  BY <1>1, <1>9 DEF Announce, WakeTask, NextTask
<1> QED
  BY <1>3, <1>4, <1>5, <1>6, <1>7, <1>8, <1>9 DEF Step

(* A task is decided when a client gets to Announce, for good.             *)
LEMMA DecidedSteps ==
  ASSUME Typed, Lists, NEW c \in Clients, Step(c), NEW h, h = Current(c), NEW t \in Tasks
  PROVE  /\ Decided(t)' <=> Decided(t) \/ (cpc'[c] = "announce" /\ Current(c)' = t)
         /\ cpc[c] # "dead" => (At({"dead"}, t)' <=> At({"dead"}, t) \/ (cpc'[c] = "dead" /\ Current(c)' = t))
         /\ cpc'[c] = "dead" => Current(c)' = h
<1>1. Unmoved(c)
  BY ClientSteps
<1>2. /\ done' = IF cpc[c] = "announce" THEN done \cup {h} ELSE done
      /\ cpc[c] = "announce" => cpc'[c] = "wake"
  BY ListSteps
<1>3. cpc'[c] = "dead" => Current(c)' = h
  BY DEF Step, CheckPanicked, GetPanic, CheckCancelled, CheckReady, NextTask, Goto, Join, TakeResult,
     MatchResult, BodyReturns, BodyPanics, Announce, WakeTask, RoundEnds, Current, Typed, TypeOK
<1> QED
  BY <1>1, <1>2, <1>3 DEF Decided, At, Unmoved

LEMMA InheritedSteps ==
  ASSUME Typed, Lists, Dependencies, States, NEW c \in Clients, Step(c)
  PROVE  \A d \in Clients : Inherited(d)'
<1>1. PICK h : h = Current(c)
  OBVIOUS
<1>2. /\ Unmoved(c) /\ \A t \in Tasks \ {h} : state'[t] = state[t]
      /\ cpc[c] \notin {"next", "returned"} => h \in Tasks
      /\ state' # state => Decided(h) = FALSE
  <2>1. cpc[c] \notin {"next", "returned"} => h \in Tasks
    BY <1>1, DecidedHere
  <2>2. CASE cpc'[c] = "announce"
    BY <1>1, <2>1, <2>2, ClientSteps, StateSteps, DecidedHere
  <2>3. CASE cpc'[c] # "announce"
    BY <1>1, <2>1, <2>3, ClientSteps, StateSteps
  <2> QED
    BY <2>2, <2>3
<1>3. ASSUME NEW d \in Clients, d # c PROVE Inherited(d)'
  <2>1. CASE cpc[d] \in {"match", "body"} /\ Pred[Current(d)] # NoTask
    <3>1. PICK p : p = Pred[Current(d)]
      OBVIOUS
    <3>2. p \in done /\ p \in Tasks
      BY <2>1, <3>1, DecidedHere, InlineAssumption DEF Dependencies, Checked
    <3>3. state'[p] = state[p]
      BY <1>2, <3>2 DEF Decided
    <3> QED
      BY <1>2, <1>3, <3>1, <3>3 DEF Unmoved, States, Inherited
  <2>2. CASE ~ (cpc[d] \in {"match", "body"} /\ Pred[Current(d)] # NoTask)
    BY <1>2, <1>3, <2>2 DEF Unmoved, Inherited, Dependencies, Checked
  <2> QED
    BY <2>1, <2>2
<1>4. Inherited(c)'
  <2>1. /\ cpc \in [Clients -> ClientPCs] /\ got \in [Clients -> TaskStates]
        /\ todo'[c] = todo[c] => Current(c)' = h
        /\ cpc[c] \notin {"next", "returned"} => h \in Tasks
    BY <1>1, <1>2 DEF Typed, TypeOK, Current
  <2>2. CASE TakeResult(c)
    <3>1. /\ cpc'[c] \in {"match", "dead"} /\ got'[c] = PredState(h) /\ UNCHANGED state /\ Current(c)' = h
          /\ cpc[c] = "take"
      BY <1>1, <2>1, <2>2 DEF TakeResult, Goto
    <3>2. Pred[h] # NoTask
      BY <1>1, <3>1 DEF Dependencies, Checked
    <3> QED
      BY <3>1, <3>2 DEF Inherited, PredState
  <2>3. CASE MatchResult(c)
    <3>1. cpc[c] = "match" /\ Pred[h] # NoTask
      BY <1>1, <2>3 DEF MatchResult, Dependencies, Checked
    <3>2. cpc'[c] = "body" => state[Pred[h]] = "Ready" /\ UNCHANGED state /\ Current(c)' = h
      BY <1>1, <2>1, <2>3, <3>1 DEF MatchResult, PredState, Goto
    <3>3. cpc'[c] # "match"
      BY <2>1, <2>3 DEF MatchResult, Goto
    <3> QED
      BY <3>2, <3>3 DEF Inherited
  <2>4. CASE CheckReady(c)
    <3>1. /\ cpc'[c] = "body" => Pred[h] = NoTask /\ Current(c)' = h
      BY <1>1, <2>1, <2>4 DEF CheckReady, NextTask, Goto
    <3>2. cpc'[c] # "match"
      BY <1>1, <2>1, <2>4 DEF CheckReady, NextTask, Goto
    <3> QED
      BY <3>1, <3>2 DEF Inherited
  <2>5. CASE ~ (TakeResult(c) \/ MatchResult(c) \/ CheckReady(c))
    <3>1. cpc'[c] \notin {"match", "body"}
      BY <2>1, <2>5 DEF Step, CheckPanicked, GetPanic, CheckCancelled, Goto, Join, BodyReturns, BodyPanics,
         Announce, WakeTask, NextTask, RoundEnds
    <3> QED
      BY <3>1 DEF Inherited
  <2> QED
    BY <2>2, <2>3, <2>4, <2>5
<1> QED
  BY <1>3, <1>4

LEMMA StatesStay == Typed /\ Lists /\ Dependencies /\ States /\ [Next]_vars => States'
<1> SUFFICES ASSUME Typed, Lists, Dependencies, States, [Next]_vars PROVE States'
  OBVIOUS
<1>1. ASSUME NEW c \in Clients, Step(c) PROVE States'
  <2>1. PICK h : h = Current(c)
    OBVIOUS
  <2>2. \A t \in Tasks : Decided(t)' <=> Decided(t) \/ (cpc'[c] = "announce" /\ Current(c)' = t)
    BY <1>1, <2>1, DecidedSteps
  <2>3. \A t \in Tasks : At({"dead"}, t)' <=> At({"dead"}, t) \/ (cpc'[c] = "dead" /\ h = t)
    BY <1>1, <2>1, DecidedSteps, StateSteps
  <2>4. \A d \in Clients : Inherited(d)'
    BY <1>1, InheritedSteps
  <2>5. begun \subseteq Tasks
    BY DEF Typed, TypeOK
  <2>6. CASE cpc'[c] # "announce"
    <3>1. UNCHANGED state /\ (begun' = begun \/ (begun' = begun \cup {h} /\ cpc'[c] = "dead"))
      BY <1>1, <2>1, <2>6, StateSteps
    <3>2. begun' # begun => h \in Tasks /\ ~Decided(h)
      <4>1. begun' # begun => cpc[c] = "body"
        BY <1>1 DEF Step, CheckPanicked, GetPanic, CheckCancelled, CheckReady, Join, TakeResult,
           MatchResult, BodyReturns, BodyPanics, Announce, WakeTask, RoundEnds
      <4> QED
        BY <2>1, <4>1, DecidedHere
    <3>3. Decisions'
      BY <2>2, <2>3, <2>5, <2>6, <3>1, <3>2 DEF States, Decisions
    <3>4. Verdicts'
      BY <2>2, <2>6, <3>1, <3>2, InlineAssumption DEF States, Verdicts
    <3> QED
      BY <2>4, <3>3, <3>4 DEF States
  <2>7. CASE cpc'[c] = "announce"
    <3>1. /\ Current(c)' = h /\ cpc[c] \notin {"next", "returned", "announce", "wake", "dead"}
          /\ state'[h] # "Pending" /\ \A t \in Tasks \ {h} : state'[t] = state[t]
          /\ \/ begun' = begun /\ PredState(h) = state'[h]
             \/ begun' = begun /\ state[h] = "Cancelled"
             \/ begun' = begun \cup {h} /\ cpc[c] = "body"
      BY <1>1, <2>1, <2>7, StateSteps
    <3>2. h \in Tasks /\ ~Decided(h) /\ ~At({"dead"}, h) /\ h \notin begun
      BY <2>1, <3>1, DecidedHere DEF States, Decisions
    <3>3. Decisions'
      BY <2>2, <2>3, <2>5, <2>7, <3>1, <3>2 DEF States, Decisions
    <3>4. ASSUME h \notin MayCancel \cup Elsewhere, Pred[h] \notin MayCancel \cup {NoTask}
          PROVE  /\ Decided(Pred[h])'
                 /\ state'[Pred[h]] = "Panicked" => state'[h] = "Panicked" /\ h \notin begun'
      <4>1. Pred[h] \in Tasks
        BY <3>2, <3>4, InlineAssumption
      <4>2. CASE cpc[c] = "body"
        <5>1. Pred[h] \in done /\ state[Pred[h]] = "Ready"
          BY <2>1, <3>4, <4>2 DEF Dependencies, Checked, States, Inherited
        <5> QED
          BY <2>2, <3>1, <3>2, <4>1, <5>1 DEF Decided
      <4>3. CASE begun' = begun /\ PredState(h) = state'[h]
        <5>1. state[Pred[h]] = state'[h]
          BY <3>4, <4>3 DEF PredState
        <5>2. Decided(Pred[h])
          BY <3>1, <3>4, <4>1, <5>1 DEF States, Decisions
        <5> QED
          BY <2>2, <3>1, <3>2, <4>1, <4>3, <5>1, <5>2
      <4>4. CASE state[h] = "Cancelled"
        BY <3>2, <3>4, <4>4 DEF States, Decisions
      <4> QED
        BY <3>1, <4>2, <4>3, <4>4
    <3>5. Verdicts'
      <4>1. ASSUME NEW t \in Tasks \ (MayCancel \cup Elsewhere), t # h,
                   Decided(t)', Pred[t] \notin MayCancel \cup {NoTask}
            PROVE  /\ Decided(Pred[t])'
                   /\ state'[Pred[t]] = "Panicked" => state'[t] = "Panicked" /\ t \notin begun'
        <5>1. Pred[t] \in Tasks /\ Decided(t)
          BY <2>2, <3>1, <4>1, InlineAssumption
        <5> QED
          BY <2>2, <3>1, <3>2, <4>1, <5>1 DEF States, Verdicts
      <4> QED
        BY <3>4, <4>1 DEF Verdicts
    <3> QED
      BY <2>4, <3>3, <3>5 DEF States
  <2> QED
    BY <2>6, <2>7
<1>2. ASSUME NEW u \in Tasks, Cancel(u) \/ FinishElsewhere(u) PROVE States'
  <2>1. UNCHANGED <<cpc, todo, got, begun>> /\ \A c \in Clients : Current(c)' = Current(c)
    BY <1>2, OtherSteps
  <2>2. \A t : At({"dead"}, t)' = At({"dead"}, t) /\ At({"announce"}, t)' = At({"announce"}, t)
    BY <2>1 DEF At
  <2>3. state \in [Tasks -> TaskStates] /\ begun \subseteq Tasks
    BY DEF Typed, TypeOK
  <2>4. CASE Cancel(u)
    <3>1. u \in MayCancel /\ state' = [state EXCEPT ![u] = "Cancelled"] /\ UNCHANGED done
      BY <2>4 DEF Cancel, SetState
    <3>2. \A t : Decided(t)' = Decided(t)
      BY <2>2, <3>1 DEF Decided
    <3>3. Decisions' /\ Verdicts'
      BY <2>1, <2>2, <2>3, <3>1, <3>2, InlineAssumption DEF States, Decisions, Verdicts
    <3>4. ASSUME NEW c \in Clients PROVE Inherited(c)'
      <4>1. /\ cpc[c] = "match" => Pred[Current(c)] \in Tasks
            /\ cpc[c] = "body" => Pred[Current(c)] \in Tasks \cup {NoTask}
        BY DecidedHere, InlineAssumption DEF Dependencies, Checked
      <4> QED
        BY <2>1, <2>3, <3>1, <4>1 DEF States, Inherited
    <3> QED
      BY <3>3, <3>4 DEF States
  <2>5. CASE FinishElsewhere(u)
    <3>1. /\ u \in Elsewhere \ done /\ done' = done \cup {u} /\ state'[u] \in {"Ready", "Panicked"}
          /\ \A t \in Tasks \ {u} : state'[t] = state[t]
      BY <2>3, <2>5 DEF FinishElsewhere, SetState
    <3>2. ~At({"announce"}, u)
      <4>1. ASSUME NEW c \in Clients, cpc[c] = "announce", Current(c) = u PROVE FALSE
        <5>1. Current(c) \in Range(Batch[c]) /\ Batch[c] \in Seq(Tasks \ Elsewhere)
          BY <4>1, ClientTask, InlineAssumption DEF Typed, Held, Lists, ListsOf
        <5> QED
          BY <3>1, <4>1, <5>1 DEF Range
      <4> QED
        BY <4>1 DEF At
    <3>3. ~Decided(u) /\ \A t : Decided(t)' <=> Decided(t) \/ t = u
      BY <2>2, <3>1, <3>2 DEF Decided
    <3>4. Decisions'
      BY <2>1, <2>2, <2>3, <3>1, <3>3 DEF States, Decisions
    <3>5. Verdicts'
      BY <2>1, <3>1, <3>3, InlineAssumption DEF States, Verdicts
    <3>6. ASSUME NEW c \in Clients PROVE Inherited(c)'
      <4>1. cpc[c] \in {"match", "body"} /\ Pred[Current(c)] # NoTask => state'[Pred[Current(c)]] = state[Pred[Current(c)]]
        <5>1. cpc[c] = "match" => state[Pred[Current(c)]] = state'[Pred[Current(c)]]
          BY <3>1, DecidedHere, InlineAssumption DEF Dependencies, Checked
        <5> QED
          BY <3>1, <5>1, DecidedHere, InlineAssumption DEF Dependencies, Checked
      <4>2. cpc[c] = "match" => Pred[Current(c)] # NoTask
        BY DEF Dependencies, Checked
      <4> QED
        BY <2>1, <4>1, <4>2 DEF States, Inherited
    <3> QED
      BY <3>4, <3>5, <3>6 DEF States
  <2> QED
    BY <1>2, <2>4, <2>5
<1>3. CASE UNCHANGED vars
  BY <1>3 DEF vars, clientVars, States, Decisions, Inherited, Verdicts, Decided, At, Current
<1> QED
  BY <1>1, <1>2, <1>3 DEF Next, Terminated

LEMMA StatesAreKept == Spec => []States
<1>1. Init => States
  BY DEF Init, States, Decisions, Inherited, Verdicts, Decided, At
<1> QED
  BY <1>1, StatesStay, DependenciesAreKept, ListsAreKept, PTL DEF Spec

(* A finished task is not pending, and a continuation of a task that       *)
(* panicked has panicked and was never called, though the state of the     *)
(* predecessor is read in up to four steps between which others cancel and *)
(* finish tasks.                                                           *)
THEOREM PanicsArePassedOn == Spec => []PanicsPropagate
<1>1. Typed /\ States => PanicsPropagate
  BY DEF Typed, TypeOK, States, Decisions, Verdicts, Decided, PanicsPropagate
<1> QED
  BY <1>1, StatesAreKept, ListsAreKept, PTL

-----------------------------------------------------------------------------
(* The signal of a finished task lasts until its continuation joins.       *)
LEMMA WokenStays == Typed /\ Lists /\ Woken /\ [Next]_vars => Woken'
<1> SUFFICES ASSUME Typed, Lists, Woken, [Next]_vars PROVE Woken'
  OBVIOUS
<1>t. tsig \in [Tasks -> BOOLEAN] /\ cpc \in [Clients -> ClientPCs] /\ done \subseteq Tasks
  BY DEF Typed, TypeOK
<1>1. ASSUME NEW c \in Clients, Step(c) PROVE Woken'
  <2>1. PICK h : h = Current(c)
    OBVIOUS
  <2>2. /\ Unmoved(c) /\ done' = IF cpc[c] = "announce" THEN done \cup {h} ELSE done
        /\ cpc'[c] = "wake" <=> cpc[c] = "announce"
        /\ cpc[c] \notin {"next", "returned"} => h \in Tasks
    BY <1>1, <2>1, ClientSteps, ListSteps, DecidedHere
  <2>3. CASE Join(c)
    <3>1. /\ cpc[c] = "join" /\ cpc'[c] = "take" /\ Current(c)' = h
          /\ \A p \in Tasks : tsig[p] /\ p # Pred[h] => tsig'[p]
      BY <1>t, <2>1, <2>3 DEF Join, Goto, Current
    <3>2. \A t : (PastJoin(t) \/ t = h) => PastJoin(t)'
      BY <2>2, <3>1 DEF PastJoin, At, Unmoved
    <3>3. \A p : At({"wake"}, p) => At({"wake"}, p)'
      BY <2>2, <3>1 DEF At, Unmoved
    <3> QED
      BY <1>t, <2>2, <3>1, <3>2, <3>3 DEF Woken
  <2>4. CASE ~Join(c)
    <3>1. CASE cpc[c] \in {"take", "match", "body", "announce"}
      <4>1. Current(c)' = h /\ cpc'[c] \in {"match", "body", "announce", "dead", "wake"} /\ UNCHANGED tsig
        BY <1>1, <1>t, <2>1, <2>4, <3>1 DEF Step, CheckPanicked, GetPanic, CheckCancelled, CheckReady,
           TakeResult, MatchResult, BodyReturns, BodyPanics, Announce, WakeTask, RoundEnds, Goto, Current
      <4>2. \A t : PastJoin(t) => PastJoin(t)'
        BY <2>1, <2>2, <3>1, <4>1 DEF PastJoin, At, Unmoved
      <4>3. \A p : At({"wake"}, p) => At({"wake"}, p)'
        BY <2>2, <3>1 DEF At, Unmoved
      <4>4. cpc[c] = "announce" => At({"wake"}, h)'
        BY <2>2, <4>1 DEF At
      <4> QED
        BY <1>t, <2>2, <4>1, <4>2, <4>3, <4>4 DEF Woken
    <3>2. CASE cpc[c] \notin {"take", "match", "body", "announce"}
      <4>1. cpc[c] # "dead"
        BY <1>1 DEF Step, CheckPanicked, GetPanic, CheckCancelled, CheckReady, Join,
           TakeResult, MatchResult, BodyReturns, BodyPanics, Announce, WakeTask, RoundEnds
      <4>2. \A t : PastJoin(t) => PastJoin(t)'
        BY <2>2, <3>2, <4>1 DEF PastJoin, At, Unmoved
      <4>3. \A p \in Tasks : (tsig[p] => tsig'[p]) /\ (cpc[c] = "wake" /\ h = p => tsig'[p])
        BY <1>1, <1>t, <2>1, <2>2, <2>4 DEF Step, CheckPanicked, GetPanic, CheckCancelled, CheckReady,
           TakeResult, MatchResult, BodyReturns, BodyPanics, Announce, WakeTask, RoundEnds
      <4>4. \A p : At({"wake"}, p) => At({"wake"}, p)' \/ (cpc[c] = "wake" /\ h = p)
        BY <2>1, <2>2 DEF At, Unmoved
      <4> QED
        BY <1>t, <2>2, <3>2, <4>2, <4>3, <4>4 DEF Woken
    <3> QED
      BY <3>1, <3>2
  <2> QED
    BY <2>3, <2>4
<1>2. ASSUME NEW u \in Tasks, Cancel(u) \/ FinishElsewhere(u) PROVE Woken'
  <2>1. /\ UNCHANGED cpc /\ \A c \in Clients : Current(c)' = Current(c)
        /\ done \subseteq done'
    BY <1>2, OtherSteps DEF Onward
  <2>2. \A t : (PastJoin(t) => PastJoin(t)') /\ (At({"wake"}, t) => At({"wake"}, t)')
    BY <2>1 DEF PastJoin, At
  <2>3. /\ \A p \in Tasks : tsig[p] => tsig'[p]
        /\ \A p \in done' \ done : tsig'[p]
    BY <1>2, <1>t DEF Cancel, FinishElsewhere
  <2> QED
    BY <1>t, <2>1, <2>2, <2>3 DEF Woken
<1>3. CASE UNCHANGED vars
  BY <1>3 DEF vars, clientVars, Woken, PastJoin, At, Current
<1> QED
  BY <1>1, <1>2, <1>3 DEF Next, Terminated

(* A continuation only blocks for a signal that is set, or that a thread   *)
(* is about to set which is neither blocked nor the thread itself: nobody  *)
(* else takes the signal, since a task has one continuation.               *)
THEOREM JoinsStayShort == Spec => []JoinsAreShort
<1>1. Init => Woken
  BY DEF Init, Woken
<1>2. Typed /\ Lists /\ Dependencies /\ States /\ Woken => JoinsAreShort
  <2> SUFFICES ASSUME Typed, Lists, Dependencies, States, Woken,
                      NEW c \in Clients, cpc[c] = "join", NEW p, p = Pred[Current(c)],
                      ~tsig[p], state[p] # "Cancelled"
               PROVE  \E d \in Clients \ {c} : cpc[d] \in {"announce", "wake"} /\ Current(d) = p
    BY DEF JoinsAreShort
  <2>1. PICK h \in Tasks : h = Current(c) /\ h \in Ours(c)
    BY ClientTask DEF Typed, Held
  <2>2. p \in Tasks /\ state[p] # "Pending"
    BY <2>1, InlineAssumption DEF Dependencies, Checked
  <2>3. Decided(p)
    BY <2>2 DEF States, Decisions
  <2>4. ~PastJoin(h)
    BY <2>1, PlaceOf DEF PastJoin, Lists, ListsOf
  <2>5. \A t \in Tasks : Pred[t] = p => t = h
    BY <2>1, <2>2, InlineAssumption
  <2>6. At({"announce"}, p) \/ At({"wake"}, p)
    BY <2>3, <2>4, <2>5 DEF Decided, Woken
  <2> QED
    BY <2>6 DEF At
<1> QED
  BY <1>1, <1>2, WokenStays, StatesAreKept, DependenciesAreKept, ListsAreKept, PTL DEF Spec

-----------------------------------------------------------------------------
(* What a client has not come to in its first round has not begun.         *)
LEMMA BatchLengths ==
  ASSUME Typed, NEW c \in Clients
  PROVE  /\ Len(todo[c]) \in Nat /\ DOMAIN todo[c] = 1 .. Len(todo[c])
         /\ Len(Batch[c]) \in Nat /\ DOMAIN Batch[c] = 1 .. Len(Batch[c])
         /\ todo[c] # <<>> => Len(todo[c]) # 0 /\ Current(c) = todo[c][1]
<1>1. todo[c] \in Seq(Tasks) /\ Batch[c] \in Seq(Tasks \ Elsewhere)
  BY InlineAssumption DEF Typed, TypeOK
<1> QED
  BY <1>1 DEF Current

LEMMA OthersInOrder ==
  ASSUME Typed, NEW c \in Clients, InOrder(c), UNCHANGED todo[c], done \subseteq done',
         \A i \in DOMAIN Batch[c] :
           Batch[c][i] \in begun' \ begun => todo[c] # <<>> /\ Batch[c][i] = Current(c)
  PROVE  InOrder(c)'
<1>1. CASE FirstRound(c)
  <2>1. PICK n \in Nat, m \in Nat :
          /\ n = Len(todo[c]) /\ DOMAIN todo[c] = 1 .. n /\ m = Len(Batch[c]) /\ DOMAIN Batch[c] = 1 .. m
          /\ todo[c] # <<>> => n # 0 /\ Current(c) = todo[c][1]
    BY BatchLengths
  <2>b. Behind(c) = m - n /\ n <= m
    BY <1>1, <2>1 DEF Behind, FirstRound
  <2>2. todo[c] # <<>> => Current(c) = Batch[c][Behind(c) + 1] /\ Behind(c) + 1 \in DOMAIN Batch[c]
    <3> SUFFICES ASSUME todo[c] # <<>> PROVE Current(c) = Batch[c][Behind(c) + 1] /\ Behind(c) + 1 \in DOMAIN Batch[c]
      OBVIOUS
    <3>n. n # 0 /\ n <= m
      BY <2>1, <2>b
    <3>1. 1 \in 1 .. n /\ m - n + 1 \in 1 .. m
      BY <3>n
    <3>2. todo[c][1] = Batch[c][Behind(c) + 1]
      BY <1>1, <2>1, <3>1 DEF FirstRound
    <3> QED
      BY <2>1, <2>b, <3>1, <3>2
  <2>3. ASSUME NEW i \in DOMAIN Batch[c], i > Behind(c) + 1 PROVE Batch[c][i] \notin begun'
    <3>1. Batch[c][i] \notin begun
      BY <1>1, <2>3 DEF FirstRound
    <3>2. todo[c] # <<>> => Batch[c][i] # Current(c)
      <4> SUFFICES ASSUME todo[c] # <<>> PROVE Batch[c][i] # Current(c)
        OBVIOUS
      <4>1. i # Behind(c) + 1
        <5>1. i \in 1 .. m /\ i > m - n + 1
          BY <2>1, <2>b, <2>3
        <5> QED
          BY <2>b, <5>1
      <4> QED
        BY <2>2, <4>1, InlineAssumption
    <3> QED
      BY <3>1, <3>2
  <2> QED
    BY <1>1, <2>3 DEF InOrder, FirstRound, Behind
<1>2. CASE \A i \in DOMAIN Batch[c] : Free(Batch[c][i]) => Batch[c][i] \in done
  BY <1>2 DEF InOrder
<1> QED
  BY <1>1, <1>2 DEF InOrder

LEMMA InOrderStays ==
  Typed /\ Lists /\ (\A c \in Clients : InOrder(c)) /\ [Next]_vars => (\A c \in Clients : InOrder(c))'
<1> SUFFICES ASSUME Typed, Lists, \A c \in Clients : InOrder(c), [Next]_vars, NEW c \in Clients
             PROVE  InOrder(c)'
  OBVIOUS
<1>1. ASSUME NEW d \in Clients, Step(d) PROVE InOrder(c)'
  <2>1. begun' # begun => begun' = begun \cup {Current(d)} /\ cpc[d] = "body"
    BY <1>1 DEF Step, CheckPanicked, GetPanic, CheckCancelled, CheckReady, Join, TakeResult,
       MatchResult, BodyReturns, BodyPanics, Announce, WakeTask, RoundEnds
  <2>2. done \subseteq done' /\ Unmoved(d)
    BY <1>1, ClientSteps DEF Onward
  <2>3. cpc[d] \notin {"next", "returned"} => todo[d] # <<>> /\ Current(d) \in Range(Batch[d])
    BY ClientTask DEF Typed, Held, Lists, ListsOf
  <2>4. CASE d # c
    <3>1. cpc[d] = "body" => \A i \in DOMAIN Batch[c] : Batch[c][i] # Current(d)
      BY <2>3, <2>4, InlineAssumption DEF Range
    <3> QED
      BY <2>1, <2>2, <2>4, <3>1, OthersInOrder DEF Unmoved
  <2>5. CASE d = c /\ todo'[c] = todo[c]
    BY <2>1, <2>2, <2>3, <2>5, OthersInOrder
  <2>6. CASE d = c /\ todo[c] # <<>> /\ todo'[c] = Tail(todo[c]) /\ cpc[c] \in {"ready?", "wake"}
             /\ FirstRound(c)
    <3>1. todo[c] \in Seq(Tasks) /\ Batch[c] \in Seq(Tasks \ Elsewhere)
      BY InlineAssumption DEF Typed, TypeOK
    <3>2. /\ Len(todo'[c]) = Len(todo[c]) - 1 /\ Behind(c)' = Behind(c) + 1
          /\ \A k \in DOMAIN todo'[c] : todo'[c][k] = todo[c][k + 1] /\ k + 1 \in DOMAIN todo[c]
          /\ Behind(c) \in Int /\ Current(c) = Batch[c][Behind(c) + 1] /\ DOMAIN todo'[c] \subseteq Int
      <4>1. /\ Len(todo'[c]) = Len(todo[c]) - 1 /\ DOMAIN todo'[c] = 1 .. Len(todo[c]) - 1
            /\ \A k \in 1 .. Len(todo[c]) - 1 : todo'[c][k] = todo[c][k + 1]
        BY <2>6, <3>1
      <4>2. Behind(c)' = Len(Batch[c]) - (Len(todo[c]) - 1)
        BY <4>1 DEF Behind
      <4>3. PICK n \in Nat, m \in Nat :
              /\ n = Len(todo[c]) /\ DOMAIN todo[c] = 1 .. n /\ m = Len(Batch[c])
              /\ n # 0 /\ Current(c) = todo[c][1]
        BY <2>6, BatchLengths
      <4>4. Behind(c) = m - n /\ Behind(c)' = m - (n - 1)
        BY <4>2, <4>3 DEF Behind
      <4>5. Current(c) = Batch[c][Behind(c) + 1]
        <5>1. 1 \in 1 .. n
          BY <4>3
        <5> QED
          BY <2>6, <4>3, <5>1 DEF FirstRound
      <4> QED
        BY <4>1, <4>3, <4>4, <4>5
    <3>3. Free(Current(c)) => Current(c) \in done
      <4>1. CASE cpc[c] = "wake"
        BY <4>1 DEF Lists, ListsOf
      <4>2. CASE cpc[c] = "ready?"
        <5>1. Free(Current(c)) => CanExecute(Current(c))
          BY DEF Free, CanExecute, PredState
        <5>2. CheckReady(c)
          BY <1>1, <2>6, <4>2 DEF Step, CheckPanicked, GetPanic, CheckCancelled, Join, TakeResult,
             MatchResult, BodyReturns, BodyPanics, Announce, WakeTask, RoundEnds
        <5>3. Len(Tail(todo[c])) # Len(todo[c])
          BY <2>6, <3>1
        <5> QED
          BY <2>6, <5>1, <5>2, <5>3 DEF CheckReady
      <4> QED
        BY <2>6, <4>1, <4>2
    <3>4. begun' = begun
      BY <2>1, <2>6
    <3>5. \A k \in DOMAIN todo'[c] : todo'[c][k] = Batch[c][Behind(c)' + k]
      <4>1. \A k \in DOMAIN todo'[c] : todo'[c][k] = Batch[c][Behind(c) + (k + 1)]
        BY <2>6, <3>2 DEF FirstRound
      <4>2. \A k \in DOMAIN todo'[c] : Behind(c) + (k + 1) = Behind(c)' + k
        BY <3>2
      <4> QED
        BY <4>1, <4>2
    <3>6. ASSUME NEW i \in DOMAIN Batch[c]
          PROVE  /\ i <= Behind(c)' /\ Free(Batch[c][i]) => Batch[c][i] \in done'
                 /\ i > Behind(c)' + 1 => Batch[c][i] \notin begun'
      <4>1. i \in Nat
        BY <3>1
      <4>2. i = Behind(c) + 1 \/ i <= Behind(c) \/ i > Behind(c)'
        BY <3>2, <4>1
      <4>3. i > Behind(c)' + 1 => i > Behind(c) + 1
        BY <3>2, <4>1
      <4>4. i = Behind(c) + 1 /\ Free(Batch[c][i]) => Batch[c][i] \in done'
        BY <2>2, <3>2, <3>3
      <4>5. i <= Behind(c) /\ Free(Batch[c][i]) => Batch[c][i] \in done'
        BY <2>2, <2>6 DEF FirstRound
      <4>6. i > Behind(c) + 1 => Batch[c][i] \notin begun'
        BY <2>6, <3>4 DEF FirstRound
      <4>7. i <= Behind(c)' => ~ (i > Behind(c)')
        BY <3>2, <4>1
      <4> QED
        BY <4>2, <4>3, <4>4, <4>5, <4>6, <4>7
    <3>7. Len(todo'[c]) <= Len(Batch[c])
      BY <2>6, <3>1, <3>2 DEF FirstRound
    <3> QED
      BY <3>5, <3>6, <3>7 DEF InOrder, FirstRound
  <2>7. CASE d = c /\ todo[c] = <<>> /\ FirstRound(c)
    <3>1. Batch[c] \in Seq(Tasks \ Elsewhere) /\ Behind(c) = Len(Batch[c])
      BY <2>7, InlineAssumption DEF Behind
    <3> QED
      BY <2>2, <2>7, <3>1 DEF FirstRound, InOrder
  <2>8. CASE ~FirstRound(c)
    BY <2>2, <2>8 DEF InOrder
  <2> QED
    BY <1>1, <2>4, <2>5, <2>6, <2>7, <2>8, ListSteps
<1>2. ASSUME NEW u \in Tasks, Cancel(u) \/ FinishElsewhere(u) PROVE InOrder(c)'
  BY <1>2, OtherSteps, OthersInOrder DEF Onward
<1>3. CASE UNCHANGED vars
  BY <1>3, OthersInOrder DEF vars, clientVars
<1> QED
  BY <1>1, <1>2, <1>3 DEF Next, Terminated

(* Tasks that wait for nothing are done before those behind them in the    *)
(* batch are called, whatever is kept for the next round.                  *)
THEOREM SubmissionIsInOrder == Spec => []SubmissionOrder
<1>1. Init => \A c \in Clients : InOrder(c)
  <2> SUFFICES ASSUME Init, NEW c \in Clients PROVE InOrder(c)
    OBVIOUS
  <2>1. todo[c] = Batch[c] /\ Batch[c] \in Seq(Tasks \ Elsewhere) /\ begun = {}
    BY InlineAssumption DEF Init
  <2> QED
    BY <2>1 DEF InOrder, FirstRound, Behind
<1>2. Typed /\ (\A c \in Clients : InOrder(c)) => SubmissionOrder
  <2> SUFFICES ASSUME Typed, \A c \in Clients : InOrder(c),
                      NEW c \in Clients, NEW i \in DOMAIN Batch[c], NEW j \in DOMAIN Batch[c],
                      i < j, Batch[c][j] \in begun, Free(Batch[c][i])
               PROVE  Batch[c][i] \in done
    BY DEF SubmissionOrder, Free
  <2>1. CASE FirstRound(c)
    <3>2. ~ (j > Behind(c) + 1)
      BY <2>1 DEF FirstRound
    <3>3. i <= Behind(c)
      <4>1. PICK n \in Nat, m \in Nat :
              n = Len(todo[c]) /\ m = Len(Batch[c]) /\ DOMAIN Batch[c] = 1 .. m
        BY BatchLengths
      <4>2. Behind(c) = m - n
        BY <4>1 DEF Behind
      <4>3. i \in 1 .. m /\ j \in 1 .. m /\ ~ (j > m - n + 1)
        BY <3>2, <4>1, <4>2
      <4>4. i <= m - n
        BY <4>3
      <4> QED
        BY <4>2, <4>4
    <3> QED
      BY <2>1, <3>3 DEF FirstRound
  <2> QED
    BY <2>1 DEF InOrder
<1> QED
  BY <1>1, <1>2, InOrderStays, ListsAreKept, PTL DEF Spec
=============================================================================
