-------------------------- MODULE MainThreadProofs --------------------------
(* Theorems about MainThread, for any number of calls and tasks.           *)
EXTENDS MainThread, ListLemmas

(* The call that `worker` names is the only one that may be in its loop;   *)
(* `end` is 2 only once its loop is over.  Whoever holds the lock between  *)
(* two steps has found a worker.                                           *)
Registration ==
  /\ Reading \/ Writing => worker # NoCall
  /\ worker = NoCall => \A r \in Calls : rpc[r] \in {"idle", "refused"}
  /\ worker # NoCall => rpc[worker] \notin {"idle", "refused"}
  /\ \A r \in Calls \ {worker} : rpc[r] \in {"idle", "refused", "drop", "returned"}
  /\ \A r \in Calls : end[r] = 2 => rpc[r] \in {"drop", "returned"}

(* A task is sent to one call, and in one of its lists, once, until it is  *)
(* done; only the tasks in a channel that is dropped get lost.             *)
Ours(r) == Range(chan[r]) \cup Range(futures[r]) \cup Range(polling[r])

ListsOf(r) ==
  /\ IsInjective(chan[r]) /\ IsInjective(futures[r]) /\ IsInjective(polling[r])
  /\ Range(chan[r]) \cap Range(futures[r]) = {}
  /\ Range(chan[r]) \cap Range(polling[r]) = {}
  /\ Range(futures[r]) \cap Range(polling[r]) = {}

Unstarted == {"idle", "refused"}
Left == {"leave", "drop", "returned"}

ListsFit(r) ==
  /\ rpc[r] \in Unstarted => chan[r] = <<>>
  /\ rpc[r] \in Unstarted \cup Left \cup {"empty?", "recv"} => futures[r] = <<>>
  /\ rpc[r] # "poll" => polling[r] = <<>>

Placed(r) ==
  /\ ListsOf(r) /\ ListsFit(r)
  /\ \A t \in Ours(r) : dest[t] = r /\ t \notin done
  /\ rpc[r] # "returned" => \A t \in AllTasks : dest[t] = r => t \in done \cup Ours(r)

Sent ==
  /\ \A t \in Tasks : spc[t] \in {"idle", "checked", "refused"} => dest[t] = NoCall
  /\ \A r \in Calls : dest[r] = IF rpc[r] \in Unstarted THEN NoCall ELSE r
  /\ \A t \in AllTasks \cap done : dest[t] # NoCall

Places == (\A r \in Calls : Placed(r)) /\ Sent

(* What has begun and is not done is polled again.                         *)
BegunStay ==
  \A t \in begun : t \in done \/ \E r \in Calls : t \in Range(futures[r]) \cup Range(polling[r])

(* The init task submits one task after the other, and neither returns nor *)
(* pends in between.                                                       *)
Turns ==
  \A r \in Calls : \A i \in DOMAIN InitTasks[r] :
    LET t == InitTasks[r][i]
    IN  /\ spc[t] # "idle" => \A j \in 1 .. i - 1 : spc[InitTasks[r][j]] = "accepted"
        /\ spc[t] \in {"checked", "sent"} =>
             rpc[r] = "poll" /\ polling[r] # <<>> /\ Current(r) = r /\ r \notin awaited

(* Unless somebody ends it, a main thread leaves its loop when it has      *)
(* nothing left to do.                                                     *)
Unended == \A e \in Enders : epc[e] = "idle"

Drained ==
  Unended =>
    \A r \in Calls :
      /\ end[r] # 1
      /\ rpc[r] \in Left => r \in done /\ \A i \in DOMAIN InitTasks[r] :
           dest[InitTasks[r][i]] = r => InitTasks[r][i] \in done

-----------------------------------------------------------------------------
LEMMA TaskLists ==
  /\ <<>> \in Seq(AllTasks)
  /\ \A t \in AllTasks : <<t>> \in Seq(AllTasks) /\ <<t>> # <<>>
  /\ \A s \in Seq(AllTasks) : /\ \A t \in AllTasks : Append(s, t) \in Seq(AllTasks) /\ Append(s, t) # <<>>
                              /\ \A q \in Seq(AllTasks) : s \o q \in Seq(AllTasks)
                              /\ s # <<>> => Head(s) \in AllTasks /\ Tail(s) \in Seq(AllTasks)
<1>1. \A s \in Seq(AllTasks), t \in AllTasks : Append(s, t) \in Seq(AllTasks) /\ Append(s, t) # <<>>
  <2> TAKE s \in Seq(AllTasks), t \in AllTasks
  <2>1. Append(s, t) \in Seq(AllTasks) /\ Len(Append(s, t)) = Len(s) + 1 /\ Len(s) \in Nat
    OBVIOUS
  <2>2. Len(<<>>) = 0
    OBVIOUS
  <2> QED
    BY <2>1, <2>2
<1>2. \A t \in AllTasks : <<t>> \in Seq(AllTasks) /\ <<t>> # <<>>
  OBVIOUS
<1> QED
  BY <1>1, <1>2

LEMMA TypesOpen == Init => TypeOK
BY MainThreadAssumption, TaskLists DEF Init, TypeOK, TaskStates, RegisterPCs, AllTasks

LEMMA TypesStay == TypeOK /\ [Next]_vars => TypeOK'
<1> SUFFICES ASSUME TypeOK, [Next]_vars PROVE TypeOK'
  OBVIOUS
<1> USE DEF TypeOK, TaskStates, RegisterPCs, callVars, loopVars, taskVars, vars
<1>a. Calls \subseteq AllTasks /\ Tasks \subseteq AllTasks
  BY DEF AllTasks
<1>1. ASSUME NEW r \in Calls, Register(r) PROVE TypeOK'
  <2>1. CASE Finished
    <3>1. chan' = [chan EXCEPT ![r] = <<r>>] /\ r \in AllTasks /\ <<r>> \in Seq(AllTasks)
      BY <1>1, <1>a, <2>1, TaskLists DEF Register
    <3> QED
      BY <1>1, <2>1, <3>1 DEF Register
  <2>2. CASE ~Finished
    BY <1>1, <2>2 DEF Register
  <2> QED
    BY <2>1, <2>2
<1>2. ASSUME NEW t \in Tasks, CheckEnded(t) PROVE TypeOK'
  BY <1>2 DEF CheckEnded
<1>3. ASSUME NEW t \in Tasks, Send(t) PROVE TypeOK'
  <2>1. CASE rpc[worker] = "returned"
    BY <1>3, <2>1 DEF Send
  <2>2. CASE rpc[worker] # "returned"
    <3>1. chan' \in [Calls -> Seq(AllTasks)]
      <4>1. chan' = [chan EXCEPT ![worker] = Append(chan[worker], t)]
        BY <1>3, <2>2 DEF Send
      <4>2. worker \in Calls => Append(chan[worker], t) \in Seq(AllTasks)
        BY <1>a, TaskLists
      <4> QED
        BY <4>1, <4>2
    <3>2. spc' \in [Tasks -> {"idle", "checked", "sent", "accepted", "refused"}]
          /\ dest' \in [AllTasks -> Calls \cup {NoCall}]
      <4>1. /\ spc' = [spc EXCEPT ![t] = "sent"] /\ dest' = [dest EXCEPT ![t] = worker]
        BY <1>3, <2>2 DEF Send
      <4> QED
        BY <4>1
    <3> QED
      BY <1>3, <3>1, <3>2 DEF Send
  <2> QED
    BY <2>1, <2>2
<1>4. ASSUME NEW t \in Tasks, WakeMain(t) \/ Cancel(t) PROVE TypeOK'
  BY <1>4, <1>a DEF WakeMain, Cancel
<1>5. ASSUME NEW e \in Enders, CheckRunning(e) \/ StoreEnd(e) PROVE TypeOK'
  <2>1. CASE CheckRunning(e)
    BY <2>1 DEF CheckRunning
  <2>2. CASE StoreEnd(e)
    <3>1. end' \in [Calls -> 0 .. 2]
      <4>1. end' = [end EXCEPT ![worker] = 1] /\ end \in [Calls -> 0 .. 2] /\ 1 \in 0 .. 2
        BY <2>2 DEF StoreEnd
      <4> HIDE DEF TypeOK
      <4> QED
        BY <4>1
    <3> QED
      BY <2>2, <3>1 DEF StoreEnd
  <2> QED
    BY <1>5, <2>1, <2>2
<1>6. ASSUME NEW t \in AllTasks, Waken(t) PROVE TypeOK'
  BY <1>6 DEF Waken
<1>7. ASSUME NEW t \in Elsewhere, FinishElsewhere(t) PROVE TypeOK'
  BY <1>7 DEF FinishElsewhere
<1>8. ASSUME NEW r \in Calls, MainStep(r) PROVE TypeOK'
  <2>1. CASE Top(r)
    <3>1. CASE futures[r] = <<>>
      BY <2>1, <3>1 DEF Top, Goto
    <3>2. CASE futures[r] # <<>>
      <4>1. futures[r] \o chan[r] \in Seq(AllTasks)
        BY TaskLists
      <4> QED
        BY <2>1, <3>2, <4>1, TaskLists DEF Top, Drain, Goto
    <3> QED
      BY <3>1, <3>2
  <2>2. CASE CheckEmpty(r) \/ RoundEnds(r) \/ Park(r)
    BY <2>2 DEF CheckEmpty, RoundEnds, Park, Goto
  <2>11. CASE StoreFinished(r)
    <3>1. end' \in [Calls -> 0 .. 2]
      BY <2>11 DEF StoreFinished
    <3> QED
      BY <2>11, <3>1 DEF StoreFinished, Goto
  <2>3. CASE Recv(r)
    <3>1. <<Head(chan[r])>> \in Seq(AllTasks) /\ Tail(chan[r]) \in Seq(AllTasks)
      BY <2>3, TaskLists DEF Recv
    <3> QED
      BY <2>3, <3>1 DEF Recv, Goto
  <2>4. CASE DropReceiver(r)
    BY <2>4, TaskLists DEF DropReceiver, Goto
  <2>5. ASSUME NEW t \in AllTasks, NEW s \in TaskStates, polling[r] # <<>>, Finish(r, t, s) PROVE TypeOK'
    <3>1. Tail(polling[r]) \in Seq(AllTasks)
      BY <2>5, TaskLists
    <3> QED
      BY <2>5, <3>1 DEF Finish
  <2>6. CASE Returns(r) \/ Panics(r)
    BY <2>5, <2>6 DEF Returns, Panics, Polls
  <2>7. ASSUME NEW t \in AllTasks, polling[r] # <<>>, Keep(r, t)
        PROVE  /\ polling' \in [Calls -> Seq(AllTasks)] /\ futures' \in [Calls -> Seq(AllTasks)]
               /\ done' \subseteq AllTasks \cup Elsewhere
               /\ UNCHANGED <<callVars, end, chan, msig, state, dest>>
    <3>1. Tail(polling[r]) \in Seq(AllTasks) /\ Append(futures[r], t) \in Seq(AllTasks)
      BY <2>7, TaskLists
    <3> QED
      BY <2>7, <3>1 DEF Keep
  <2>8. CASE PollPending(r)
    <3>1. PICK t \in AllTasks : /\ polling[r] # <<>> /\ pends[t] > 0 /\ pends' = [pends EXCEPT ![t] = @ - 1]
                                /\ awaited' = awaited \cup {t} /\ begun' = begun \cup {t} /\ Keep(r, t)
      BY <2>8 DEF PollPending, Polls
    <3>2. pends' \in [AllTasks -> Nat]
      BY <3>1
    <3> QED
      BY <2>7, <3>1, <3>2
  <2>9. CASE PollAgain(r)
    BY <2>7, <2>9 DEF PollAgain
  <2>10. CASE \E i \in DOMAIN InitTasks[r] : CheckEnded(InitTasks[r][i])
    <3>1. \A i \in DOMAIN InitTasks[r] : InitTasks[r][i] \in Tasks
      BY MainThreadAssumption
    <3> QED
      BY <1>2, <2>10, <3>1
  <2> QED
    BY <1>8, <2>11, <2>1, <2>2, <2>3, <2>4, <2>6, <2>8, <2>9, <2>10 DEF MainStep
<1>9. CASE UNCHANGED vars
  BY <1>9
<1> QED
  BY <1>1, <1>2, <1>3, <1>4, <1>5, <1>6, <1>7, <1>8, <1>9 DEF Next, Terminated

(* The types of the variables.                                             *)
THEOREM TypeCorrect == Spec => []TypeOK
BY TypesOpen, TypesStay, PTL DEF Spec

-----------------------------------------------------------------------------
(* What a step of the loop does to the flag and to where the threads are.  *)
LEMMA LoopSteps ==
  ASSUME TypeOK, NEW r \in Calls, MainStep(r)
  PROVE  /\ UNCHANGED <<worker, epc>> /\ \A q \in Calls \ {r} : rpc'[q] = rpc[q]
         /\ rpc[r] \notin {"idle", "refused", "returned"} /\ rpc'[r] \notin {"idle", "refused"}
         /\ rpc[r] \in {"leave", "drop"} => rpc'[r] \in {"drop", "returned"}
         /\ rpc'[r] \in {"drop", "returned"} => rpc[r] \in {"leave", "drop"}
         /\ end' = end \/ (end' = [end EXCEPT ![r] = 2] /\ rpc'[r] = "drop")
         /\ spc' = spc \/ \E i \in DOMAIN InitTasks[r] : CheckEnded(InitTasks[r][i]) /\ rpc[r] = "poll"
<1> USE DEF TypeOK, Goto, callVars
<1>1. CASE Top(r) \/ CheckEmpty(r) \/ Recv(r)
  BY <1>1 DEF Top, Drain, CheckEmpty, Recv
<1>2. CASE Returns(r) \/ Panics(r)
  BY <1>2 DEF Returns, Panics, Polls, Finish
<1>3. CASE PollPending(r) \/ PollAgain(r)
  BY <1>3 DEF PollPending, PollAgain, Polls, Keep
<1>4. CASE RoundEnds(r) \/ Park(r)
  BY <1>4 DEF RoundEnds, Park
<1>5. CASE StoreFinished(r) \/ DropReceiver(r)
  BY <1>5 DEF StoreFinished, DropReceiver
<1>6. ASSUME NEW i \in DOMAIN InitTasks[r], CheckEnded(InitTasks[r][i])
      PROVE  rpc[r] = "poll" /\ UNCHANGED <<worker, epc, rpc, end>>
  BY <1>6 DEF CheckEnded, Submitter, InTurn
<1> QED
  BY <1>1, <1>2, <1>3, <1>4, <1>5, <1>6 DEF MainStep

LEMMA RegistrationStays == TypeOK /\ Registration /\ [Next]_vars => Registration'
<1> SUFFICES ASSUME TypeOK, Registration, [Next]_vars PROVE Registration'
  OBVIOUS
<1>t. /\ rpc \in [Calls -> RegisterPCs] /\ spc \in [Tasks -> {"idle", "checked", "sent", "accepted", "refused"}]
      /\ epc \in [Enders -> {"idle", "checked", "returned"}] /\ end \in [Calls -> 0 .. 2]
      /\ worker \in Calls \cup {NoCall}
  BY DEF TypeOK
<1>1. ASSUME NEW r \in Calls, Register(r) PROVE Registration'
  <2>1. /\ UNCHANGED <<spc, epc, end>> /\ ~Reading /\ ~Writing /\ ~Reading' /\ ~Writing' /\ rpc[r] = "idle"
    BY <1>1 DEF Register, Reading, Writing
  <2>2. CASE Finished
    <3>1. /\ worker' = r /\ rpc' = [rpc EXCEPT ![r] = "top"]
      BY <1>1, <2>2 DEF Register
    <3>2. \A q \in Calls : rpc[q] \in {"idle", "refused", "drop", "returned"}
      BY <2>2 DEF Finished, Registration
    <3> QED
      BY <1>t, <2>1, <3>1, <3>2, MainThreadAssumption DEF Registration
  <2>3. CASE ~Finished
    <3>1. UNCHANGED worker /\ rpc' = [rpc EXCEPT ![r] = "refused"]
      BY <1>1, <2>3 DEF Register
    <3> QED
      BY <1>t, <2>1, <3>1 DEF Registration
  <2> QED
    BY <2>2, <2>3
<1>2. ASSUME NEW t \in Tasks, CheckEnded(t) PROVE Registration'
  <2>1. /\ UNCHANGED <<worker, rpc, end, epc>>
        /\ spc' = [spc EXCEPT ![t] = IF Ended THEN "refused" ELSE "checked"]
    BY <1>2 DEF CheckEnded
  <2>2. Reading' => Reading \/ worker # NoCall
    BY <1>t, <2>1 DEF Reading, Ended
  <2> QED
    BY <2>1, <2>2 DEF Registration, Writing
<1>3. ASSUME NEW t \in Tasks, Send(t) \/ WakeMain(t) \/ Cancel(t) PROVE Registration'
  <2>1. UNCHANGED <<worker, rpc, end, epc>> /\ (Reading' => Reading)
    BY <1>t, <1>3 DEF Send, WakeMain, Cancel, Reading, callVars
  <2> QED
    BY <2>1 DEF Registration, Writing
<1>4. ASSUME NEW e \in Enders, CheckRunning(e) \/ StoreEnd(e) PROVE Registration'
  <2>1. CASE CheckRunning(e)
    <3>1. UNCHANGED <<worker, rpc, end, spc>> /\ epc' = [epc EXCEPT ![e] = IF Ended THEN "returned" ELSE "checked"]
      BY <2>1 DEF CheckRunning
    <3>2. Writing' => Writing \/ worker # NoCall
      BY <1>t, <3>1 DEF Writing, Ended
    <3> QED
      BY <3>1, <3>2 DEF Registration, Reading
  <2>2. CASE StoreEnd(e)
    <3>1. UNCHANGED <<worker, rpc, spc>> /\ end' = [end EXCEPT ![worker] = 1] /\ (Writing' => Writing)
      BY <1>t, <2>2 DEF StoreEnd, Writing
    <3> QED
      BY <1>t, <2>2, <3>1 DEF Registration, Reading, StoreEnd, Writing
  <2> QED
    BY <1>4, <2>1, <2>2
<1>5. ASSUME NEW t \in AllTasks \cup Elsewhere, Waken(t) \/ FinishElsewhere(t) PROVE Registration'
  BY <1>5 DEF Waken, FinishElsewhere, callVars, Registration, Reading, Writing
<1>6. ASSUME NEW r \in Calls, MainStep(r) PROVE Registration'
  <2>1. CASE spc' = spc
    <3>1. /\ UNCHANGED <<worker, epc, spc>> /\ \A q \in Calls \ {r} : rpc'[q] = rpc[q]
          /\ rpc[r] \notin {"idle", "refused", "returned"} /\ rpc'[r] \notin {"idle", "refused"}
          /\ rpc[r] \in {"leave", "drop"} => rpc'[r] \in {"drop", "returned"}
          /\ end' = end \/ (end' = [end EXCEPT ![r] = 2] /\ rpc'[r] = "drop")
      BY <1>6, <2>1, LoopSteps
    <3> QED
      BY <1>t, <3>1 DEF Registration, Reading, Writing
  <2>2. CASE spc' # spc
    <3>1. \A i \in DOMAIN InitTasks[r] : InitTasks[r][i] \in Tasks
      BY MainThreadAssumption
    <3> QED
      BY <1>2, <1>6, <2>2, <3>1, LoopSteps
  <2> QED
    BY <2>1, <2>2
<1>7. CASE UNCHANGED vars
  BY <1>7 DEF vars, callVars, Registration, Reading, Writing
<1> QED
  BY <1>1, <1>2, <1>3, <1>4, <1>5, <1>6, <1>7 DEF Next, Terminated

-----------------------------------------------------------------------------
(* What a step of the loop does to the lists of its call: they keep what   *)
(* does not get done, until the receiver is dropped.                       *)
Typed == TypeOK /\ Registration

Rearranged(r) ==
  /\ ListsOf(r)' /\ ListsFit(r)'
  /\ Ours(r)' \subseteq Ours(r) /\ Ours(r)' \cap done' = {}
  /\ rpc'[r] # "returned" => Ours(r) \subseteq Ours(r)' \cup done'

LEMMA CurrentTask ==
  ASSUME TypeOK, NEW r \in Calls, Placed(r), polling[r] # <<>>
  PROVE  /\ Current(r) \in AllTasks /\ Current(r) \in Ours(r) /\ rpc[r] = "poll"
         /\ Range(polling[r]) = {Current(r)} \cup Range(Tail(polling[r]))
         /\ Current(r) \notin Range(Tail(polling[r])) /\ IsInjective(Tail(polling[r]))
<1>1. polling[r] \in Seq(AllTasks)
  BY DEF TypeOK
<1> QED
  BY <1>1, RangeOfTail, TaskLists DEF Current, Ours, Placed, ListsOf, ListsFit

LEMMA NextTask ==
  ASSUME TypeOK, NEW r \in Calls, Placed(r), polling[r] # <<>>, UNCHANGED <<rpc, chan>>,
         polling' = [polling EXCEPT ![r] = Tail(polling[r])],
         \/ done' = done \cup {Current(r)} /\ UNCHANGED futures
         \/ done' = done /\ futures' = [futures EXCEPT ![r] = Append(futures[r], Current(r))]
  PROVE  Rearranged(r)
<1>1. /\ polling'[r] = Tail(polling[r]) /\ rpc[r] = "poll" /\ Current(r) \in Ours(r)
      /\ Range(polling[r]) = {Current(r)} \cup Range(polling'[r])
      /\ Current(r) \notin Range(polling'[r]) /\ IsInjective(polling'[r])
      /\ Current(r) \notin Range(chan[r]) /\ Current(r) \notin Range(futures[r])
  BY CurrentTask DEF TypeOK, Placed, ListsOf
<1>2. ListsFit(r)'
  BY <1>1 DEF ListsFit, Unstarted, Left
<1>3. CASE done' = done \cup {Current(r)} /\ UNCHANGED futures
  BY <1>1, <1>2, <1>3 DEF Rearranged, ListsOf, Placed, Ours
<1>4. CASE done' = done /\ futures' = [futures EXCEPT ![r] = Append(futures[r], Current(r))]
  <2>1. futures[r] \in Seq(AllTasks) /\ futures'[r] = Append(futures[r], Current(r)) /\ Current(r) \in AllTasks
    BY <1>4, CurrentTask DEF TypeOK
  <2>2. Range(futures'[r]) = Range(futures[r]) \cup {Current(r)} /\ IsInjective(futures'[r])
    BY <1>1, <2>1, RangeOfAppend DEF Placed, ListsOf
  <2> QED
    BY <1>1, <1>2, <1>4, <2>2 DEF Rearranged, ListsOf, Placed, Ours
<1> QED
  BY <1>3, <1>4

LEMMA ListSteps ==
  ASSUME TypeOK, NEW r \in Calls, Placed(r), MainStep(r)
  PROVE  /\ Rearranged(r) /\ UNCHANGED dest
         /\ \A q \in Calls \ {r} : chan'[q] = chan[q] /\ futures'[q] = futures[q] /\ polling'[q] = polling[q]
         /\ done' = done \/ (polling[r] # <<>> /\ done' = done \cup {Current(r)})
<1> USE DEF Goto, callVars, loopVars, taskVars
<1>t. /\ chan \in [Calls -> Seq(AllTasks)] /\ futures \in [Calls -> Seq(AllTasks)]
      /\ polling \in [Calls -> Seq(AllTasks)] /\ rpc \in [Calls -> RegisterPCs]
  BY DEF TypeOK
<1>n. Range(<<>>) = {} /\ IsInjective(<<>>)
  BY RangeOfNone
<1>1. CASE /\ UNCHANGED <<chan, futures, polling, dest, done>> /\ ListsFit(r)'
           /\ rpc[r] # "drop"
  BY <1>1 DEF Rearranged, Placed, ListsOf, Ours
<1>2. CASE Top(r)
  <2>1. CASE futures[r] = <<>>
    <3>1. UNCHANGED <<chan, futures, polling, dest, done>> /\ rpc[r] = "top"
          /\ rpc'[r] \in {"leave", "empty?", "recv"}
      BY <1>t, <1>2, <2>1 DEF Top
    <3>2. ListsFit(r)'
      BY <2>1, <3>1 DEF Placed, ListsFit, Unstarted, Left
    <3> QED
      BY <1>1, <3>1, <3>2
  <2>2. CASE futures[r] # <<>>
    <3>1. /\ polling' = [polling EXCEPT ![r] = futures[r] \o chan[r]]
          /\ futures' = [futures EXCEPT ![r] = <<>>] /\ chan' = [chan EXCEPT ![r] = <<>>]
          /\ rpc'[r] = "poll" /\ rpc[r] = "top" /\ UNCHANGED <<dest, done>>
      BY <1>t, <1>2, <2>2 DEF Top, Drain
    <3>2. PICK s \in Seq(AllTasks) : s = futures[r] \o chan[r]
      BY <1>t, TaskLists
    <3>3. Range(s) = Range(futures[r]) \cup Range(chan[r]) /\ IsInjective(s)
      BY <1>t, <3>2, RangeOfJoin DEF Placed, ListsOf
    <3>4. polling'[r] = s /\ futures'[r] = <<>> /\ chan'[r] = <<>> /\ polling[r] = <<>>
      BY <1>t, <3>1, <3>2 DEF Placed, ListsFit
    <3>5. ListsFit(r)'
      BY <3>1 DEF ListsFit, Unstarted, Left
    <3> QED
      BY <1>t, <1>n, <3>1, <3>3, <3>4, <3>5 DEF Rearranged, ListsOf, Placed, Ours
  <2> QED
    BY <2>1, <2>2
<1>3. CASE CheckEmpty(r) \/ RoundEnds(r) \/ Park(r) \/ StoreFinished(r)
  <2>1. UNCHANGED <<chan, futures, polling, dest, done>> /\ rpc[r] # "drop"
    BY <1>3 DEF CheckEmpty, RoundEnds, Park, StoreFinished
  <2>2. \/ rpc[r] = "empty?" /\ rpc'[r] \in {"leave", "recv"}
        \/ rpc[r] = "poll" /\ rpc'[r] \in {"park", "top"} /\ polling[r] = <<>>
        \/ rpc[r] = "park" /\ rpc'[r] = "top"
        \/ rpc[r] = "leave" /\ rpc'[r] = "drop"
    BY <1>t, <1>3 DEF CheckEmpty, RoundEnds, Park, StoreFinished
  <2>3. ListsFit(r)'
    BY <2>1, <2>2 DEF Placed, ListsFit, Unstarted, Left
  <2> QED
    BY <1>1, <2>1, <2>3
<1>4. CASE Recv(r)
  <2>1. /\ polling' = [polling EXCEPT ![r] = <<Head(chan[r])>>]
        /\ chan' = [chan EXCEPT ![r] = Tail(chan[r])]
        /\ rpc'[r] = "poll" /\ rpc[r] = "recv" /\ UNCHANGED <<futures, dest, done>> /\ chan[r] # <<>>
    BY <1>t, <1>4 DEF Recv
  <2>2. polling[r] = <<>> /\ futures[r] = <<>>
    BY <2>1 DEF Placed, ListsFit
  <2>3. PICK h : h = Head(chan[r])
    OBVIOUS
  <2>4. /\ Range(chan[r]) = {h} \cup Range(chan'[r]) /\ h \notin Range(chan'[r]) /\ IsInjective(chan'[r])
    BY <1>t, <2>1, <2>3, RangeOfTail DEF Placed, ListsOf
  <2>5. Range(polling'[r]) = {h} /\ IsInjective(polling'[r]) /\ futures'[r] = <<>>
    BY <1>t, <2>1, <2>2, <2>3, RangeOfOne
  <2>6. ListsFit(r)'
    BY <2>1 DEF ListsFit, Unstarted, Left
  <2> QED
    BY <1>t, <1>n, <2>1, <2>2, <2>4, <2>5, <2>6 DEF Rearranged, ListsOf, Placed, Ours
<1>5. CASE Returns(r) \/ Panics(r)
  <2>1. /\ polling[r] # <<>> /\ UNCHANGED <<rpc, chan, futures, dest>> /\ done' = done \cup {Current(r)}
        /\ polling' = [polling EXCEPT ![r] = Tail(polling[r])]
    BY <1>5 DEF Returns, Panics, Polls, Finish
  <2> QED
    BY <1>t, <2>1, NextTask
<1>6. CASE PollPending(r) \/ PollAgain(r)
  <2>1. /\ polling[r] # <<>> /\ UNCHANGED <<rpc, chan, dest>>
        /\ polling' = [polling EXCEPT ![r] = Tail(polling[r])]
        /\ \/ done' = done \cup {Current(r)} /\ UNCHANGED futures
           \/ done' = done /\ futures' = [futures EXCEPT ![r] = Append(futures[r], Current(r))]
    BY <1>6 DEF PollPending, PollAgain, Polls, Keep
  <2> QED
    BY <1>t, <2>1, NextTask
<1>7. CASE DropReceiver(r)
  <2>1. /\ chan' = [chan EXCEPT ![r] = <<>>] /\ rpc[r] = "drop" /\ rpc'[r] = "returned"
        /\ UNCHANGED <<futures, polling, dest, done>>
    BY <1>t, <1>7 DEF DropReceiver
  <2>2. ListsFit(r)' /\ chan'[r] = <<>>
    BY <1>t, <2>1 DEF Placed, ListsFit, Unstarted, Left
  <2> QED
    BY <1>t, <1>n, <2>1, <2>2 DEF Rearranged, ListsOf, Placed, Ours
<1>8. ASSUME NEW i \in DOMAIN InitTasks[r], CheckEnded(InitTasks[r][i])
      PROVE  UNCHANGED <<chan, futures, polling, dest, done, rpc>> /\ rpc[r] = "poll"
  BY <1>8 DEF CheckEnded, Submitter, InTurn
<1>9. CASE \E i \in DOMAIN InitTasks[r] : CheckEnded(InitTasks[r][i])
  BY <1>1, <1>8, <1>9 DEF Placed, ListsFit, Unstarted, Left
<1> QED
  BY <1>2, <1>3, <1>4, <1>5, <1>6, <1>7, <1>9 DEF MainStep

LEMMA PlacesOpen == Init => Places
<1> SUFFICES ASSUME Init PROVE Places
  OBVIOUS
<1>1. ASSUME NEW r \in Calls
      PROVE  /\ chan[r] = <<>> /\ futures[r] = <<>> /\ polling[r] = <<>> /\ rpc[r] = "idle"
             /\ dest[r] = NoCall
  BY <1>1 DEF Init, AllTasks
<1>2. done = {} /\ \A t \in AllTasks : dest[t] = NoCall
  BY DEF Init
<1>3. Sent
  BY <1>1, <1>2 DEF Sent, Unstarted, AllTasks
<1>4. ASSUME NEW r \in Calls PROVE Placed(r)
  BY <1>1, <1>2, <1>4, RangeOfNone, MainThreadAssumption
     DEF Placed, ListsOf, ListsFit, Ours, Unstarted, Left
<1> QED
  BY <1>3, <1>4 DEF Places

(* The lists of a call that is not concerned.                              *)
LEMMA PlacedStays ==
  ASSUME NEW r \in Calls, Placed(r), UNCHANGED <<chan[r], futures[r], polling[r], rpc[r]>>,
         done \subseteq done', Ours(r) \cap done' = {},
         \A t \in Ours(r) : dest'[t] = dest[t],
         \A t \in AllTasks : dest'[t] = r => dest[t] = r
  PROVE  Placed(r)'
<1>1. Ours(r)' = Ours(r) /\ ListsOf(r)' /\ ListsFit(r)'
  BY DEF Ours, Placed, ListsOf, ListsFit
<1> QED
  BY <1>1 DEF Placed

LEMMA ListsAside ==
  ASSUME \A q \in Calls : Placed(q), UNCHANGED <<chan, futures, polling, rpc, done, dest>>
  PROVE  \A q \in Calls : Placed(q)'
<1> TAKE q \in Calls
<1>1. Placed(q) /\ Ours(q) \cap done' = {}
  BY DEF Placed
<1> QED
  BY <1>1, PlacedStays

LEMMA PlacesStay == Typed /\ Places /\ [Next]_vars => Places'
<1> SUFFICES ASSUME TypeOK, Registration, Places, [Next]_vars PROVE Places'
  BY DEF Typed
<1> USE DEF callVars, loopVars, taskVars
<1>t. /\ chan \in [Calls -> Seq(AllTasks)] /\ rpc \in [Calls -> RegisterPCs]
      /\ spc \in [Tasks -> {"idle", "checked", "sent", "accepted", "refused"}]
      /\ dest \in [AllTasks -> Calls \cup {NoCall}] /\ worker \in Calls \cup {NoCall}
      /\ Calls \subseteq AllTasks /\ Tasks \subseteq AllTasks
      /\ NoCall \notin Calls /\ Elsewhere \cap AllTasks = {} /\ Calls \cap Tasks = {}
  BY MainThreadAssumption DEF TypeOK, AllTasks
<1>o. \A r \in Calls : Ours(r) \subseteq AllTasks
  BY DEF TypeOK, Ours, Range
<1>1. ASSUME NEW r \in Calls, Register(r) PROVE Places'
  <2>1. /\ rpc[r] = "idle" /\ UNCHANGED <<spc, futures, polling, done>>
        /\ dest[r] = NoCall /\ r \notin done /\ Ours(r) = {} /\ futures[r] = <<>> /\ polling[r] = <<>>
    BY <1>1, <1>t, RangeOfNone DEF Register, Places, Placed, Sent, ListsFit, Unstarted, Ours
  <2>2. CASE Finished
    <3>1. /\ chan' = [chan EXCEPT ![r] = <<r>>] /\ dest' = [dest EXCEPT ![r] = r]
          /\ rpc' = [rpc EXCEPT ![r] = "top"]
      BY <1>1, <2>2 DEF Register
    <3>2. Sent'
      BY <1>t, <2>1, <3>1 DEF Places, Sent, Unstarted
    <3>3. ASSUME NEW q \in Calls, q # r PROVE Placed(q)'
      <4>1. r \notin Ours(q) /\ Ours(q) \cap done' = {}
        BY <1>t, <2>1 DEF Places, Placed
      <4> QED
        BY <1>t, <1>o, <2>1, <3>1, <3>3, <4>1, PlacedStays DEF Places
    <3>4. Placed(r)'
      <4>1. chan'[r] = <<r>> /\ futures'[r] = <<>> /\ polling'[r] = <<>> /\ rpc'[r] = "top" /\ dest'[r] = r
        BY <1>t, <2>1, <3>1
      <4>2. ListsOf(r)' /\ Ours(r)' = {r} /\ ListsFit(r)'
        BY <4>1, RangeOfOne, RangeOfNone DEF ListsOf, Ours, ListsFit, Unstarted, Left
      <4>3. \A t \in AllTasks : dest'[t] = r => t = r \/ t \in done
        BY <1>t, <2>1, <3>1 DEF Places, Placed
      <4> QED
        BY <2>1, <4>1, <4>2, <4>3 DEF Placed
    <3> QED
      BY <3>2, <3>3, <3>4 DEF Places
  <2>3. CASE ~Finished
    <3>1. UNCHANGED <<chan, dest>> /\ rpc' = [rpc EXCEPT ![r] = "refused"]
      BY <1>1, <2>3 DEF Register
    <3>2. Sent'
      BY <1>t, <2>1, <3>1 DEF Places, Sent, Unstarted
    <3>3. ASSUME NEW q \in Calls, q # r PROVE Placed(q)'
      <4>1. Ours(q) \cap done' = {}
        BY <2>1 DEF Places, Placed
      <4> QED
        BY <1>t, <2>1, <3>1, <3>3, <4>1, PlacedStays DEF Places
    <3>4. Placed(r)'
      <4>1. rpc'[r] = "refused" /\ ListsOf(r)' /\ Ours(r)' = {}
        BY <1>t, <2>1, <3>1 DEF Places, Placed, ListsOf, Ours
      <4>2. ListsFit(r)'
        BY <2>1, <3>1, <4>1 DEF Places, Placed, ListsFit, Unstarted
      <4> QED
        BY <2>1, <3>1, <4>1, <4>2 DEF Places, Placed
    <3> QED
      BY <3>2, <3>3, <3>4 DEF Places
  <2> QED
    BY <2>2, <2>3
<1>2. ASSUME NEW t \in Tasks, CheckEnded(t) PROVE Places'
  <2>1. UNCHANGED <<rpc, chan, futures, polling, done, dest>>
        /\ spc[t] = "idle" /\ spc' = [spc EXCEPT ![t] = IF Ended THEN "refused" ELSE "checked"]
    BY <1>2 DEF CheckEnded
  <2>2. Sent'
    BY <1>t, <2>1 DEF Places, Sent
  <2> QED
    BY <2>1, <2>2, ListsAside DEF Places
<1>3. ASSUME NEW t \in Tasks, Send(t) PROVE Places'
  <2>1. /\ spc[t] = "checked" /\ dest[t] = NoCall /\ t \notin done /\ worker \in Calls
        /\ UNCHANGED <<rpc, futures, polling, done>>
    BY <1>3, <1>t DEF Send, Places, Sent, Registration, Reading
  <2>2. CASE rpc[worker] = "returned"
    <3>1. UNCHANGED <<chan, dest>> /\ spc' = [spc EXCEPT ![t] = "refused"]
      BY <1>3, <2>2 DEF Send
    <3>2. Sent'
      BY <1>t, <2>1, <3>1 DEF Places, Sent
    <3> QED
      BY <2>1, <3>1, <3>2, ListsAside DEF Places
  <2>3. CASE rpc[worker] # "returned"
    <3>1. PICK w \in Calls : w = worker
      BY <2>1
    <3>2. /\ chan' = [chan EXCEPT ![w] = Append(chan[w], t)] /\ dest' = [dest EXCEPT ![t] = w]
          /\ spc' = [spc EXCEPT ![t] = "sent"]
      BY <1>3, <2>3, <3>1 DEF Send
    <3>3. \A q \in Calls : t \notin Ours(q)
      BY <1>t, <2>1 DEF Places, Placed
    <3>4. Sent'
      BY <1>t, <2>1, <3>2 DEF Places, Sent
    <3>5. ASSUME NEW q \in Calls, q # w PROVE Placed(q)'
      <4>1. Ours(q) \cap done' = {}
        BY <2>1 DEF Places, Placed
      <4> QED
        BY <1>t, <1>o, <2>1, <3>2, <3>3, <3>5, <4>1, PlacedStays DEF Places
    <3>6. Placed(w)'
      <4>1. chan'[w] = Append(chan[w], t) /\ chan[w] \in Seq(AllTasks) /\ dest'[t] = w
        BY <1>t, <3>2
      <4>2. /\ Range(chan'[w]) = Range(chan[w]) \cup {t} /\ IsInjective(chan'[w])
        BY <1>t, <3>3, <4>1, RangeOfAppend DEF Places, Placed, ListsOf, Ours
      <4>3. ListsOf(w)' /\ Ours(w)' = Ours(w) \cup {t}
        BY <2>1, <3>3, <4>2 DEF Places, Placed, ListsOf, Ours
      <4>4. rpc[w] \notin Unstarted
        BY <1>t, <3>1 DEF Registration, Unstarted
      <4>5. ListsFit(w)'
        BY <2>1, <4>4 DEF Places, Placed, ListsFit
      <4> QED
        BY <1>t, <1>o, <2>1, <3>2, <4>1, <4>3, <4>5 DEF Places, Placed
    <3> QED
      BY <3>4, <3>5, <3>6 DEF Places
  <2> QED
    BY <2>2, <2>3
<1>4. ASSUME NEW t \in Tasks, WakeMain(t) \/ Cancel(t) PROVE Places'
  <2>1. /\ UNCHANGED <<rpc, chan, futures, polling, done, dest>>
        /\ spc' = spc \/ (spc[t] = "sent" /\ spc' = [spc EXCEPT ![t] = "accepted"])
    BY <1>4 DEF WakeMain, Cancel
  <2>2. Sent'
    BY <1>t, <2>1 DEF Places, Sent
  <2> QED
    BY <2>1, <2>2, ListsAside DEF Places
<1>5. ASSUME NEW e \in Enders, CheckRunning(e) \/ StoreEnd(e) PROVE Places'
  BY <1>5 DEF CheckRunning, StoreEnd, Places, Placed, ListsOf, ListsFit, Ours, Sent
<1>6. ASSUME NEW t \in AllTasks, Waken(t) PROVE Places'
  BY <1>6 DEF Waken, Places, Placed, ListsOf, ListsFit, Ours, Sent
<1>7. ASSUME NEW t \in Elsewhere, FinishElsewhere(t) PROVE Places'
  <2>1. UNCHANGED <<rpc, spc, chan, futures, polling, dest>> /\ done' = done \cup {t} /\ t \notin AllTasks
    BY <1>7, <1>t DEF FinishElsewhere
  <2>2. ASSUME NEW q \in Calls PROVE Placed(q)'
    <3>1. Ours(q) \cap done' = {}
      BY <1>o, <2>1 DEF Places, Placed
    <3> QED
      BY <2>1, <3>1, PlacedStays DEF Places
  <2> QED
    BY <2>1, <2>2 DEF Places, Sent
<1>8. ASSUME NEW r \in Calls, MainStep(r) PROVE Places'
  <2>1. /\ Rearranged(r) /\ UNCHANGED dest
        /\ \A q \in Calls \ {r} :
             chan'[q] = chan[q] /\ futures'[q] = futures[q] /\ polling'[q] = polling[q] /\ rpc'[q] = rpc[q]
        /\ done' = done \/ (polling[r] # <<>> /\ done' = done \cup {Current(r)})
        /\ rpc[r] \notin {"idle", "refused", "returned"} /\ rpc'[r] \notin {"idle", "refused"}
    BY <1>8, ListSteps, LoopSteps DEF Places
  <2>2. polling[r] # <<>> => Current(r) \in AllTasks /\ Current(r) \in Ours(r) /\ dest[Current(r)] = r
    BY CurrentTask DEF Places, Placed
  <2>3. ASSUME NEW q \in Calls, q # r PROVE Placed(q)'
    <3>1. Ours(q) \cap done' = {}
      BY <2>1, <2>2, <2>3 DEF Places, Placed
    <3> QED
      BY <2>1, <2>3, <3>1, PlacedStays DEF Places
  <2>4. Placed(r)'
    BY <2>1 DEF Rearranged, Places, Placed
  <2>5. \A t \in Tasks : spc'[t] = spc[t] \/ spc[t] = "idle"
    <3>1. \A i \in DOMAIN InitTasks[r] : InitTasks[r][i] \in Tasks
      BY MainThreadAssumption
    <3>2. \A i \in DOMAIN InitTasks[r] : CheckEnded(InitTasks[r][i]) =>
            \A t \in Tasks : spc'[t] = spc[t] \/ spc[t] = "idle"
      BY <1>t, <3>1 DEF CheckEnded
    <3> QED
      BY <1>8, <3>2, LoopSteps
  <2>6. Sent'
    BY <1>t, <2>1, <2>2, <2>5 DEF Places, Sent, Unstarted
  <2> QED
    BY <2>3, <2>4, <2>6 DEF Places
<1>9. CASE UNCHANGED vars
  BY <1>9 DEF vars, Places, Placed, ListsOf, ListsFit, Ours, Sent
<1> QED
  BY <1>1, <1>2, <1>3, <1>4, <1>5, <1>6, <1>7, <1>8, <1>9 DEF Next, Terminated

LEMMA PlacesAreKept == Spec => [](Typed /\ Places)
<1>1. Init => Typed
  BY TypesOpen DEF Typed, Init, Registration, Reading, Writing
<1>2. Typed /\ [Next]_vars => Typed'
  BY TypesStay, RegistrationStays DEF Typed
<1> QED
  BY <1>1, <1>2, PlacesOpen, PlacesStay, PTL DEF Spec

(* Until its receiver is dropped, a task is once in the lists of the main  *)
(* thread it was sent to, or done, while submitters, who only hold the     *)
(* lock, send to a loop that does not take it.                             *)
THEOREM AcceptedTasksAreHeld == Spec => []AcceptedIsHeld
<1>1. Typed /\ Places => AcceptedIsHeld
  <2> SUFFICES ASSUME TypeOK, Places, NEW r \in Calls, rpc[r] # "returned"
               PROVE  /\ \A t \in AllTasks : dest[t] = r =>
                           (t \in done) # (\E i \in DOMAIN Held(r) : Held(r)[i] = t)
                      /\ \A i, j \in DOMAIN Held(r) : Held(r)[i] = Held(r)[j] => i = j
    BY DEF AcceptedIsHeld, Typed
  <2>1. chan[r] \in Seq(AllTasks) /\ futures[r] \in Seq(AllTasks) /\ polling[r] \in Seq(AllTasks)
    BY DEF TypeOK
  <2>2. PICK s \in Seq(AllTasks) : s = chan[r] \o futures[r]
    BY <2>1, TaskLists
  <2>3. Range(s) = Range(chan[r]) \cup Range(futures[r]) /\ IsInjective(s)
    <3>1. IsInjective(chan[r]) /\ IsInjective(futures[r]) /\ Range(chan[r]) \cap Range(futures[r]) = {}
      BY DEF Places, Placed, ListsOf
    <3> QED
      BY <2>1, <2>2, <3>1, RangeOfJoin
  <2>4. Range(s \o polling[r]) = Range(s) \cup Range(polling[r]) /\ IsInjective(s \o polling[r])
    <3>1. Range(s) \cap Range(polling[r]) = {} /\ IsInjective(polling[r])
      BY <2>3 DEF Places, Placed, ListsOf
    <3> QED
      BY <2>1, <2>3, <3>1, RangeOfJoin
  <2>5. Range(Held(r)) = Ours(r) /\ IsInjective(Held(r))
    BY <2>2, <2>3, <2>4 DEF Held, Ours
  <2>6. \A t : t \in Range(Held(r)) <=> \E i \in DOMAIN Held(r) : Held(r)[i] = t
    BY DEF Range
  <2>7. ASSUME NEW t \in AllTasks, dest[t] = r
        PROVE  (t \in done) # (\E i \in DOMAIN Held(r) : Held(r)[i] = t)
    <3>1. t \in done <=> t \notin Range(Held(r))
      BY <2>5, <2>7 DEF Places, Placed, Left
    <3>2. CASE t \in done
      <4>1. ~ \E i \in DOMAIN Held(r) : Held(r)[i] = t
        BY <2>6, <3>1, <3>2
      <4> QED
        BY <3>2, <4>1
    <3>3. CASE t \notin done
      <4>1. \E i \in DOMAIN Held(r) : Held(r)[i] = t
        BY <2>6, <3>1, <3>3
      <4> QED
        BY <3>3, <4>1
    <3> QED
      BY <3>2, <3>3
  <2>8. \A i, j \in DOMAIN Held(r) : Held(r)[i] = Held(r)[j] => i = j
    BY <2>5 DEF IsInjective
  <2> QED
    BY <2>7, <2>8
<1> QED
  BY <1>1, PlacesAreKept, PTL

-----------------------------------------------------------------------------
(* What has begun stays in the hands of the loop.                          *)
InHand(r) == Range(futures[r]) \cup Range(polling[r])

LEMMA HandSteps ==
  ASSUME TypeOK, NEW r \in Calls, Placed(r), MainStep(r)
  PROVE  /\ InHand(r) \subseteq InHand(r)' \cup done'
         /\ begun' = begun \/ (polling[r] # <<>> /\ begun' = begun \cup {Current(r)})
<1> USE DEF Goto, callVars, loopVars, taskVars
<1>t. /\ chan \in [Calls -> Seq(AllTasks)] /\ futures \in [Calls -> Seq(AllTasks)]
      /\ polling \in [Calls -> Seq(AllTasks)] /\ rpc \in [Calls -> RegisterPCs]
  BY DEF TypeOK
<1>1. CASE UNCHANGED <<futures, polling, begun>>
  BY <1>1 DEF InHand
<1>2. CASE Top(r)
  <2>1. CASE futures[r] = <<>>
    BY <1>1, <1>2, <2>1 DEF Top
  <2>2. CASE futures[r] # <<>>
    <3>1. /\ polling'[r] = futures[r] \o chan[r] /\ rpc[r] = "top" /\ UNCHANGED begun
      BY <1>t, <1>2, <2>2 DEF Top, Drain
    <3>2. polling[r] = <<>>
      BY <3>1 DEF Placed, ListsFit
    <3>3. Range(polling'[r]) = Range(futures[r]) \cup Range(chan[r])
      BY <1>t, <3>1, RangeOfJoin
    <3> QED
      BY <3>1, <3>2, <3>3, RangeOfNone DEF InHand
  <2> QED
    BY <2>1, <2>2
<1>3. CASE CheckEmpty(r) \/ RoundEnds(r) \/ Park(r) \/ StoreFinished(r) \/ DropReceiver(r)
  BY <1>1, <1>3 DEF CheckEmpty, RoundEnds, Park, StoreFinished, DropReceiver
<1>4. CASE Recv(r)
  <2>1. rpc[r] = "recv" /\ UNCHANGED begun
    BY <1>4 DEF Recv
  <2>2. polling[r] = <<>> /\ futures[r] = <<>>
    BY <2>1 DEF Placed, ListsFit
  <2> QED
    BY <2>1, <2>2, RangeOfNone DEF InHand
<1>5. ASSUME polling[r] # <<>>, polling' = [polling EXCEPT ![r] = Tail(polling[r])],
             \/ done' = done \cup {Current(r)} /\ UNCHANGED futures
             \/ done' = done /\ futures' = [futures EXCEPT ![r] = Append(futures[r], Current(r))]
      PROVE  InHand(r) \subseteq InHand(r)' \cup done'
  <2>1. Range(polling[r]) = {Current(r)} \cup Range(polling'[r]) /\ Current(r) \in AllTasks
    BY <1>t, <1>5, CurrentTask
  <2>2. Range(Append(futures[r], Current(r))) = Range(futures[r]) \cup {Current(r)}
    BY <1>t, <2>1, RangeOfAppend
  <2> QED
    BY <1>t, <1>5, <2>1, <2>2 DEF InHand
<1>6. CASE Returns(r) \/ Panics(r)
  <2>1. /\ polling[r] # <<>> /\ UNCHANGED futures /\ done' = done \cup {Current(r)}
        /\ polling' = [polling EXCEPT ![r] = Tail(polling[r])]
        /\ begun' = begun \/ begun' = begun \cup {Current(r)}
    BY <1>6 DEF Returns, Panics, Polls, Finish
  <2> QED
    BY <1>5, <2>1
<1>7. CASE PollPending(r) \/ PollAgain(r)
  <2>1. /\ polling[r] # <<>>
        /\ polling' = [polling EXCEPT ![r] = Tail(polling[r])]
        /\ \/ done' = done \cup {Current(r)} /\ UNCHANGED futures
           \/ done' = done /\ futures' = [futures EXCEPT ![r] = Append(futures[r], Current(r))]
        /\ begun' = begun \/ begun' = begun \cup {Current(r)}
    BY <1>7 DEF PollPending, PollAgain, Polls, Keep
  <2> QED
    BY <1>5, <2>1
<1>8. CASE \E i \in DOMAIN InitTasks[r] : CheckEnded(InitTasks[r][i])
  BY <1>1, <1>8 DEF CheckEnded
<1> QED
  BY <1>2, <1>3, <1>4, <1>6, <1>7, <1>8 DEF MainStep

LEMMA BegunStays == Typed /\ Places /\ BegunStay /\ [Next]_vars => BegunStay'
<1> SUFFICES ASSUME TypeOK, Places, BegunStay, [Next]_vars PROVE BegunStay'
  BY DEF Typed
<1>1. CASE UNCHANGED <<futures, polling, begun>> /\ done \subseteq done'
  BY <1>1 DEF BegunStay
<1>2. ASSUME NEW r \in Calls, MainStep(r) PROVE BegunStay'
  <2>1. /\ InHand(r) \subseteq InHand(r)' \cup done'
        /\ begun' = begun \/ (polling[r] # <<>> /\ begun' = begun \cup {Current(r)})
        /\ \A q \in Calls \ {r} : InHand(q)' = InHand(q)
        /\ done \subseteq done'
    BY <1>2, HandSteps, ListSteps DEF Places, InHand
  <2>2. polling[r] # <<>> => Current(r) \in InHand(r)
    BY CurrentTask DEF Places, InHand
  <2>3. \A t \in begun' : t \in done \/ \E q \in Calls : t \in InHand(q)
    BY <2>1, <2>2 DEF BegunStay, InHand
  <2>4. \A t \in begun' : t \in done' \/ \E q \in Calls : t \in InHand(q)'
    BY <2>1, <2>3
  <2> QED
    BY <2>4 DEF BegunStay, InHand
<1>3. ASSUME NEW r \in Calls, Register(r) PROVE BegunStay'
  BY <1>1, <1>3 DEF Register, loopVars, taskVars
<1>4. ASSUME NEW t \in Tasks, CheckEnded(t) \/ Send(t) \/ WakeMain(t) \/ Cancel(t) PROVE BegunStay'
  BY <1>1, <1>4 DEF CheckEnded, Send, WakeMain, Cancel, loopVars, taskVars
<1>5. ASSUME NEW e \in Enders, CheckRunning(e) \/ StoreEnd(e) PROVE BegunStay'
  BY <1>1, <1>5 DEF CheckRunning, StoreEnd, loopVars, taskVars
<1>6. ASSUME NEW t \in AllTasks \cup Elsewhere, Waken(t) \/ FinishElsewhere(t) PROVE BegunStay'
  BY <1>1, <1>6 DEF Waken, FinishElsewhere, loopVars
<1>7. CASE UNCHANGED vars
  BY <1>1, <1>7 DEF vars, loopVars, taskVars
<1> QED
  BY <1>2, <1>3, <1>4, <1>5, <1>6, <1>7 DEF Next, Terminated

(* register_main_thread replaces the worker only when the loop of the last *)
(* call is over, and a loop is left with every task finished whose         *)
(* function it has called, whatever end_main_thread and submitters do      *)
(* meanwhile.  Tasks in the channel may be left there.                     *)
THEOREM MainThreadsTakeTurns == Spec => []OneMainThread
<1>1. Init => BegunStay
  BY DEF Init, BegunStay
<1>2. Typed /\ Places /\ BegunStay => OneMainThread
  <2> SUFFICES ASSUME Typed, Places, BegunStay PROVE OneMainThread
    OBVIOUS
  <2>1. ASSUME NEW q \in Calls, NEW r \in Calls, worker = r, q # r
        PROVE  rpc[q] \in {"idle", "refused", "drop", "returned"}
    BY <2>1 DEF Typed, Registration
  <2>2. ASSUME NEW r \in Calls, rpc[r] \in Left, NEW t \in begun, dest[t] = r PROVE t \in done
    <3>1. futures[r] = <<>> /\ polling[r] = <<>>
      BY <2>2 DEF Places, Placed, ListsFit, Left
    <3>2. \A q \in Calls : t \in Range(futures[q]) \cup Range(polling[q]) => q = r
      BY <2>2 DEF Places, Placed, Ours
    <3> QED
      BY <3>1, <3>2, RangeOfNone DEF BegunStay
  <2> QED
    BY <2>1, <2>2 DEF OneMainThread, Left
<1> QED
  BY <1>1, <1>2, BegunStays, PlacesAreKept, PTL DEF Spec

-----------------------------------------------------------------------------
(* An init task that is submitting is the one being polled, so its loop    *)
(* does nothing else meanwhile.                                            *)
Submits(r) == \E i \in DOMAIN InitTasks[r] : spc[InitTasks[r][i]] \in {"checked", "sent"}

LEMMA InitTaskFacts ==
  /\ \A r \in Calls : \A i \in DOMAIN InitTasks[r] : i \in Nat /\ InitTasks[r][i] \in Tasks
  /\ \A q, r \in Calls : \A i \in DOMAIN InitTasks[q], j \in DOMAIN InitTasks[r] :
       InitTasks[q][i] = InitTasks[r][j] => q = r /\ i = j
  /\ \A r \in Calls : \A i \in DOMAIN InitTasks[r] : \A j \in 1 .. i - 1 : j \in DOMAIN InitTasks[r] /\ j < i
<1>1. \A r \in Calls : InitTasks[r] \in Seq(Tasks)
  BY MainThreadAssumption
<1>2. ASSUME NEW r \in Calls, NEW i \in DOMAIN InitTasks[r]
      PROVE  i \in Nat /\ InitTasks[r][i] \in Tasks /\ \A j \in 1 .. i - 1 : j \in DOMAIN InitTasks[r] /\ j < i
  BY <1>1, <1>2
<1> QED
  BY <1>2, MainThreadAssumption

LEMMA SubmitterWaits ==
  ASSUME TypeOK, Turns, NEW r \in Calls, Submits(r), MainStep(r)
  PROVE  \E i \in DOMAIN InitTasks[r] : CheckEnded(InitTasks[r][i])
<1>1. PICK i \in DOMAIN InitTasks[r] : spc[InitTasks[r][i]] \in {"checked", "sent"}
  BY DEF Submits
<1>2. rpc[r] = "poll" /\ polling[r] # <<>> /\ Current(r) = r /\ r \notin awaited
  BY <1>1 DEF Turns
<1>3. ~ Submitted(r)
  BY <1>1 DEF Submitted
<1>4. ~ Rejected(r)
  <2> SUFFICES ASSUME NEW j \in DOMAIN InitTasks[r], spc[InitTasks[r][j]] = "refused" PROVE FALSE
    BY DEF Rejected
  <2>1. spc[InitTasks[r][i]] # "idle" => \A k \in 1 .. i - 1 : spc[InitTasks[r][k]] = "accepted"
    BY DEF Turns
  <2>2. spc[InitTasks[r][j]] # "idle" => \A k \in 1 .. j - 1 : spc[InitTasks[r][k]] = "accepted"
    BY DEF Turns
  <2>3. j \in 1 .. i - 1 \/ i \in 1 .. j - 1 \/ i = j
    <3>1. InitTasks[r] \in Seq(Tasks)
      BY MainThreadAssumption
    <3>2. i \in Nat \ {0} /\ j \in Nat \ {0}
      BY <3>1
    <3> QED
      BY <3>2
  <2> QED
    BY <1>1, <2>1, <2>2, <2>3
<1>5. ~ Top(r) /\ ~ CheckEmpty(r) /\ ~ Recv(r) /\ ~ RoundEnds(r) /\ ~ Park(r)
      /\ ~ StoreFinished(r) /\ ~ DropReceiver(r)
  BY <1>2 DEF Top, CheckEmpty, Recv, RoundEnds, Park, StoreFinished, DropReceiver
<1>6. ~ Returns(r) /\ ~ Panics(r) /\ ~ PollPending(r)
  BY <1>2, <1>3, <1>4 DEF Returns, Panics, PollPending, Polls
<1>7. ~ PollAgain(r)
  BY <1>2 DEF PollAgain
<1> QED
  BY <1>5, <1>6, <1>7 DEF MainStep

(* What a call of submit_to_main_thread does to the turns.                 *)
LEMMA TurnsInSubmission ==
  ASSUME TypeOK, Turns, NEW t \in Tasks, CheckEnded(t) \/ Send(t) \/ WakeMain(t)
  PROVE  Turns'
<1>t. spc \in [Tasks -> {"idle", "checked", "sent", "accepted", "refused"}]
  BY DEF TypeOK
<1>1. /\ UNCHANGED <<rpc, polling, awaited>> /\ spc[t] # "accepted"
      /\ \A u \in Tasks \ {t} : spc'[u] = spc[u]
      /\ \/ spc[t] = "idle" /\ \A r \in Submitter(t) : InTurn(t, r)
         \/ spc[t] \in {"checked", "sent"}
  BY <1>t DEF CheckEnded, Send, WakeMain, callVars, loopVars, taskVars
<1> SUFFICES ASSUME NEW r \in Calls, NEW i \in DOMAIN InitTasks[r]
             PROVE  /\ spc'[InitTasks[r][i]] # "idle" =>
                         \A j \in 1 .. i - 1 : spc'[InitTasks[r][j]] = "accepted"
                    /\ spc'[InitTasks[r][i]] \in {"checked", "sent"} =>
                         rpc[r] = "poll" /\ polling[r] # <<>> /\ Current(r) = r /\ r \notin awaited
  BY <1>1 DEF Turns, Current
<1>2. \A j \in 1 .. i - 1 : InitTasks[r][j] \in Tasks
  BY InitTaskFacts
<1>3. /\ spc[InitTasks[r][i]] # "idle" => \A j \in 1 .. i - 1 : spc[InitTasks[r][j]] = "accepted"
      /\ spc[InitTasks[r][i]] \in {"checked", "sent"} =>
           rpc[r] = "poll" /\ polling[r] # <<>> /\ Current(r) = r /\ r \notin awaited
  BY DEF Turns
<1>4. \A j \in 1 .. i - 1 : spc[InitTasks[r][j]] = "accepted" => spc'[InitTasks[r][j]] = "accepted"
  BY <1>1, <1>2
<1>5. CASE InitTasks[r][i] # t
  BY <1>1, <1>3, <1>4, <1>5, InitTaskFacts
<1>6. CASE InitTasks[r][i] = t /\ spc[t] # "idle"
  BY <1>1, <1>3, <1>4, <1>6
<1>7. CASE InitTasks[r][i] = t /\ spc[t] = "idle"
  <2>1. InTurn(t, r)
    BY <1>1, <1>7 DEF Submitter
  <2>2. PICK k \in DOMAIN InitTasks[r] :
          InitTasks[r][k] = t /\ \A j \in 1 .. k - 1 : spc[InitTasks[r][j]] = "accepted"
    BY <2>1 DEF InTurn
  <2>3. k = i
    BY <1>7, <2>2, InitTaskFacts
  <2> QED
    BY <1>4, <2>1, <2>2, <2>3 DEF InTurn
<1> QED
  BY <1>5, <1>6, <1>7

LEMMA TurnsStay == Typed /\ Places /\ Turns /\ [Next]_vars => Turns'
<1> SUFFICES ASSUME TypeOK, Registration, Places, Turns, [Next]_vars PROVE Turns'
  BY DEF Typed
<1>1. CASE UNCHANGED <<rpc, polling, spc>> /\ awaited' \subseteq awaited
  BY <1>1 DEF Turns, Current
<1>2. ASSUME NEW t \in Tasks, CheckEnded(t) \/ Send(t) \/ WakeMain(t) PROVE Turns'
  BY <1>2, TurnsInSubmission
<1>3. ASSUME NEW q \in Calls, MainStep(q) PROVE Turns'
  <2>1. CASE \E i \in DOMAIN InitTasks[q] : CheckEnded(InitTasks[q][i])
    BY <1>2, <2>1, InitTaskFacts
  <2>2. CASE ~ \E i \in DOMAIN InitTasks[q] : CheckEnded(InitTasks[q][i])
    <3>1. /\ ~ Submits(q) /\ spc' = spc
          /\ \A r \in Calls \ {q} : polling'[r] = polling[r] /\ rpc'[r] = rpc[r]
      BY <1>3, <2>2, SubmitterWaits, LoopSteps, ListSteps DEF Places
    <3>2. \A u \in awaited' : u \in awaited \/ (polling[q] # <<>> /\ u = Current(q))
      <4>1. CASE PollPending(q)
        BY <4>1 DEF PollPending, Polls
      <4>2. CASE ~ PollPending(q)
        BY <1>3, <2>2, <4>2
           DEF MainStep, Top, CheckEmpty, Recv, Returns, Panics, Finish, PollAgain, RoundEnds, Park,
               StoreFinished, DropReceiver, taskVars
      <4> QED
        BY <4>1, <4>2
    <3>3. \A r \in Calls \ {q} : r \in awaited' /\ rpc[r] = "poll" => r \in awaited
      <4> TAKE r \in Calls \ {q}
      <4>1. polling[q] # <<>> => dest[Current(q)] = q
        BY CurrentTask DEF Places, Placed
      <4>2. rpc[r] = "poll" => dest[r] = r
        BY DEF Places, Sent, Unstarted
      <4> QED
        BY <3>2, <4>1, <4>2
    <3> QED
      BY <3>1, <3>3 DEF Turns, Current, Submits
  <2> QED
    BY <2>1, <2>2
<1>4. ASSUME NEW r \in Calls, Register(r) PROVE Turns'
  <2>1. ~ Reading /\ spc' = spc
    BY <1>4 DEF Register
  <2> QED
    BY <2>1, InitTaskFacts DEF Turns, Reading
<1>5. ASSUME NEW t \in Tasks, Cancel(t) PROVE Turns'
  BY <1>1, <1>5 DEF Cancel, callVars, loopVars
<1>6. ASSUME NEW e \in Enders, CheckRunning(e) \/ StoreEnd(e) PROVE Turns'
  BY <1>1, <1>6 DEF CheckRunning, StoreEnd, loopVars, taskVars
<1>7. ASSUME NEW t \in AllTasks \cup Elsewhere, Waken(t) \/ FinishElsewhere(t) PROVE Turns'
  BY <1>1, <1>7 DEF Waken, FinishElsewhere, callVars, loopVars
<1>8. CASE UNCHANGED vars
  BY <1>1, <1>8 DEF vars, callVars, loopVars, taskVars
<1> QED
  BY <1>2, <1>3, <1>4, <1>5, <1>6, <1>7, <1>8 DEF Next, Terminated

-----------------------------------------------------------------------------
(* What a main thread that is over was sent, it has done.                  *)
AllDone(r) ==
  r \in done /\ \A i \in DOMAIN InitTasks[r] : dest[InitTasks[r][i]] = r => InitTasks[r][i] \in done

LEMMA AllDoneStays ==
  ASSUME NEW r \in Calls, AllDone(r), done \subseteq done', UNCHANGED dest
  PROVE  AllDone(r)'
BY DEF AllDone

LEMMA DrainedStays == Typed /\ Places /\ Turns /\ Drained /\ [Next]_vars => Drained'
<1> SUFFICES ASSUME TypeOK, Registration, Places, Turns, Drained, [Next]_vars, Unended'
             PROVE  \A r \in Calls : end'[r] # 1 /\ (rpc'[r] \in Left => AllDone(r)')
  BY DEF Typed, Drained, AllDone
<1>t. /\ end \in [Calls -> 0 .. 2] /\ rpc \in [Calls -> RegisterPCs] /\ dest \in [AllTasks -> Calls \cup {NoCall}]
      /\ epc \in [Enders -> {"idle", "checked", "returned"}] /\ Tasks \subseteq AllTasks /\ Calls \subseteq AllTasks
  BY DEF TypeOK, AllTasks
<1>i. ASSUME Unended, NEW r \in Calls PROVE end[r] # 1 /\ (rpc[r] \in Left => AllDone(r))
  BY <1>i DEF Drained, AllDone
<1>1. CASE UNCHANGED <<end, rpc, epc, dest>> /\ done \subseteq done'
  BY <1>1, <1>i, AllDoneStays DEF Unended
<1>2. ASSUME NEW q \in Calls, Register(q) PROVE \A r \in Calls : end'[r] # 1 /\ (rpc'[r] \in Left => AllDone(r)')
  <2> TAKE r \in Calls
  <2>1. /\ UNCHANGED <<end, epc, done>> /\ rpc' \in {[rpc EXCEPT ![q] = "top"], [rpc EXCEPT ![q] = "refused"]}
        /\ dest' = dest \/ dest' = [dest EXCEPT ![q] = q]
    BY <1>2 DEF Register, taskVars
  <2>2. \A i \in DOMAIN InitTasks[r] : InitTasks[r][i] # q
    BY InitTaskFacts, MainThreadAssumption
  <2>3. \A i \in DOMAIN InitTasks[r] : dest'[InitTasks[r][i]] = dest[InitTasks[r][i]]
    BY <1>t, <2>1, <2>2, InitTaskFacts
  <2>4. rpc'[r] \in Left => rpc[r] \in Left
    BY <1>t, <2>1 DEF Left
  <2> QED
    BY <1>i, <2>1, <2>3, <2>4 DEF AllDone, Unended
<1>3. ASSUME NEW t \in Tasks, Send(t) PROVE \A r \in Calls : end'[r] # 1 /\ (rpc'[r] \in Left => AllDone(r)')
  <2> TAKE r \in Calls
  <2>1. /\ UNCHANGED <<end, epc, done, rpc>> /\ spc[t] = "checked" /\ (dest' = dest \/ dest' = [dest EXCEPT ![t] = worker])
    BY <1>3 DEF Send, taskVars
  <2>2. rpc[r] \in Left => \A i \in DOMAIN InitTasks[r] : InitTasks[r][i] # t
    BY <2>1 DEF Turns, Left
  <2>3. rpc[r] \in Left => \A i \in DOMAIN InitTasks[r] : dest'[InitTasks[r][i]] = dest[InitTasks[r][i]]
    BY <1>t, <2>1, <2>2, InitTaskFacts
  <2> QED
    BY <1>i, <2>1, <2>3 DEF AllDone, Unended
<1>4. ASSUME NEW t \in Tasks, CheckEnded(t) \/ WakeMain(t) \/ Cancel(t)
      PROVE  \A r \in Calls : end'[r] # 1 /\ (rpc'[r] \in Left => AllDone(r)')
  BY <1>1, <1>4 DEF CheckEnded, WakeMain, Cancel, callVars, taskVars
<1>5. ASSUME NEW e \in Enders, CheckRunning(e) \/ StoreEnd(e)
      PROVE  \A r \in Calls : end'[r] # 1 /\ (rpc'[r] \in Left => AllDone(r)')
  <2>1. epc[e] # "checked" /\ epc'[e] # "idle"
    <3>1. epc' = [epc EXCEPT ![e] = epc'[e]] /\ epc'[e] # "idle"
      BY <1>t, <1>5 DEF CheckRunning, StoreEnd
    <3> QED
      BY <3>1 DEF Unended
  <2> QED
    BY <2>1 DEF Unended
<1>6. ASSUME NEW t \in AllTasks \cup Elsewhere, Waken(t) \/ FinishElsewhere(t)
      PROVE  \A r \in Calls : end'[r] # 1 /\ (rpc'[r] \in Left => AllDone(r)')
  BY <1>1, <1>6 DEF Waken, FinishElsewhere, callVars
<1>7. ASSUME NEW q \in Calls, MainStep(q)
      PROVE  \A r \in Calls : end'[r] # 1 /\ (rpc'[r] \in Left => AllDone(r)')
  <2> TAKE r \in Calls
  <2>1. /\ UNCHANGED <<epc, dest>> /\ done \subseteq done'
        /\ \A p \in Calls \ {q} : rpc'[p] = rpc[p]
        /\ end' = end \/ end' = [end EXCEPT ![q] = 2]
    BY <1>7, LoopSteps, ListSteps DEF Places
  <2>2. Unended /\ end'[r] # 1
    BY <1>i, <1>t, <2>1 DEF Unended
  <2>3. CASE rpc[r] \in Left
    BY <1>i, <2>1, <2>2, <2>3, AllDoneStays
  <2>4. CASE rpc[r] \notin Left /\ rpc'[r] \in Left
    <3>1. r = q /\ rpc'[r] = "leave"
      BY <1>7, <2>1, <2>4, LoopSteps DEF Left
    <3>2. end[r] = 0
      BY <1>i, <1>t, <2>2, <2>4 DEF Registration, Left
    <3>3. rpc[r] = "empty?" /\ chan[r] = <<>> /\ UNCHANGED done
      <4>1. CASE Top(r)
        <5>1. ~ (end[r] > 0)
          BY <3>2
        <5>2. rpc'[r] \in {"empty?", "recv", "poll"}
          BY <1>t, <4>1, <5>1 DEF Top, Goto, Drain
        <5> QED
          BY <3>1, <5>2
      <4>2. CASE CheckEmpty(r)
        BY <1>t, <3>1, <4>2 DEF CheckEmpty, Goto, taskVars
      <4>3. ~ Recv(r) /\ ~ RoundEnds(r) /\ ~ Park(r) /\ ~ StoreFinished(r) /\ ~ DropReceiver(r)
        BY <1>t, <3>1 DEF Recv, RoundEnds, Park, StoreFinished, DropReceiver, Goto
      <4>4. ~ Returns(r) /\ ~ Panics(r) /\ ~ PollPending(r) /\ ~ PollAgain(r)
            /\ ~ \E i \in DOMAIN InitTasks[r] : CheckEnded(InitTasks[r][i])
        BY <2>4, <3>1 DEF Returns, Panics, PollPending, PollAgain, Finish, Keep, CheckEnded, callVars
      <4> QED
        BY <1>7, <3>1, <4>1, <4>2, <4>3, <4>4 DEF MainStep
    <3>4. Ours(r) = {}
      BY <3>3, RangeOfNone DEF Places, Placed, ListsFit, Ours
    <3>5. \A t \in AllTasks : dest[t] = r => t \in done
      BY <3>3, <3>4 DEF Places, Placed
    <3>6. dest[r] = r
      BY <3>3 DEF Places, Sent, Unstarted
    <3> QED
      BY <1>t, <2>1, <2>2, <3>5, <3>6, InitTaskFacts DEF AllDone
  <2> QED
    BY <2>2, <2>3, <2>4
<1>8. CASE UNCHANGED vars
  BY <1>1, <1>8 DEF vars, callVars, taskVars
<1> QED
  BY <1>2, <1>3, <1>4, <1>5, <1>6, <1>7, <1>8 DEF Next, Terminated

(* Nobody ending it, register_main_thread returns with everything done     *)
(* that its init function managed to submit.                               *)
THEOREM InitTasksAreRun == Spec => []InitTasksRun
<1>1. Init => Turns /\ Drained
  <2> SUFFICES ASSUME Init PROVE Turns /\ Drained
    OBVIOUS
  <2>1. /\ \A t \in Tasks : spc[t] = "idle"
        /\ \A r \in Calls : rpc[r] = "idle" /\ end[r] = 0
    BY DEF Init
  <2> QED
    BY <2>1, InitTaskFacts DEF Turns, Drained, Left
<1>2. Drained => InitTasksRun
  BY MainThreadAssumption DEF Drained, InitTasksRun, Unended, Left
<1> QED
  BY <1>1, <1>2, TurnsStay, DrainedStays, PlacesAreKept, PTL DEF Spec
=============================================================================
