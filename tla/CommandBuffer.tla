----------------------------- MODULE CommandBuffer -----------------------------
(***************************************************************************)
(* Recording, baking and submitting a command buffer                       *)
(* (src/src/command_buffers), and the execution of its tasks by a queue    *)
(* that keeps the dependencies (module TaskPool).                          *)
(*                                                                         *)
(* A buffer is used by one thread; what can go wrong is the order of the   *)
(* calls.  Task i is the i-th recorded; chains are numbered from 0, as the *)
(* arguments of link_chains and create_fence are.                          *)
(***************************************************************************)
EXTENDS Naturals, Sequences, FiniteSets, SequencesExt

CONSTANTS
  MaxTasks, MaxCopies, MaxLinks, MaxFallible,  \* bounds on what the user does
  Indices,   \* the chain indices a user passes
  Fences,
  NoTask

ASSUME CommandBufferAssumption ==
  /\ MaxTasks \in Nat \ {0} /\ MaxCopies \in Nat \ {0} /\ MaxLinks \in Nat
  /\ MaxFallible \in Nat /\ Indices \subseteq Nat
  /\ NoTask \notin Nat

VARIABLES
  phase,    \* "recording", "baked", "submitted", or "dead": a call has panicked
  chains, controllers, links, fences,  \* RawCommandBuffer
  refs,     \* the counter the copies of a CommandBuffer share
  copies,   \* how many the user holds
  open,     \* the BufferedCommands, each by its task: it holds one more
  pred, fallible,
  tasks,    \* the baked tasks
  waits,    \* <<u, t>>: t waits for a semaphore u signals (NoTask: nobody does)
  bound,    \* the task whose signal a fence is bound to
  begun, state,
  origin, given, askedLinks, askedFences   \* history

rawVars  == <<chains, controllers, links, fences>>
refVars  == <<refs, copies, open>>
bakeVars == <<tasks, waits, bound>>
runVars  == <<begun, state>>
history  == <<origin, given, askedLinks, askedFences>>
vars == <<phase, rawVars, refVars, pred, fallible, bakeVars, runVars, history>>

Task == 1 .. MaxTasks
Recorded == DOMAIN pred

TypeOK ==
  /\ phase \in {"recording", "baked", "submitted", "dead"}
  /\ chains \in Seq(Seq(Task)) /\ controllers \in Seq(Seq(Task))
  /\ links \in Seq(Nat \X Nat) /\ fences \in Seq(Nat \X Fences)
  /\ refs \in Nat /\ copies \in Nat /\ open \subseteq Recorded
  /\ pred \in Seq(Task \cup {NoTask}) /\ fallible \subseteq Recorded
  /\ tasks \in Seq(Task) /\ waits \subseteq (Task \cup {NoTask}) \X Task
  /\ bound \in [Fences -> Task \cup {NoTask}]
  /\ begun \subseteq Recorded
  /\ state \in [Task -> {"Pending", "Ready", "Panicked"}]
  /\ origin \in Seq(Nat) /\ Len(origin) = Len(pred)
  /\ given \in [Task -> Seq(Task)]
  /\ askedLinks \subseteq Nat \X Nat /\ askedFences \subseteq Nat \X Fences

(* CommandBuffer::new: one chain, which is empty.                          *)
Init ==
  /\ phase = "recording"
  /\ chains = <<<<>>>> /\ controllers = <<<<>>>> /\ links = <<>> /\ fences = <<>>
  /\ refs = 1 /\ copies = 1 /\ open = {}
  /\ pred = <<>> /\ fallible = {}
  /\ tasks = <<>> /\ waits = {} /\ bound = [f \in Fences |-> NoTask]
  /\ begun = {} /\ state = [t \in Task |-> "Pending"]
  /\ origin = <<>> /\ given = [t \in Task |-> <<>>]
  /\ askedLinks = {} /\ askedFences = {}

-----------------------------------------------------------------------------
(* Recording.  RawCommandBuffer::group is always the last chain.           *)
New == Len(pred) + 1
Group == Len(chains)
AddTo(seqs, g) == [seqs EXCEPT ![g] = Append(@, New)]

(* The first command of a chain (CommandBuffer::add_command and            *)
(* add_sync_command): a new chain, unless the only one is still empty.     *)
(* The BufferedCommand gets a clone of the buffer.                         *)
OpenChain(seqs) == IF chains[Group] = <<>> THEN seqs ELSE Append(seqs, <<>>)

AddCommand(fails) ==
  /\ phase = "recording" /\ copies > 0 /\ New \in Task
  /\ chains' = AddTo(OpenChain(chains), Len(OpenChain(chains)))
  /\ controllers' = AddTo(OpenChain(controllers), Len(OpenChain(controllers)))
  /\ refs' = refs + 1 /\ open' = open \cup {New}
  /\ pred' = Append(pred, NoTask)
  /\ fallible' = IF fails THEN fallible \cup {New} ELSE fallible
  /\ origin' = Append(origin, Len(OpenChain(chains)) - 1)
  /\ UNCHANGED <<phase, links, fences, copies, bakeVars, runVars, given, askedLinks, askedFences>>

(* Mutants of Chain: the command goes to the chain of its predecessor; the *)
(* clone of the buffer is not counted.                                     *)
Extend(u, fails, g) ==
  /\ phase = "recording" /\ u \in open /\ New \in Task
  /\ chains' = AddTo(chains, g) /\ controllers' = AddTo(controllers, g)
  /\ open' = (open \ {u}) \cup {New}
  /\ pred' = Append(pred, u)
  /\ fallible' = IF fails THEN fallible \cup {New} ELSE fallible
  /\ origin' = Append(origin, origin[u])
  /\ UNCHANGED <<phase, links, fences, copies, bakeVars, runVars, given, askedLinks, askedFences>>

ChainToOrigin(u, fails) == Extend(u, fails, origin[u] + 1) /\ UNCHANGED refs
ChainUncounted(u, fails) == Extend(u, fails, Group) /\ refs' = refs - 1

(* Command::add_command and add_sync_command: the predecessor is consumed, *)
(* its clone of the buffer replaced by one for the new BufferedCommand.    *)
(* The task goes to the last chain, whichever its predecessor is in.       *)
Chain(u, fails) == Extend(u, fails, Group) /\ UNCHANGED refs

(* The ready-made commands: those that always return (end, print, debug,   *)
(* dbg, unwrap_or, unwrap_or_else), and those that panic on a wrong value  *)
(* (unwrap, expect, unwrap_err, expect_err).                               *)
Total(u) == Chain(u, FALSE)
Fallible(u) == Chain(u, TRUE)

(* Mutant of Response: the controllers are those of the first chain.       *)
ResponseOfFirst(u) ==
  /\ phase = "recording" /\ u \in open
  /\ given' = [given EXCEPT ![u] = controllers[1]]
  /\ controllers' = [controllers EXCEPT ![1] = <<>>]
  /\ open' = open \ {u} /\ refs' = refs - 1
  /\ UNCHANGED <<phase, chains, links, fences, copies, pred, fallible, bakeVars, runVars,
                 origin, askedLinks, askedFences>>

(* Command::response gives the handle and the controllers of the last      *)
(* chain; the BufferedCommand and its clone are dropped.                   *)
Response(u) ==
  /\ phase = "recording" /\ u \in open
  /\ given' = [given EXCEPT ![u] = controllers[Group]]
  /\ controllers' = [controllers EXCEPT ![Group] = <<>>]
  /\ open' = open \ {u} /\ refs' = refs - 1
  /\ UNCHANGED <<phase, chains, links, fences, copies, pred, fallible, bakeVars, runVars,
                 origin, askedLinks, askedFences>>

LinkChains(e, s) ==
  /\ phase = "recording" /\ copies > 0 /\ Len(links) < MaxLinks
  /\ links' = Append(links, <<e, s>>)
  /\ askedLinks' = askedLinks \cup {<<e, s>>}
  /\ UNCHANGED <<phase, chains, controllers, fences, refVars, pred, fallible, bakeVars,
                 runVars, origin, given, askedFences>>

CreateFence(i, f) ==
  /\ phase = "recording" /\ copies > 0 /\ \A a \in askedFences : a[2] # f
  /\ fences' = Append(fences, <<i, f>>)
  /\ askedFences' = askedFences \cup {<<i, f>>}
  /\ UNCHANGED <<phase, chains, controllers, links, refVars, pred, fallible, bakeVars,
                 runVars, origin, given, askedLinks>>

-----------------------------------------------------------------------------
(* Clone and Drop.  The memory is freed when refs becomes 0.               *)
(* Mutant of Clone: the copy is not counted.                               *)
CloneUncounted ==
  /\ phase = "recording" /\ copies \in 1 .. MaxCopies - 1
  /\ copies' = copies + 1
  /\ UNCHANGED <<phase, rawVars, refs, open, pred, fallible, bakeVars, runVars, history>>

Clone ==
  /\ phase = "recording" /\ copies \in 1 .. MaxCopies - 1
  /\ copies' = copies + 1 /\ refs' = refs + 1
  /\ UNCHANGED <<phase, rawVars, open, pred, fallible, bakeVars, runVars, history>>

DropCopy ==
  /\ phase \in {"recording", "baked"} /\ copies > 0
  /\ copies' = copies - 1 /\ refs' = refs - 1
  /\ UNCHANGED <<phase, rawVars, open, pred, fallible, bakeVars, runVars, history>>

DropCommand(u) ==
  /\ phase = "recording" /\ u \in open
  /\ open' = open \ {u} /\ refs' = refs - 1
  /\ UNCHANGED <<phase, rawVars, copies, pred, fallible, bakeVars, runVars, history>>

-----------------------------------------------------------------------------
(* Baking.  Fences and links go to the chains as they are now, by index;   *)
(* an empty chain (there is one only if nothing was recorded) binds none.  *)
First(i) == IF chains[i + 1] = <<>> THEN {} ELSE {Head(chains[i + 1])}
End(i)   == IF chains[i + 1] = <<>> THEN {} ELSE {Last(chains[i + 1])}

(* Mutant of LinkWaits: the semaphore is signalled by the first task of    *)
(* the chain.                                                              *)
LinkWaitsFirst == UNION {First(links[k][1]) \X First(links[k][2]) : k \in DOMAIN links}

LinkWaits == UNION {End(links[k][1]) \X First(links[k][2]) : k \in DOMAIN links}
FenceTasks(f) == UNION {End(fences[k][1]) : k \in {k \in DOMAIN fences : fences[k][2] = f}}

(* Mutant of ChainWaits: the two usages are exchanged.                     *)
ChainWaitsSwapped ==
  UNION {{<<c[i], c[i - 1]>> : i \in 2 .. Len(c)} : c \in Range(chains)}

(* TaskChain::chain_semaphores                                             *)
ChainWaits ==
  UNION {{<<c[i - 1], c[i]>> : i \in 2 .. Len(c)} : c \in Range(chains)}

InBounds == /\ \A k \in DOMAIN fences : fences[k][1] < Len(chains)
            /\ \A k \in DOMAIN links : links[k][1] < Len(chains) /\ links[k][2] < Len(chains)

(* A panic unwinds the thread that records, which drops what it recorded.  *)
Panic ==
  /\ phase' = "dead"
  /\ chains' = <<>> /\ controllers' = <<>> /\ links' = <<>> /\ fences' = <<>>
  /\ refs' = 0 /\ copies' = 0 /\ open' = {}
  /\ pred' = <<>> /\ fallible' = {} /\ tasks' = <<>> /\ waits' = {}
  /\ origin' = <<>> /\ given' = [t \in Task |-> <<>>]
  /\ askedLinks' = {} /\ askedFences' = {}
  /\ UNCHANGED <<bound, runVars>>

(* CommandBuffer::finish panics while other copies live, and when an index *)
(* is out of bounds.                                                       *)
Finish ==
  /\ phase = "recording" /\ copies > 0
  /\ IF refs # 1 \/ ~InBounds
     THEN Panic
     ELSE /\ phase' = "baked"
          /\ tasks' = FlattenSeq(chains)
          /\ waits' = LinkWaits \cup ChainWaits
          /\ bound' = [f \in Fences |-> IF FenceTasks(f) = {} THEN NoTask
                                        ELSE CHOOSE t \in FenceTasks(f) : TRUE]
          /\ chains' = <<>> /\ controllers' = <<>> /\ links' = <<>> /\ fences' = <<>>
          /\ UNCHANGED <<refVars, pred, fallible, runVars, history>>

(* Queue::submit_command_buffer takes the tasks and drops the buffer.      *)
Submit ==
  /\ phase = "baked" /\ copies > 0
  /\ phase' = "submitted" /\ copies' = copies - 1 /\ refs' = refs - 1
  /\ UNCHANGED <<rawVars, open, pred, fallible, bakeVars, runVars, history>>

(* Submitting an unbaked buffer, recording in a baked one, cloning or      *)
(* baking that again: all of them panic.                                   *)
Misuse == phase \in {"recording", "baked"} /\ copies > 0 /\ Panic

-----------------------------------------------------------------------------
(* Execution.  The queue starts a task when the semaphores it waits for    *)
(* are signalled and its predecessor is finished; if that has panicked,    *)
(* the task is announced as panicked instead.                              *)
Done == {t \in Task : state[t] # "Pending"}
InQueue(t) == phase = "submitted" /\ t \in Range(tasks) \ (begun \cup Done)

CanStart(t) ==
  /\ InQueue(t)
  /\ \A w \in waits : w[2] = t => w[1] \in Done
  /\ pred[t] # NoTask => pred[t] \in Done

Begin(t) ==
  /\ CanStart(t) /\ (pred[t] # NoTask => state[pred[t]] = "Ready")
  /\ begun' = begun \cup {t}
  /\ UNCHANGED <<phase, rawVars, refVars, pred, fallible, bakeVars, state, history>>

Halt(t) ==
  /\ CanStart(t) /\ pred[t] # NoTask /\ state[pred[t]] = "Panicked"
  /\ state' = [state EXCEPT ![t] = "Panicked"]
  /\ UNCHANGED <<phase, rawVars, refVars, pred, fallible, bakeVars, begun, history>>

Completes(t) ==
  /\ t \in begun \ Done
  /\ \E s \in {"Ready"} \cup (IF t \in fallible THEN {"Panicked"} ELSE {}) :
       state' = [state EXCEPT ![t] = s]
  /\ UNCHANGED <<phase, rawVars, refVars, pred, fallible, bakeVars, begun, history>>

Execute(t) == Begin(t) \/ Halt(t) \/ Completes(t)

-----------------------------------------------------------------------------
(* Chains linked from one recorded earlier to one recorded later cannot    *)
(* wait for each other.                                                    *)
Forward == \A l \in askedLinks : l[1] < l[2]

Terminated ==
  /\ \/ phase = "dead" \/ (copies = 0 /\ open = {} /\ phase # "submitted")
     \/ phase = "submitted" /\ (~Forward \/ Recorded \subseteq Done)
  /\ UNCHANGED vars

MayFail == Cardinality(fallible) < MaxFallible

Next == \/ AddCommand(FALSE) \/ (MayFail /\ AddCommand(TRUE))
        \/ \E u \in open : Total(u) \/ (MayFail /\ Fallible(u)) \/ Response(u) \/ DropCommand(u)
        \/ \E e, s \in Indices : LinkChains(e, s)
        \/ \E i \in Indices, f \in Fences : CreateFence(i, f)
        \/ Clone \/ DropCopy \/ Finish \/ Submit \/ Misuse
        \/ \E t \in Task : Execute(t)
        \/ Terminated

(* The queue runs what it can run, and functions return or panic.          *)
Fairness == \A t \in Task : WF_vars(Execute(t))

Spec     == Init /\ [][Next]_vars
FairSpec == Spec /\ Fairness

-----------------------------------------------------------------------------
(* The chain the user means is that of the predecessors; the chain the     *)
(* buffer records in is the last one.  They agree as long as no chain is   *)
(* continued after another was begun.                                      *)
UserChain(i) == {t \in Recorded : origin[t] = i}
Orderly == \A t \in Recorded : origin[t] + 1 = Cardinality({r \in 1 .. t : pred[r] = NoTask})

(* The counter that is kept by hand: nobody is left with freed memory, and *)
(* finish lets nobody add commands to a baked buffer.                      *)
NoDanglingCopies ==
  /\ refs = 0 => copies = 0 /\ open = {}
  /\ phase \in {"baked", "submitted"} => open = {} /\ copies <= 1

(* src/src/queue.rs:198: tasks are pushed "in the same order you called    *)
(* them on the buffer", each once; and whatever was interleaved, no task   *)
(* waits for one behind it (the inline executor relies on that for         *)
(* progress), unless a link says so.                                       *)
BakedInOrder ==
  phase \in {"baked", "submitted"} =>
    /\ tasks = [i \in 1 .. Len(pred) |-> i]
    /\ Forward => \A w \in waits : w[1] < w[2]

(* src/src/command_buffers/buffer.rs, 282 and 260: when the fence of a     *)
(* chain opens, the whole chain has finished; a link holds back all of a   *)
(* chain until all of the other has, whether it returned or panicked.      *)
ChainsAreBarriers ==
  phase = "submitted" /\ Orderly =>
    /\ \A a \in askedFences : bound[a[2]] \in Done => UserChain(a[1]) \subseteq Done
    /\ \A l \in askedLinks :
         UserChain(l[2]) \cap begun # {} => UserChain(l[1]) \subseteq Done

(* While its chain is the last, and unless response() of an earlier chain  *)
(* has taken them, response() returns the controllers of exactly the       *)
(* commands of this chain: cancelling them cancels the chain.              *)
OwnControllers == \A t \in Recorded : Range(given[t]) \subseteq UserChain(origin[t])
ResponseControlsItsChain ==
  [][\A u \in open :
       given'[u] # given[u] /\ Orderly /\ OwnControllers /\ origin[u] + 1 = Group =>
         Range(given'[u]) = UserChain(origin[u])]_vars

(* A submitted buffer with forward links finishes, and all its fences      *)
(* open, unless nothing was recorded.                                      *)
EverythingFinishes ==
  phase = "submitted" /\ Forward /\ Recorded # {} ~>
    Recorded \subseteq Done /\ \A a \in askedFences : bound[a[2]] \in Done
=============================================================================
