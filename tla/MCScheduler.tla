----------------------------- MODULE MCScheduler -----------------------------
(* Instances of Scheduler for TLC: small graphs of tasks, one definition   *)
(* for each constant function, chosen by the .cfg files.                   *)
EXTENDS SchedulerProperties

CONSTANTS t1, t2, t3, s1, c1, c2, L1, L2, L3

NoLabels == [w \in Threads |-> NoLabel]
Labelled == [w \in Threads |-> IF w = 1 THEN L1 ELSE L2]

NoPreference == [t \in Tasks |-> NoLabel]
NoExclusion == [t \in Tasks |-> {}]

\* t1 signals s1, t2 waits for it, t3 continues t1
NoSemaphores == [t \in Tasks |-> {}]
T1Signals == [t \in Tasks |-> IF t = t1 THEN {s1} ELSE {}]
T2Waits == [t \in Tasks |-> IF t = t2 THEN {s1} ELSE {}]
NoPredecessors == [t \in Tasks |-> NoTask]
T3ContinuesT1 == [t \in Tasks |-> IF t = t3 THEN t1 ELSE NoTask]
T2ContinuesT1 == [t \in Tasks |-> IF t = t2 THEN t1 ELSE NoTask]

NoPending == [t \in Tasks |-> 0]
T1Pends == [t \in Tasks |-> IF t = t1 THEN 1 ELSE 0]
T2Pends == [t \in Tasks |-> IF t = t2 THEN 1 ELSE 0]

OneBatch12 == [c \in Clients |-> <<t1, t2>>]
Reversed == [c \in Clients |-> <<t3, t2, t1>>]
InOrder == [c \in Clients |-> <<t1, t2, t3>>]
TwoClients == [c \in Clients |-> IF c = c1 THEN <<t3, t1>> ELSE <<t2>>]

\* t1 insists on L2, t3 must go there too, t2 asks for a label nobody has
\* and must then stay away from t1 and t3
Wishes == [t \in Tasks |-> IF t = t1 THEN L2 ELSE IF t = t2 THEN L3 ELSE NoLabel]
Exclusions == [t \in Tasks |-> IF t = t2 THEN {L2} ELSE IF t = t3 THEN {L1} ELSE {}]
=============================================================================
