---------------------------- MODULE MCMainThread ----------------------------
(* Instances of MainThread for TLC.                                        *)
EXTENDS MainThread

CONSTANTS r1, r2, t1, t2, t3, x1, e1

\* r1 submits t1 and t2 in its init function, as the test in lib.rs does;
\* another thread submits t3, which continues x1, a task of the queue
FromInit == [r \in Calls |-> IF r = r1 THEN <<t1, t2>> ELSE <<>>]
T3ContinuesX1 == [t \in AllTasks |-> IF t = t3 THEN x1 ELSE NoTask]
T1Pends == [t \in AllTasks |-> IF t = t1 THEN 1 ELSE 0]

FromNobody == [r \in Calls |-> <<>>]
NoPredecessors == [t \in AllTasks |-> NoTask]
NoPending == [t \in AllTasks |-> 0]
=============================================================================
