------------------------------ MODULE MCInline ------------------------------
(* Instances of InlineExecutor for TLC.                                    *)
EXTENDS InlineExecutor

CONSTANTS t1, t2, t3, t4, t5, t6, s1, c1, c2

\* t1 signals s1, t2 waits for it, t3 continues t1; t4 is a task of another
\* instance, continued by t5; t6 waits for nothing
Graph == [t \in Tasks |-> IF t = t3 THEN t1 ELSE IF t = t5 THEN t4 ELSE NoTask]
T1Signals == [t \in Tasks |-> IF t = t1 THEN {s1} ELSE {}]
T2Waits == [t \in Tasks |-> IF t = t2 THEN {s1} ELSE {}]

\* c1 submits what depends on the task c2 submits
Crossed == [c \in Clients |-> IF c = c1 THEN <<t3, t6, t2>> ELSE <<t1, t5>>]
=============================================================================
