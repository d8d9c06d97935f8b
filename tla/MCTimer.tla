------------------------------ MODULE MCTimer ------------------------------
(* Instances of Timer for TLC.                                             *)
EXTENDS Timer

CONSTANTS f1, f2, f3

Durations == [f \in Sleepers |-> IF f = f1 THEN 2 ELSE IF f = f2 THEN 1 ELSE 0]
=============================================================================
