------------------------------ MODULE MCSignal ------------------------------
(* Instances of Signal for TLC.                                            *)
EXTENDS Signal

CONSTANTS b1, b2, f1, f2
=============================================================================
