--------------------------- MODULE MCCommandBuffer ---------------------------
(* Instances of CommandBuffer for TLC: the bounds are in the .cfg files.   *)
EXTENDS CommandBuffer

CONSTANTS f1
=============================================================================
