---------------------------- MODULE MCCheckpoint ----------------------------
(***************************************************************************)
(* Model-checking instance of Checkpoint: the slots and regions are those  *)
(* of the code, only the number of memory changes is bounded.              *)
(***************************************************************************)
EXTENDS CheckpointInv
=============================================================================
