------------------------------ MODULE MCTimer ------------------------------
(***************************************************************************)
(* A counter of three ticks extended to nine: small enough for both to     *)
(* wrap within one behaviour.                                              *)
(***************************************************************************)
EXTENDS Timer
=============================================================================
