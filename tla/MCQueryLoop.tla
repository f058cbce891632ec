---------------------------- MODULE MCQueryLoop ----------------------------
(***************************************************************************)
(* The workload with a counter of calls so small that it wraps: with four  *)
(* values, 3 and 0 are multiples of three that follow each other, as 255   *)
(* and 0 do in the uint8_t of the code.                                    *)
(***************************************************************************)
EXTENDS QueryLoop
=============================================================================
