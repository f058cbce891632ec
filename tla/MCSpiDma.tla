------------------------------ MODULE MCSpiDma ------------------------------
(***************************************************************************)
(* Reads of one to four bytes, one after the other, and a timeout just     *)
(* longer than the longest of them.                                        *)
(***************************************************************************)
EXTENDS SpiDma
=============================================================================
