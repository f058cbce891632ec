------------------------------- MODULE MCNand -------------------------------
(***************************************************************************)
(* Four pages of two bytes in blocks of two, of which the first is cleared *)
(* at the first boot; reads of up to four bytes, over three pages.  The    *)
(* number of the fourth page stands for no page.                           *)
(***************************************************************************)
EXTENDS Nand
=============================================================================
