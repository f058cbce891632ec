--------------------------- MODULE AbstractFlash ---------------------------
(***************************************************************************)
(* What the driver of the flash chip promises: the chip is an array of     *)
(* pages; a read answers with what is there, byte by byte and from one     *)
(* page on into the next; a page is programmed whole and erased with its   *)
(* block.  There is no buffer.  A failure of the supply takes the answer   *)
(* away, and whatever a page being programmed had become.                  *)
(***************************************************************************)
EXTENDS Integers, Sequences

CONSTANTS
  PAGE_SIZE, PAGES_PER_BLOCK, Rows, MaxReadLen,
  Data,       \* contents of a page
  Erased,     \* what an erased page contains
  Junk,       \* what a page may contain that was being programmed
  NoAnswer

VARIABLES store, answer

vars == <<store, answer>>

\* Byte n of a read that begins in column col of a page.
ByteAt(row, col, n) ==
  <<store[row + ((col + n) \div PAGE_SIZE)], (col + n) % PAGE_SIZE>>

SameBlock(p, q) == p \div PAGES_PER_BLOCK = q \div PAGES_PER_BLOCK

Init ==
  /\ store \in [Rows -> Data \union {Erased, Junk}]
  /\ answer = NoAnswer

Answer ==
  /\ \E row \in Rows, col \in 0 .. PAGE_SIZE - 1, len \in 1 .. MaxReadLen :
       /\ row + ((col + len - 1) \div PAGE_SIZE) \in Rows
       /\ answer' = [row |-> row, col |-> col,
                     bytes |-> [n \in 1 .. len |-> ByteAt(row, col, n - 1)]]
  /\ UNCHANGED store

Program ==
  /\ \E row \in Rows, d \in Data \union {Junk} :
       store' = [store EXCEPT ![row] = d]
  /\ answer' = NoAnswer

Erase ==
  /\ \E rows \in SUBSET Rows :
       /\ \A p, q \in Rows : p \in rows /\ SameBlock(p, q) => q \in rows
       /\ store' = [p \in Rows |-> IF p \in rows THEN Erased ELSE store[p]]
  /\ answer' = NoAnswer

Forget == answer' = NoAnswer /\ UNCHANGED store

Next == Answer \/ Program \/ Erase \/ Forget

Spec == Init /\ [][Next]_vars
=============================================================================
