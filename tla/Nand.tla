-------------------------------- MODULE Nand --------------------------------
(***************************************************************************)
(* The driver of the flash chip, src/nand/spi_nand.c, step by step.  The   *)
(* chip has one page buffer, filled by a page read and by a program load;  *)
(* page_in_buffer is what the driver believes to be in it, and saves a     *)
(* page read when that is the page asked for.  The supply may fail         *)
(* between any two steps: RAM and the buffer are lost then.  A checkpoint  *)
(* brings page_in_buffer back, and not the buffer; restored tells when     *)
(* that has happened and nothing was read since.                           *)
(*                                                                         *)
(* The contents of a page are one value; a byte is named by the contents   *)
(* of its page and its column.                                             *)
(*                                                                         *)
(* A definition announced as a Variant is the following definition with a  *)
(* mistake; nothing uses it.  It is there to show that a property would    *)
(* notice the mistake.                                                     *)
(***************************************************************************)
EXTENDS Integers, Sequences

CONSTANTS
  PAGE_SIZE, PAGES_PER_BLOCK,
  LastRow,                  \* 65535
  ClearedBlocks,            \* 450
  MaxReadLen,               \* bytes of the longest read
  Data, Erased, Junk, NoAnswer

ASSUME GeometryAssumption ==
  /\ PAGE_SIZE \in Nat \ {0} /\ PAGES_PER_BLOCK \in Nat \ {0}
  /\ LastRow \in Nat /\ ClearedBlocks \in Nat /\ MaxReadLen \in Nat \ {0}
ASSUME DataAssumption == Erased \notin Data /\ Junk \notin Data

Rows == 0 .. LastRow

\* UINT16_MAX, which is the number of a page as well.
NoRow == LastRow

VARIABLES
  pc,
  flash,
  cache,                    \* the page buffer of the chip
  page_in_buffer,
  row, col, read_len,       \* of the read or write under way
  asked,                    \* what the caller asked for
  data_out,
  data_in,
  \* FRAM
  clear_all_blocks_flag,
  saved_row,                \* page_in_buffer in the checkpoint
  \* history
  restored                  \* page_in_buffer is that of another life

request == <<row, col, read_len, asked>>
program == <<clear_all_blocks_flag, saved_row, restored>>
vars == <<pc, flash, cache, page_in_buffer, request, data_out, data_in,
          program>>

Contents == Data \union {Erased, Junk}

SameBlock(p, q) == p \div PAGES_PER_BLOCK = q \div PAGES_PER_BLOCK

NoRequest == [row |-> 0, col |-> 0, len |-> 0]

Init ==
  /\ pc = "off"
  /\ flash \in [Rows -> Contents]
  /\ cache = Junk
  /\ page_in_buffer = NoRow
  /\ row = 0 /\ col = 0 /\ read_len = 0
  /\ asked = NoRequest
  /\ data_out = <<>>
  /\ data_in = Junk
  /\ clear_all_blocks_flag \in BOOLEAN
  /\ saved_row = NoRow
  /\ restored = FALSE

\* The locals of functions that are not running are gone.
Leave ==
  /\ row' = 0 /\ col' = 0 /\ read_len' = 0
  /\ asked' = NoRequest
  /\ data_out' = <<>>
  /\ data_in' = Junk

-----------------------------------------------------------------------------
\* spi_nand_init(); main() erases the blocks once in the life of the board.
spi_nand_init ==
  /\ pc = "off"
  /\ pc' = IF clear_all_blocks_flag THEN "restore" ELSE "clear"
  /\ page_in_buffer' = NoRow
  /\ UNCHANGED <<flash, cache, request, data_out, data_in,
                 program>>

\* A failure among the blocks repeats them all.
clear_all_blocks ==
  /\ pc = "clear"
  /\ pc' = "cleared"
  /\ flash' = [p \in Rows |->
       IF p \div PAGES_PER_BLOCK < ClearedBlocks THEN Erased ELSE flash[p]]
  /\ UNCHANGED <<cache, page_in_buffer, request, data_out, data_in,
                 program>>

SetCleared ==
  /\ pc = "cleared"
  /\ pc' = "restore"
  /\ clear_all_blocks_flag' = TRUE
  /\ UNCHANGED <<flash, cache, page_in_buffer, request, data_out, data_in,
                 saved_row, restored>>

\* RESTORE(), behind all this: the .data of the checkpoint, if there is one,
\* and page_in_buffer with it.  The generator has none.
Restore ==
  /\ pc = "restore"
  /\ pc' = "idle"
  /\ page_in_buffer' = saved_row
  /\ restored' = (saved_row # NoRow)
  /\ UNCHANGED <<flash, cache, request, data_out, data_in,
                 clear_all_blocks_flag, saved_row>>

\* CHECKPOINT(), between any two calls of the driver.
Checkpoint ==
  /\ pc = "idle"
  /\ saved_row' = page_in_buffer
  /\ UNCHANGED <<pc, flash, cache, page_in_buffer, request, data_out, data_in,
                 clear_all_blocks_flag, restored>>

\* erase_op(), which leaves page_in_buffer alone.  Its callers are
\* clear_all_blocks() and the head of main_workload(): nothing was read yet.
erase_op ==
  /\ pc = "idle"
  /\ page_in_buffer = NoRow
  /\ \E p \in Rows :
       flash' = [q \in Rows |-> IF SameBlock(p, q) THEN Erased ELSE flash[q]]
  /\ UNCHANGED <<pc, cache, page_in_buffer, request, data_out, data_in,
                 program>>

\* What the driver relies on: its callers do not ask for the last page, nor
\* beyond it, and after a restore not first for the page that was read last
\* before the checkpoint.  Of the query build QueryLoop shows the latter, as
\* ReadsTheRightPage.
CallerAsksFor(r, c, n) ==
  LET last == r + ((c + n - 1) \div PAGE_SIZE)
  IN  /\ last \in Rows \ {NoRow}
      /\ restored => r # page_in_buffer

read_op ==
  /\ pc = "idle"
  /\ pc' = "lookup"
  /\ \E r \in Rows \ {NoRow}, c \in 0 .. PAGE_SIZE - 1, n \in 1 .. MaxReadLen :
       /\ CallerAsksFor(r, c, n)
       /\ row' = r /\ col' = c /\ read_len' = n
       /\ asked' = [row |-> r, col |-> c, len |-> n]
  /\ data_out' = <<>>
  /\ UNCHANGED <<flash, cache, page_in_buffer, data_in, program>>

page_read ==
  /\ pc = "lookup" /\ page_in_buffer # row
  /\ pc' = "note"
  /\ cache' = flash[row]
  /\ UNCHANGED <<flash, page_in_buffer, request, data_out, data_in,
                 program>>

CacheHit ==
  /\ pc = "lookup" /\ page_in_buffer = row
  /\ pc' = "note"
  /\ UNCHANGED <<flash, cache, page_in_buffer, request, data_out, data_in,
                 program>>

\* page_in_buffer = row
NoteRow ==
  /\ pc = "note"
  /\ pc' = "fetch"
  /\ page_in_buffer' = row
  /\ restored' = FALSE
  /\ UNCHANGED <<flash, cache, request, data_out, data_in,
                 clear_all_blocks_flag, saved_row>>

Fetched(n) == [k \in 1 .. n |-> <<cache, col + k - 1>>]

\* Variant: the rest of a read begins in the same column of the next page.
RestInSameColumn == col

RestColumn == 0

NeedsNextPage == col + read_len > PAGE_SIZE

\* read_from_cache_x1_dma() and, if the page was too short, the call of
\* read_op_dma() for the rest.
read_from_cache_x1 ==
  /\ pc = "fetch"
  /\ IF NeedsNextPage
     THEN /\ pc' = "lookup"
          /\ data_out' = data_out \o Fetched(PAGE_SIZE - col)
          /\ row' = row + 1
          /\ col' = RestColumn
          /\ read_len' = read_len - (PAGE_SIZE - col)
     ELSE /\ pc' = "answer"
          /\ data_out' = data_out \o Fetched(read_len)
          /\ UNCHANGED <<row, col, read_len>>
  /\ UNCHANGED <<flash, cache, page_in_buffer, asked, data_in,
                 program>>

Return ==
  /\ pc = "answer"
  /\ pc' = "idle"
  /\ Leave
  /\ UNCHANGED <<flash, cache, page_in_buffer, program>>

\* write_op() of a whole page, erased before: see Workload.
write_op ==
  /\ pc = "idle"
  /\ pc' = "load"
  /\ row' \in {p \in Rows : flash[p] = Erased}
  /\ data_in' \in Data
  /\ UNCHANGED <<flash, cache, page_in_buffer, col, read_len, asked, data_out,
                 program>>

program_load_x1 ==
  /\ pc = "load"
  /\ pc' = "execute"
  /\ cache' = data_in
  /\ UNCHANGED <<flash, page_in_buffer, request, data_out, data_in,
                 program>>

program_execute ==
  /\ pc = "execute"
  /\ pc' = "written"
  /\ flash' = [flash EXCEPT ![row] = cache]
  /\ UNCHANGED <<cache, page_in_buffer, request, data_out, data_in,
                 program>>

\* Variant: write_op() leaves page_in_buffer alone.
KeepRow ==
  /\ pc = "written"
  /\ pc' = "idle"
  /\ Leave
  /\ UNCHANGED <<flash, cache, page_in_buffer, program>>

\* page_in_buffer = UINT16_MAX
ForgetRow ==
  /\ pc = "written"
  /\ pc' = "idle"
  /\ page_in_buffer' = NoRow
  /\ restored' = FALSE
  /\ Leave
  /\ UNCHANGED <<flash, cache, clear_all_blocks_flag, saved_row>>

\* A page that was being programmed is left as it happens to be.
PowerFail ==
  /\ pc # "off"
  /\ pc' = "off"
  /\ cache' = Junk
  /\ page_in_buffer' = NoRow
  /\ restored' = FALSE
  /\ Leave
  /\ \/ UNCHANGED flash
     \/ pc = "execute" /\ flash' = [flash EXCEPT ![row] = Junk]
  /\ UNCHANGED <<clear_all_blocks_flag, saved_row>>

Boot == spi_nand_init \/ clear_all_blocks \/ SetCleared \/ Restore
Read == read_op \/ page_read \/ CacheHit \/ NoteRow \/ read_from_cache_x1
        \/ Return
Write == write_op \/ program_load_x1 \/ program_execute \/ ForgetRow

Next == Boot \/ Checkpoint \/ Read \/ Write \/ erase_op \/ PowerFail

Spec == Init /\ [][Next]_vars
-----------------------------------------------------------------------------
(***************************************************************************)
(* Properties.                                                             *)
(***************************************************************************)

\* Every variable has a value it can have.
TypeOK ==
  /\ pc \in {"off", "clear", "cleared", "restore", "idle", "lookup", "note",
             "fetch", "answer", "load", "execute", "written"}
  /\ flash \in [Rows -> Contents]
  /\ cache \in Contents
  /\ page_in_buffer \in Rows
  /\ row \in Rows /\ col \in 0 .. PAGE_SIZE - 1
  /\ read_len \in 0 .. MaxReadLen
  /\ pc \in {"lookup", "note", "fetch"} => read_len # 0
  /\ data_in \in Contents
  /\ clear_all_blocks_flag \in BOOLEAN
  /\ saved_row \in Rows
  /\ restored \in BOOLEAN

\* What the driver believes to be in the page buffer is there, and is what
\* the flash holds: whatever was read, written, erased or lost in between,
\* no read takes a page for another or for what it used to be.  The belief
\* that a restore brings back is false until a page is read, and no read
\* acts on it.  Between program_load_x1() and the end of write_op() nothing
\* may be read.  Every variable keeps its type.
BufferIsThePage ==
  /\ TypeOK
  /\ page_in_buffer # NoRow /\ ~restored
       /\ pc \notin {"note", "execute", "written"} =>
       cache = flash[page_in_buffer]
  /\ restored /\ pc = "lookup" => page_in_buffer # row

\* What the caller of read_op() gets.
Response ==
  IF pc = "answer"
  THEN [row |-> asked.row, col |-> asked.col, bytes |-> data_out]
  ELSE NoAnswer

\* A read answers with the bytes of the flash, over the ends of pages too.
Promise == INSTANCE AbstractFlash WITH store <- flash, answer <- Response

\* For such callers the driver behaves like a chip without a page buffer,
\* over failures and restores.
ImplementsFlash == Promise!Spec
=============================================================================
