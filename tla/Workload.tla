------------------------------ MODULE Workload ------------------------------
(***************************************************************************)
(* What is in the flash and where: the generator of                        *)
(* src/workload/workload.c, a build of its own that streams the files of   *)
(* the SD card into pages written downwards from FLASH_DATA_START_PAGE,    *)
(* and the query build, which looks for the same data at pages it has as   *)
(* numbers.  The generator may be interrupted by a failure of the supply   *)
(* and then begins again, with its page buffer, in FRAM, as it was left.   *)
(*                                                                         *)
(* A byte of an entry is named by its section, the number of the entry,    *)
(* its place in the entry and, in a mapping entry, the addresses stored    *)
(* there.                                                                  *)
(*                                                                         *)
(* A definition announced as a Variant is the following definition with a  *)
(* mistake; nothing uses it.  It is there to show that a property would    *)
(* notice the mistake.                                                     *)
(***************************************************************************)
EXTENDS Integers, Sequences

CONSTANTS
  PAGE_SIZE, PAGES_PER_BLOCK, BLOCKS_PER_PLANE,
  FLASH_DATA_START_PAGE,
  ClearedBlocks,    \* 450: the blocks clear_all_blocks() erases
  SizeOf,           \* sizeof the entries of each section
  CountOf,          \* entries of each section
  PageStart,        \* where the query build looks for each section
  MaxFailures       \* bound on the failures of the supply

\* In the order in which they are written.
Sections == <<"codebook", "mean", "fullvec", "neighbor", "L1", "query",
              "longbook", "groundtruth">>

Names == {Sections[n] : n \in DOMAIN Sections}

Pages == 0 .. (PAGES_PER_BLOCK * BLOCKS_PER_PLANE) - 1

ASSUME SizesAssumption ==
  /\ PAGE_SIZE \in Nat \ {0} /\ PAGES_PER_BLOCK \in Nat \ {0}
  /\ BLOCKS_PER_PLANE \in Nat /\ ClearedBlocks \in Nat /\ MaxFailures \in Nat
  /\ \A s \in Names : SizeOf[s] \in 1 .. PAGE_SIZE /\ CountOf[s] \in Nat \ {0}
ASSUME PagesAssumption ==
  /\ FLASH_DATA_START_PAGE \in Pages
  /\ PageStart \in [Names -> Pages]

VARIABLES
  pc,
  section,               \* the section being written
  written,               \* its entries written so far
  cur_nand_write_page,
  page_start,            \* FRAM: codebook_write_page_start and the others
  buf_flash_flush,       \* FRAM: the page to come
  head,                  \* FRAM: buf_flash_flush_head
  l1_check_failed,       \* FRAM: l1_inner_check_failed_vec_idx was set
  flash,
  failures,
  dirty                  \* history: a start found the buffer in use

progress == <<section, written, cur_nand_write_page>>
buffer == <<buf_flash_flush, head>>
vars == <<pc, progress, page_start, buffer, l1_check_failed, flash, failures,
          dirty>>

-----------------------------------------------------------------------------
\* Where an entry is.

ENTRIES_PER_PAGE(s) == PAGE_SIZE \div SizeOf[s]

\* L0_ENTRY_COUNT, and the like of it for the other sections.
PagesOf(s) ==
  (CountOf[s] + ENTRIES_PER_PAGE(s) - 1) \div ENTRIES_PER_PAGE(s)

\* The numbers in the query build are those the generator comes to, and the
\* pages last, one to spare, without the blocks that the query build clears.
\* What is read as one array fills its pages.
Layout ==
  /\ PageStart["codebook"] = FLASH_DATA_START_PAGE
  /\ \A n \in 1 .. Len(Sections) - 1 :
       PageStart[Sections[n + 1]]
         = PageStart[Sections[n]] - PagesOf(Sections[n])
  /\ LET last == PageStart["groundtruth"] - PagesOf("groundtruth") + 1
     IN last > 1 /\ last >= ClearedBlocks * PAGES_PER_BLOCK
  /\ \A s \in {"codebook", "mean", "L1", "query", "longbook"} :
       PAGE_SIZE % SizeOf[s] = 0
  /\ CountOf["L1"] = CountOf["fullvec"] /\ CountOf["L1"] = CountOf["neighbor"]

ASSUME LayoutAssumption == Layout

CALC_ENTRY_PAGE(start, v, s) == start - (v \div ENTRIES_PER_PAGE(s))

CALC_ENTRY_OFFSET(v, s) == (v % ENTRIES_PER_PAGE(s)) * SizeOf[s]

\* The bit fields of union address are as wide as the geometry needs.
Address(page, offset) ==
  [block |-> (page \div PAGES_PER_BLOCK) % BLOCKS_PER_PLANE,
   page |-> page % PAGES_PER_BLOCK, offset |-> offset % PAGE_SIZE]

AddressIn(s, v) ==
  Address(CALC_ENTRY_PAGE(page_start[s], v, s), CALC_ENTRY_OFFSET(v, s))

\* An entry as it is put into the buffer.
Entry(s, v) ==
  IF s = "L1" THEN [in |-> s, id |-> v, fullvec |-> AddressIn("fullvec", v),
                    neighbor |-> AddressIn("neighbor", v)]
  ELSE [in |-> s, id |-> v]

Blank == <<>>
Bytes(s, v) == [k \in 0 .. SizeOf[s] - 1 |-> <<Entry(s, v), k>>]
NoPage == [o \in 0 .. PAGE_SIZE - 1 |-> Blank]
-----------------------------------------------------------------------------
Init ==
  /\ pc = "start"
  /\ section = 1
  /\ written = 0
  /\ cur_nand_write_page = FLASH_DATA_START_PAGE
  /\ page_start = PageStart
  /\ buf_flash_flush = NoPage
  /\ head = 0
  /\ l1_check_failed = FALSE
  /\ flash = [p \in Pages |-> NoPage]
  /\ failures = 0
  /\ dirty = FALSE

\* Variant: the last block is left as it is.
EraseAllButTheLast ==
  /\ pc = "start"
  /\ pc' = "open"
  /\ flash' = [p \in Pages |->
       IF p \div PAGES_PER_BLOCK = BLOCKS_PER_PLANE - 1 THEN flash[p]
       ELSE NoPage]
  /\ dirty' = (dirty \/ head # 0)
  /\ UNCHANGED <<progress, page_start, buffer, l1_check_failed, failures>>

\* The head of main_workload(): every block is erased, one after the other; a
\* failure among them repeats them all.
EraseAll ==
  /\ pc = "start"
  /\ pc' = "open"
  /\ flash' = [p \in Pages |-> NoPage]
  /\ dirty' = (dirty \/ head # 0)
  /\ UNCHANGED <<progress, page_start, buffer, l1_check_failed, failures>>

S == Sections[section]

OpenSection ==
  /\ pc = "open"
  /\ pc' = "append"
  /\ page_start' = [page_start EXCEPT ![S] = cur_nand_write_page]
  /\ written' = 0
  /\ UNCHANGED <<section, cur_nand_write_page, buffer, l1_check_failed,
                 flash, failures, dirty>>

\* The ground truth is checked before an entry is appended, the rest behind.
RoomFirst == S = "groundtruth" /\ head + SizeOf[S] > PAGE_SIZE

\* cur_group_id counts the pages of mapping entries.
L1Check ==
  /\ written \div ENTRIES_PER_PAGE("L1")
       = page_start["L1"] - cur_nand_write_page
  /\ written % ENTRIES_PER_PAGE("L1") = ENTRIES_PER_PAGE("L1") - 1

\* Variant: there is room for another entry up to the last byte but one.
IsFullEarly(at) == S # "groundtruth" /\ at + SizeOf[S] >= PAGE_SIZE

IsFull(at) == S # "groundtruth" /\ at + SizeOf[S] > PAGE_SIZE

\* One turn of the loop of a section.  The memory behind the buffer is the
\* generator's own: writing there is the end of what can be said.
AppendEntry ==
  /\ pc = "append"
  /\ written < CountOf[S]
  /\ ~RoomFirst
  /\ IF head + SizeOf[S] > PAGE_SIZE
     THEN /\ pc' = "overrun"
          /\ UNCHANGED <<buffer, written, l1_check_failed>>
     ELSE /\ buf_flash_flush' =
               [o \in 0 .. PAGE_SIZE - 1 |->
                 IF o \in head .. head + SizeOf[S] - 1
                 THEN Bytes(S, written)[o - head] ELSE buf_flash_flush[o]]
          /\ head' = head + SizeOf[S]
          /\ written' = written + 1
          /\ pc' = IF IsFull(head') THEN "write" ELSE "append"
          /\ l1_check_failed' =
               (l1_check_failed \/ (S = "L1" /\ IsFull(head') /\ ~L1Check))
  /\ UNCHANGED <<section, cur_nand_write_page, page_start, flash, failures,
                 dirty>>

\* What has been appended goes to the flash: because the page is full, or
\* because the section is over.
FlushFirst ==
  /\ pc = "append"
  /\ head # 0
  /\ written = CountOf[S] \/ RoomFirst
  /\ pc' = "write"
  /\ UNCHANGED <<progress, page_start, buffer, l1_check_failed, flash,
                 failures, dirty>>

\* write_op() and the page number, which is in RAM.
WritePage ==
  /\ pc = "write"
  /\ pc' = "clear"
  /\ flash' = [flash EXCEPT ![cur_nand_write_page] = buf_flash_flush]
  /\ cur_nand_write_page' = cur_nand_write_page - 1
  /\ UNCHANGED <<section, written, page_start, buffer, l1_check_failed,
                 failures, dirty>>

ClearBuffer ==
  /\ pc = "clear"
  /\ pc' = "rewind"
  /\ buf_flash_flush' = NoPage
  /\ UNCHANGED <<progress, page_start, head, l1_check_failed, flash, failures,
                 dirty>>

RewindBuffer ==
  /\ pc = "rewind"
  /\ pc' = "append"
  /\ head' = 0
  /\ UNCHANGED <<progress, page_start, buf_flash_flush, l1_check_failed,
                 flash, failures, dirty>>

CloseSection ==
  /\ pc = "append"
  /\ written = CountOf[S]
  /\ head = 0
  /\ IF section = Len(Sections)
     THEN pc' = "finished" /\ UNCHANGED section
     ELSE pc' = "open" /\ section' = section + 1
  /\ UNCHANGED <<written, cur_nand_write_page, page_start, buffer,
                 l1_check_failed, flash, failures, dirty>>

\* RAM is lost; the page buffer and its head are not.  A reset behind
\* BP_FINISHED starts the generator again, too.
PowerFail ==
  /\ pc \notin {"start", "serving", "overrun"}
  /\ failures < MaxFailures
  /\ failures' = failures + 1
  /\ pc' = "start"
  /\ section' = 1
  /\ written' = 0
  /\ cur_nand_write_page' = FLASH_DATA_START_PAGE
  /\ UNCHANGED <<page_start, buffer, l1_check_failed, flash, dirty>>

\* Variant: clear_all_blocks() goes on to the block behind.
ClearOneMore == 0 .. (ClearedBlocks + 1) * PAGES_PER_BLOCK - 1

ClearedPages == 0 .. ClearedBlocks * PAGES_PER_BLOCK - 1

\* The query build is loaded; its first boot runs clear_all_blocks().
BootQueryBuild ==
  /\ pc = "finished"
  /\ pc' = "serving"
  /\ flash' = [p \in Pages |-> IF p \in ClearedPages THEN NoPage
                               ELSE flash[p]]
  /\ UNCHANGED <<progress, page_start, buffer, l1_check_failed, failures,
                 dirty>>

Next == EraseAll \/ OpenSection \/ AppendEntry \/ FlushFirst \/ WritePage
        \/ ClearBuffer \/ RewindBuffer \/ CloseSection \/ PowerFail
        \/ BootQueryBuild

Spec == Init /\ [][Next]_vars
-----------------------------------------------------------------------------
\* The query build.

\* Byte k of read_op(row, col, ...), which goes on in the next page up.
ReadByte(row, col, k) ==
  LET p == row + ((col + k) \div PAGE_SIZE)
  IN IF p \in Pages THEN flash[p][(col + k) % PAGE_SIZE] ELSE Blank

Holds(row, col, entry, size) ==
  \A k \in 0 .. size - 1 : ReadByte(row, col, k) = <<entry, k>>

L0_mapping_table(g) == PageStart["L1"] - g

\* read_fullvec_from_flash(), read_neighbors_from_flash(): the address in the
\* mapping entry of v, then what is at that address.
MappingOf(v) ==
  ReadByte(L0_mapping_table(v \div ENTRIES_PER_PAGE("L1")),
           CALC_ENTRY_OFFSET(v, "L1"), 0)

Finds(s, v) ==
  LET m == MappingOf(v)
  IN /\ m # Blank /\ m[1].in = "L1"
     /\ LET a == m[1][s]
        IN Holds((a.block * PAGES_PER_BLOCK) + a.page, a.offset,
                 [in |-> s, id |-> v], SizeOf[s])

\* init_graphsearch(): whole pages, downwards, into one array.
FindsArray(s) ==
  \A v \in 0 .. CountOf[s] - 1 : \A k \in 0 .. SizeOf[s] - 1 :
    LET at == (v * SizeOf[s]) + k
    IN ReadByte(PageStart[s] - (at \div PAGE_SIZE), at % PAGE_SIZE, 0)
         = <<[in |-> s, id |-> v], k>>

\* Variant: four entries of the ground truth are taken to be on a page.
GroundTruthPerPageRounded ==
  (PAGE_SIZE + SizeOf["groundtruth"] - 1) \div SizeOf["groundtruth"]

GroundTruthPerPage == PAGE_SIZE \div SizeOf["groundtruth"]

\* read_query_gt_distance()
FindsGroundTruth(q) ==
  Holds(PageStart["groundtruth"] - (q \div GroundTruthPerPage),
        (q % GroundTruthPerPage) * SizeOf["groundtruth"],
        [in |-> "groundtruth", id |-> q], SizeOf["groundtruth"])
-----------------------------------------------------------------------------
(***************************************************************************)
(* Properties.                                                             *)
(***************************************************************************)

\* Every variable has a value it can have.
TypeOK ==
  /\ pc \in {"start", "open", "append", "write", "clear", "rewind",
             "finished", "serving", "overrun"}
  /\ section \in DOMAIN Sections
  /\ written \in Nat /\ (pc # "open" => written <= CountOf[S])
  /\ cur_nand_write_page \in Pages
  /\ \A s \in Names : page_start[s] \in Pages
  /\ head \in 0 .. PAGE_SIZE
  /\ l1_check_failed \in BOOLEAN /\ dirty \in BOOLEAN
  /\ failures \in 0 .. MaxFailures

\* The query build finds every full vector, list of neighbours, code book,
\* mean, query and answer that the generator wrote, at pages it knows only as
\* numbers, in spite of entries that do not fill their pages, of address
\* fields of few bits, and of the blocks it erases at its first boot.
FindsWhatWasWritten ==
  pc = "serving" /\ ~dirty =>
    /\ \A v \in 0 .. CountOf["L1"] - 1 :
         Finds("fullvec", v) /\ Finds("neighbor", v)
    /\ \A s \in {"codebook", "mean", "query", "longbook"} : FindsArray(s)
    /\ \A q \in 0 .. CountOf["groundtruth"] - 1 : FindsGroundTruth(q)

\* Every variable keeps its type, and as long as the generator was not
\* interrupted with entries in its buffer, the check it makes of its own
\* mapping pages never fails, and it never writes beyond the buffer's end.
GeneratorChecksPass ==
  /\ TypeOK
  /\ ~dirty => ~l1_check_failed /\ pc # "overrun"

\* No page is programmed that has not been erased since it last was: bits of
\* a NAND page can only be cleared.
ProgramsErasedPages ==
  [][\A p \in Pages :
       flash'[p] \in {NoPage, flash[p]} \/ flash[p] = NoPage]_vars

=============================================================================
