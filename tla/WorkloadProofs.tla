--------------------------- MODULE WorkloadProofs ---------------------------
(***************************************************************************)
(* What holds of the generator and of the layout for every page size,      *)
(* every geometry and every number and size of entries with which the      *)
(* sections fit in front of page 0 and the numbers in the query build are  *)
(* those of Layout.                                                        *)
(*                                                                         *)
(* Entries are counted by the page: Flushed pages of the section are in    *)
(* the flash and InBuffer entries behind them in the buffer.  Products of  *)
(* a number of pages and the entries of a page are compared by the lemmas  *)
(* PerPage and PageCount only.                                             *)
(***************************************************************************)
EXTENDS Workload, TLAPS

Base(n) == PageStart[Sections[n]]

\* Below the last page of section n.
End(n) == Base(n) - PagesOf(Sections[n])

\* The entries of s on its first g pages.
On(s, g) ==
  IF g * ENTRIES_PER_PAGE(s) <= CountOf[s] THEN g * ENTRIES_PER_PAGE(s)
  ELSE CountOf[s]

Writing == pc \in {"append", "write", "clear", "rewind"}
Flushed == page_start[S] - cur_nand_write_page
InBuffer == written - On(S, Flushed)

\* Only the first section can find left-over bytes in the buffer.
Exact == ~dirty \/ section > 1

ShapeInv ==
  /\ page_start \in [Names -> Pages]
  /\ flash = [p \in Pages |-> flash[p]]
  /\ pc = "start" => section = 1 /\ cur_nand_write_page = FLASH_DATA_START_PAGE
  /\ pc = "finished" => section = Len(Sections)

\* A section begins at its page, but behind a dirty start perhaps one below.
StartInv ==
  /\ pc = "open" =>
       /\ cur_nand_write_page >= Base(section) - 1
       /\ ~dirty \/ section = 1 => cur_nand_write_page = Base(section)
  /\ Writing =>
       /\ page_start[S] >= Base(section) - 1
       /\ ~dirty \/ section = 1 => page_start[S] = Base(section)

\* Where nothing was left over, a page is written when it is full or the
\* section over.
RoomInv ==
  Exact =>
    /\ pc = "open" => head = 0
    /\ Writing => Flushed \in 0 .. PagesOf(S)
    /\ pc = "append" =>
         /\ InBuffer \in 0 .. ENTRIES_PER_PAGE(S)
         /\ head = InBuffer * SizeOf[S]
         /\ S # "groundtruth" => InBuffer < ENTRIES_PER_PAGE(S)
    /\ pc = "write" =>
         /\ InBuffer \in 1 .. ENTRIES_PER_PAGE(S)
         /\ InBuffer = ENTRIES_PER_PAGE(S) \/ written = CountOf[S]
    /\ pc \in {"clear", "rewind"} => InBuffer = 0

\* Where something was, the first page may hold next to nothing, and the other
\* pages are as full as ever: it takes one page more.
LeftInv ==
  ~Exact /\ Writing =>
    /\ Flushed \in 0 .. PagesOf(S) + 1
    /\ pc = "append" /\ Flushed >= 1 =>
         \E u \in Nat :
           /\ head = u * SizeOf[S]
           /\ \/ written >= ((Flushed - 1) * ENTRIES_PER_PAGE(S)) + u
              \/ u = 0 /\ written = CountOf[S]
    /\ pc = "write" =>
         /\ Flushed <= PagesOf(S)
         /\ Flushed = 0 \/ written >= Flushed * ENTRIES_PER_PAGE(S)
            \/ written = CountOf[S]
    /\ pc \in {"clear", "rewind"} =>
         /\ Flushed >= 1
         /\ \/ written >= (Flushed - 1) * ENTRIES_PER_PAGE(S)
            \/ written = CountOf[S]

CleanInv ==
  ~dirty => page_start = PageStart /\ ~l1_check_failed /\ pc # "overrun"

CountInv ==
  TypeOK /\ ShapeInv /\ StartInv /\ RoomInv /\ LeftInv /\ CleanInv

\* What has not been come to is erased.
ErasedInv ==
  pc # "start" =>
    \A p \in Pages : p <= cur_nand_write_page => flash[p] = NoPage

\* An entry with the addresses that a clean start gives it.
Placed(s, v) ==
  IF s = "L1"
  THEN [in |-> s, id |-> v,
        fullvec |->
          Address(CALC_ENTRY_PAGE(PageStart["fullvec"], v, "fullvec"),
                  CALC_ENTRY_OFFSET(v, "fullvec")),
        neighbor |->
          Address(CALC_ENTRY_PAGE(PageStart["neighbor"], v, "neighbor"),
                  CALC_ENTRY_OFFSET(v, "neighbor"))]
  ELSE [in |-> s, id |-> v]

\* Place r of a page is taken by the r-th of the entries of page i of s.
Slot(page, s, i, r) ==
  \A k \in 0 .. SizeOf[s] - 1 :
    page[(r * SizeOf[s]) + k]
      = <<Placed(s, (i * ENTRIES_PER_PAGE(s)) + r), k>>

InFlash(s, i) ==
  \A r \in 0 .. ENTRIES_PER_PAGE(s) - 1 :
    (i * ENTRIES_PER_PAGE(s)) + r < CountOf[s] =>
      Slot(flash[PageStart[s] - i], s, i, r)

\* The sections that are closed.
Closed == {n \in 1 .. Len(Sections) :
             \/ pc = "open" /\ n < section
             \/ Writing /\ n < section
             \/ pc \in {"finished", "serving"}}

DataInv ==
  ~dirty =>
    /\ \A n \in Closed : \A i \in 0 .. PagesOf(Sections[n]) - 1 :
         InFlash(Sections[n], i)
    /\ Writing => \A i \in 0 .. Flushed - 1 : InFlash(S, i)
    /\ pc \in {"append", "write"} =>
         \A r \in 0 .. InBuffer - 1 : Slot(buf_flash_flush, S, Flushed, r)

WorkloadInv == CountInv /\ ErasedInv /\ DataInv
-----------------------------------------------------------------------------
(***************************************************************************)
(* Arithmetic.                                                             *)
(***************************************************************************)

LEMMA QuotientBounds ==
  ASSUME NEW a \in Nat, NEW z \in Nat \ {0}
  PROVE  /\ a \div z \in Nat
         /\ (a \div z) * z <= a /\ a < ((a \div z) + 1) * z
OBVIOUS

\* As many as fit are the quotient.
LEMMA Fits ==
  ASSUME NEW a \in Nat, NEW z \in Nat \ {0}, NEW m \in Int
  PROVE  m * z <= a <=> m <= a \div z
<1> DEFINE q == a \div z
<1>1. q \in Nat /\ q * z <= a /\ a < (q + 1) * z
  BY QuotientBounds
<1> HIDE DEF q
<1>2. CASE m <= q
  <2>1. (q - m) * z >= 0
    BY <1>1, <1>2
  <2> QED BY <1>1, <1>2, <2>1
<1>3. CASE m > q
  <2>1. (m - (q + 1)) * z >= 0
    BY <1>1, <1>3
  <2> QED BY <1>1, <1>3, <2>1
<1> QED BY <1>1, <1>2, <1>3 DEF q

LEMMA QuotientIs ==
  ASSUME NEW q \in Nat, NEW z \in Nat \ {0}, NEW r \in 0 .. z - 1
  PROVE  ((q * z) + r) \div z = q /\ ((q * z) + r) % z = r
OBVIOUS

LEMMA SectionNames ==
  /\ Len(Sections) = 8 /\ DOMAIN Sections = 1 .. 8
  /\ Sections[1] = "codebook" /\ Sections[2] = "mean"
  /\ Sections[3] = "fullvec" /\ Sections[4] = "neighbor"
  /\ Sections[5] = "L1" /\ Sections[6] = "query"
  /\ Sections[7] = "longbook" /\ Sections[8] = "groundtruth"
  /\ \A n \in 1 .. 8 : Sections[n] \in Names
BY DEF Sections, Names

\* Entries of a page.
LEMMA PerPage ==
  ASSUME NEW s \in Names
  PROVE  /\ ENTRIES_PER_PAGE(s) \in Nat \ {0}
         /\ SizeOf[s] \in Nat \ {0} /\ CountOf[s] \in Nat \ {0}
         /\ \A m \in Int : m * SizeOf[s] <= PAGE_SIZE
                             <=> m <= ENTRIES_PER_PAGE(s)
<1>1. SizeOf[s] \in 1 .. PAGE_SIZE /\ CountOf[s] \in Nat \ {0}
      /\ PAGE_SIZE \in Nat \ {0}
  BY SizesAssumption
<1>2. \A m \in Int : m * SizeOf[s] <= PAGE_SIZE <=> m <= ENTRIES_PER_PAGE(s)
  BY <1>1, Fits DEF ENTRIES_PER_PAGE
<1>3. ENTRIES_PER_PAGE(s) \in Nat
  BY <1>1, QuotientBounds DEF ENTRIES_PER_PAGE
<1>4. 1 <= ENTRIES_PER_PAGE(s)
  <2>1. 1 * SizeOf[s] <= PAGE_SIZE
    BY <1>1
  <2> QED BY <2>1, <1>2
<1> QED BY <1>1, <1>2, <1>3, <1>4

\* Pages of a section: a page more is needed as long as there are entries.
LEMMA PageCount ==
  ASSUME NEW s \in Names
  PROVE  /\ PagesOf(s) \in Nat \ {0}
         /\ \A m \in Int : m < PagesOf(s)
                             <=> m * ENTRIES_PER_PAGE(s) < CountOf[s]
<1> DEFINE E == ENTRIES_PER_PAGE(s)
           C == CountOf[s]
<1>1. E \in Nat \ {0} /\ C \in Nat \ {0}
  BY PerPage
<1>2. PagesOf(s) = (C + E - 1) \div E
  BY DEF PagesOf
<1> HIDE DEF E, C
<1>3. C + E - 1 \in Nat
  BY <1>1
<1>4. PagesOf(s) \in Nat
  BY <1>1, <1>2, <1>3, QuotientBounds
<1>5. ASSUME NEW m \in Int
      PROVE  m < PagesOf(s) <=> m * E < C
  <2>1. (m + 1) * E <= C + E - 1 <=> m + 1 <= PagesOf(s)
    BY <1>1, <1>2, <1>3, Fits
  <2>2. (m + 1) * E = (m * E) + E
    BY <1>1
  <2>3. m * E \in Int
    BY <1>1
  <2> HIDE DEF E
  <2> QED BY <2>1, <2>2, <2>3, <1>1, <1>4
<1>6. 0 < PagesOf(s)
  <2>1. 0 * E < C
    BY <1>1
  <2> QED BY <2>1, <1>5
<1> QED BY <1>4, <1>5, <1>6 DEF E, C

\* The sections lie below each other, and end above page 0 and the cleared
\* blocks.
LEMMA SectionsFit ==
  /\ Base(1) = FLASH_DATA_START_PAGE /\ FLASH_DATA_START_PAGE \in Pages
  /\ \A n \in 1 .. 8 :
       /\ Base(n) \in Pages /\ Base(n) \in Nat
       /\ PagesOf(Sections[n]) \in Nat \ {0}
       /\ End(n) \in Nat \ {0} /\ End(n) + 1 >= ClearedBlocks * PAGES_PER_BLOCK
       /\ n < 8 => Base(n + 1) = End(n)
  /\ \A n, m \in 1 .. 8 : n < m => End(n) >= Base(m)
<1> DEFINE B == ClearedBlocks * PAGES_PER_BLOCK
           P(n) == PagesOf(Sections[n])
<1>1. /\ Base(1) = FLASH_DATA_START_PAGE /\ FLASH_DATA_START_PAGE \in Pages
      /\ \A n \in 1 .. 7 : Base(n + 1) = End(n)
      /\ End(8) + 1 > 1 /\ End(8) + 1 >= B
  BY LayoutAssumption, PagesAssumption, SectionNames DEF Layout, Base, End
<1>2. B \in Nat /\ Pages \subseteq Nat
  BY SizesAssumption DEF Pages
<1>3. \A n \in 1 .. 8 : Base(n) \in Pages /\ Base(n) \in Nat
  BY <1>2, PagesAssumption, SectionNames DEF Base
<1>4. \A n \in 1 .. 8 : P(n) \in Nat \ {0}
  BY SectionNames, PageCount
<1>5. \A n \in 1 .. 8 : End(n) = Base(n) - P(n)
  BY DEF End
<1> HIDE DEF B, P
<1>6. /\ Base(2) = Base(1) - P(1) /\ Base(3) = Base(2) - P(2)
      /\ Base(4) = Base(3) - P(3) /\ Base(5) = Base(4) - P(4)
      /\ Base(6) = Base(5) - P(5) /\ Base(7) = Base(6) - P(6)
      /\ Base(8) = Base(7) - P(7)
  <2>1. \A n \in 1 .. 7 : Base(n + 1) = Base(n) - P(n)
    BY <1>1, <1>5
  <2> QED BY <2>1
<1>7. /\ Base(1) \in Nat /\ P(1) \in Nat \ {0}
      /\ Base(2) \in Nat /\ P(2) \in Nat \ {0}
      /\ Base(3) \in Nat /\ P(3) \in Nat \ {0}
      /\ Base(4) \in Nat /\ P(4) \in Nat \ {0}
      /\ Base(5) \in Nat /\ P(5) \in Nat \ {0}
      /\ Base(6) \in Nat /\ P(6) \in Nat \ {0}
      /\ Base(7) \in Nat /\ P(7) \in Nat \ {0}
      /\ Base(8) \in Nat /\ P(8) \in Nat \ {0}
  BY <1>3, <1>4
<1>8. Base(8) - P(8) >= 1 /\ Base(8) - P(8) + 1 >= B
  BY <1>1, <1>2, <1>3, <1>4, <1>5
<1>9. ASSUME NEW n \in 1 .. 8
      PROVE  Base(n) - P(n) >= 1 /\ Base(n) - P(n) + 1 >= B
  <2>1. n = 1 \/ n = 2 \/ n = 3 \/ n = 4 \/ n = 5 \/ n = 6 \/ n = 7 \/ n = 8
    OBVIOUS
  <2> QED BY <2>1, <1>2, <1>6, <1>7, <1>8
<1>10. ASSUME NEW n \in 1 .. 8, NEW m \in 1 .. 8, n < m
       PROVE  Base(n) - P(n) >= Base(m)
  <2>1. n = 1 \/ n = 2 \/ n = 3 \/ n = 4 \/ n = 5 \/ n = 6 \/ n = 7 \/ n = 8
    OBVIOUS
  <2>2. m = 1 \/ m = 2 \/ m = 3 \/ m = 4 \/ m = 5 \/ m = 6 \/ m = 7 \/ m = 8
    OBVIOUS
  <2> QED BY <2>1, <2>2, <1>6, <1>7, <1>10
<1>11. \A n \in 1 .. 8 : End(n) \in Nat \ {0} /\ End(n) + 1 >= B
  BY <1>3, <1>4, <1>5, <1>9
<1>12. \A n, m \in 1 .. 8 : n < m => End(n) >= Base(m)
  BY <1>5, <1>10
<1>13. \A n \in 1 .. 8 : n < 8 => Base(n + 1) = End(n)
  <2>1. \A n \in 1 .. 8 : n < 8 => n \in 1 .. 7
    OBVIOUS
  <2> QED BY <2>1, <1>1
<1>14. \A n \in 1 .. 8 : PagesOf(Sections[n]) \in Nat \ {0}
  BY <1>4 DEF P
<1>15. \A n \in 1 .. 8 : End(n) + 1 >= ClearedBlocks * PAGES_PER_BLOCK
  BY <1>11 DEF B
<1> QED BY <1>1, <1>3, <1>11, <1>12, <1>13, <1>14, <1>15

\* g pages are written and u entries are behind them.
LEMMA OnPagesIs ==
  ASSUME NEW s \in Names, NEW g \in Nat
  PROVE  On(s, g) \in 0 .. CountOf[s]
BY PerPage DEF On

\* As long as there are entries to come, or some in the buffer, the pages
\* written are full, and there is a page more.
LEMMA MorePages ==
  ASSUME NEW s \in Names, NEW g \in Nat, NEW w \in 0 .. CountOf[s],
         \/ w < CountOf[s] /\ w >= On(s, g)
         \/ w > On(s, g)
  PROVE  On(s, g) = g * ENTRIES_PER_PAGE(s) /\ g < PagesOf(s)
<1> DEFINE E == ENTRIES_PER_PAGE(s)
           p == g * E
<1>1. E \in Nat /\ p \in Nat /\ CountOf[s] \in Nat
  BY PerPage
<1>2. On(s, g) = IF p <= CountOf[s] THEN p ELSE CountOf[s]
  BY DEF On
<1> HIDE DEF p
<1>3. On(s, g) = p /\ p < CountOf[s]
  BY <1>1, <1>2
<1>4. p < CountOf[s] => g < PagesOf(s)
  BY PageCount DEF p
<1> QED BY <1>3, <1>4 DEF p

\* A full page, or the last, goes to the flash.
LEMMA PageAway ==
  ASSUME NEW s \in Names, NEW g \in Nat, NEW w \in 0 .. CountOf[s],
         w - On(s, g) \in 1 .. ENTRIES_PER_PAGE(s),
         w - On(s, g) = ENTRIES_PER_PAGE(s) \/ w = CountOf[s]
  PROVE  On(s, g + 1) = w
<1> DEFINE E == ENTRIES_PER_PAGE(s)
           p == g * E
<1>1. E \in Nat /\ p \in Nat /\ CountOf[s] \in Nat
  BY PerPage
<1>2. On(s, g) \in 0 .. CountOf[s]
  BY OnPagesIs
<1>3. On(s, g) = p
  BY <1>1, <1>2, MorePages
<1>4. (g + 1) * E = p + E
  BY <1>1
<1>5. On(s, g + 1) = IF p + E <= CountOf[s] THEN p + E ELSE CountOf[s]
  BY <1>4 DEF On
<1> HIDE DEF p, E
<1>6. w - p \in 1 .. E /\ (w - p = E \/ w = CountOf[s])
  BY <1>3 DEF E
<1> QED BY <1>1, <1>5, <1>6

\* Nothing is left of the section.
LEMMA AllPages ==
  ASSUME NEW s \in Names, NEW g \in Nat, g <= PagesOf(s),
         On(s, g) = CountOf[s]
  PROVE  g = PagesOf(s)
<1> DEFINE p == g * ENTRIES_PER_PAGE(s)
<1>1. p \in Nat /\ CountOf[s] \in Nat /\ PagesOf(s) \in Nat
  BY PerPage, PageCount
<1>2. g < PagesOf(s) <=> p < CountOf[s]
  BY PageCount
<1>3. CountOf[s] = IF p <= CountOf[s] THEN p ELSE CountOf[s]
  BY DEF On
<1> HIDE DEF p
<1> QED BY <1>1, <1>2, <1>3
-----------------------------------------------------------------------------
(***************************************************************************)
(* Pages and places are counted right.                                     *)
(***************************************************************************)

LEMMA Ranges ==
  ASSUME TypeOK, ShapeInv
  PROVE  /\ section \in 1 .. 8 /\ S \in Names
         /\ Base(section) = PageStart[S] /\ Base(section) \in Nat
         /\ End(section) = PageStart[S] - PagesOf(S)
         /\ End(section) \in Nat \ {0}
         /\ PagesOf(S) \in Nat \ {0}
         /\ ENTRIES_PER_PAGE(S) \in Nat \ {0}
         /\ SizeOf[S] \in Nat \ {0} /\ CountOf[S] \in Nat \ {0}
         /\ page_start[S] \in Nat /\ cur_nand_write_page \in Nat
         /\ page_start[S] \in Pages
         /\ Flushed \in Int /\ head \in Nat /\ written \in Nat
         /\ PAGE_SIZE \in Nat
<1>1. section \in 1 .. 8 /\ S \in Names
  BY SectionNames DEF TypeOK, S
<1>2. Pages \subseteq Nat
  BY SizesAssumption DEF Pages
<1>3. page_start[S] \in Pages /\ cur_nand_write_page \in Pages
  BY <1>1 DEF TypeOK
<1>4. Base(section) = PageStart[S] /\ Base(section) \in Nat
      /\ End(section) = PageStart[S] - PagesOf(S) /\ End(section) \in Nat \ {0}
      /\ PagesOf(S) \in Nat \ {0}
  BY <1>1, SectionsFit DEF Base, End, S
<1>5. head \in 0 .. PAGE_SIZE /\ written \in Nat /\ PAGE_SIZE \in Nat
  BY SizesAssumption DEF TypeOK
<1>6. page_start[S] \in Nat /\ cur_nand_write_page \in Nat /\ Flushed \in Int
  <2>1. page_start[S] \in Nat /\ cur_nand_write_page \in Nat
    BY <1>2, <1>3
  <2> QED BY <2>1 DEF Flushed
<1>7. PAGE_SIZE \in Nat /\ head \in Nat
  BY <1>5
<1> QED
  BY <1>1, <1>2, <1>3, <1>4, <1>5, <1>6, <1>7, PerPage

LEMMA EraseCounts ==
  ASSUME CountInv, EraseAll
  PROVE  CountInv'
<1> USE DEF CountInv
<1>0. section = 1 /\ section' = 1 /\ S' = S
  BY DEF EraseAll, ShapeInv, progress, S
<1>1. TypeOK'
  BY <1>0 DEF EraseAll, TypeOK, ShapeInv, progress, buffer, S
<1>2. ShapeInv'
  BY DEF EraseAll, ShapeInv, progress
<1>3. StartInv'
  <2>1. Base(1) \in Nat /\ Base(1) = FLASH_DATA_START_PAGE
    BY SectionsFit
  <2>2. cur_nand_write_page' = FLASH_DATA_START_PAGE
    BY DEF EraseAll, ShapeInv, progress
  <2> QED BY <1>0, <2>1, <2>2 DEF EraseAll, StartInv, Writing
<1>4. RoomInv'
  <2>1. ~Exact' \/ head' = 0
    <3>1. ~(section' > 1)
      BY <1>0
    <3>2. dirty' = (dirty \/ head # 0) /\ head' = head
      BY DEF EraseAll, buffer
    <3> QED BY <3>1, <3>2 DEF Exact
  <2> QED BY <2>1 DEF EraseAll, RoomInv, Writing
<1>5. LeftInv'
  BY DEF EraseAll, LeftInv, Writing
<1>6. CleanInv'
  BY DEF EraseAll, CleanInv
<1> QED BY <1>1, <1>2, <1>3, <1>4, <1>5, <1>6

LEMMA OpenCounts ==
  ASSUME CountInv, OpenSection
  PROVE  CountInv'
<1> USE DEF CountInv
<1>0. /\ S' = S /\ section' = section /\ dirty' = dirty /\ head' = head
      /\ pc = "open" /\ pc' = "append" /\ written' = 0
      /\ cur_nand_write_page' = cur_nand_write_page
      /\ page_start' = [page_start EXCEPT ![S] = cur_nand_write_page]
  BY DEF OpenSection, S, buffer
<1>1. /\ page_start' \in [Names -> Pages]
      /\ page_start'[S] = cur_nand_write_page
  BY <1>0, Ranges DEF TypeOK, ShapeInv
<1>2. TypeOK'
  BY <1>0, <1>1, Ranges DEF OpenSection, TypeOK
<1>3. ShapeInv'
  BY <1>0, <1>1 DEF OpenSection, ShapeInv
<1>4. StartInv'
  BY <1>0, <1>1 DEF StartInv, Writing, Base
<1>5. Flushed' = 0 /\ InBuffer' = 0
  <2>1. Flushed' = 0
    BY <1>0, <1>1, Ranges DEF Flushed
  <2>2. On(S, 0) = 0
    BY Ranges DEF On
  <2> QED BY <2>1, <2>2, <1>0 DEF InBuffer
<1>6. RoomInv'
  <2>1. Exact' => head' = 0
    BY <1>0 DEF RoomInv, Exact
  <2>2. 0 = 0 * SizeOf[S] /\ 0 \in 0 .. ENTRIES_PER_PAGE(S)
        /\ 0 < ENTRIES_PER_PAGE(S) /\ 0 \in 0 .. PagesOf(S)
    BY Ranges
  <2> QED BY <2>1, <2>2, <1>0, <1>5 DEF RoomInv, Writing
<1>7. LeftInv'
  <2>1. 0 \in 0 .. PagesOf(S) + 1 /\ ~(0 >= 1)
    BY Ranges
  <2> QED BY <2>1, <1>0, <1>5 DEF LeftInv, Writing
<1>8. CleanInv'
  <2>1. ASSUME ~dirty PROVE page_start' = PageStart
    <3>1. cur_nand_write_page = PageStart[S] /\ page_start = PageStart
      BY <1>0, <2>1, Ranges DEF StartInv, CleanInv
    <3> QED BY <3>1, <1>0, PagesAssumption
  <2> QED BY <2>1, <1>0 DEF OpenSection, CleanInv
<1> QED BY <1>2, <1>3, <1>4, <1>6, <1>7, <1>8

LEMMA AppendCounts ==
  ASSUME CountInv, AppendEntry
  PROVE  CountInv'
<1> USE DEF CountInv
<1> DEFINE E == ENTRIES_PER_PAGE(S)
           z == SizeOf[S]
           g == Flushed
           u == InBuffer
<1>0. /\ S' = S /\ section' = section /\ dirty' = dirty
      /\ pc = "append" /\ written < CountOf[S] /\ ~RoomFirst
      /\ cur_nand_write_page' = cur_nand_write_page
      /\ page_start' = page_start /\ flash' = flash /\ failures' = failures
      /\ Flushed' = Flushed
  BY DEF AppendEntry, S, Flushed
<1>1. CASE head + SizeOf[S] > PAGE_SIZE
  <2>1. /\ pc' = "overrun" /\ written' = written /\ head' = head
        /\ l1_check_failed' = l1_check_failed
    BY <1>1 DEF AppendEntry, buffer
  <2>2. ~Exact
    <3>1. SUFFICES ASSUME Exact PROVE FALSE
      OBVIOUS
    <3>2. S # "groundtruth"
      BY <1>0, <1>1 DEF RoomFirst
    <3>3. u \in 0 .. E /\ head = u * z /\ u < E
      BY <1>0, <3>1, <3>2 DEF RoomInv
    <3> HIDE DEF u
    <3>4. (u + 1) * z <= PAGE_SIZE
      BY <3>3, Ranges, PerPage
    <3>5. (u + 1) * z = head + z
      BY <3>3, Ranges
    <3> QED BY <3>4, <3>5, <1>1, Ranges
  <2>3. TypeOK'
    BY <1>0, <2>1 DEF TypeOK
  <2>4. ShapeInv'
    BY <1>0, <2>1 DEF ShapeInv
  <2>5. ~Writing' /\ pc' # "open" /\ ~Exact'
    BY <1>0, <2>1, <2>2 DEF Writing, Exact
  <2>6. dirty
    BY <2>2 DEF Exact
  <2> QED
    BY <1>0, <2>1, <2>3, <2>4, <2>5, <2>6
       DEF StartInv, RoomInv, LeftInv, CleanInv
<1>2. CASE ~(head + SizeOf[S] > PAGE_SIZE)
  <2>1. /\ head' = head + SizeOf[S] /\ written' = written + 1
        /\ pc' = (IF IsFull(head') THEN "write" ELSE "append")
        /\ l1_check_failed' =
             (l1_check_failed \/ (S = "L1" /\ IsFull(head') /\ ~L1Check))
    BY <1>2 DEF AppendEntry
  <2>2. InBuffer' = InBuffer + 1 /\ Writing' /\ Writing
    <3>1. InBuffer' = (written + 1) - On(S, Flushed)
      BY <1>0, <2>1 DEF InBuffer
    <3>2. written \in Nat /\ Writing /\ Flushed \in Int
      BY <1>0, Ranges DEF Writing
    <3>3. On(S, Flushed) \in Int
      BY <3>2, Ranges DEF On
    <3> QED BY <3>1, <3>2, <3>3, <2>1 DEF InBuffer, Writing
  <2>3. head + SizeOf[S] \in 0 .. PAGE_SIZE /\ written + 1 \in Nat
        /\ written + 1 <= CountOf[S]
    BY <1>0, <1>2, Ranges
  <2>4. TypeOK'
    BY <1>0, <2>1, <2>3 DEF TypeOK
  <2>5. ShapeInv'
    BY <1>0, <2>1 DEF ShapeInv
  <2>6. StartInv'
    BY <1>0, <2>1, <2>2 DEF StartInv
  <2>7. Exact' <=> Exact
    BY <1>0 DEF Exact
  <2>8. ASSUME Exact
        PROVE  /\ u \in 0 .. E /\ u < E /\ head = u * z /\ u + 1 \in 0 .. E
               /\ g \in 0 .. PagesOf(S)
               /\ S # "groundtruth" => (IsFull(head') <=> u + 1 = E)
    <3>1. u \in 0 .. E /\ head = u * z /\ g \in 0 .. PagesOf(S)
      BY <1>0, <2>2, <2>8 DEF RoomInv
    <3> HIDE DEF u, g
    <3>2. (u + 1) * z = head + z /\ (u + 2) * z = head + z + z
      BY <3>1, Ranges
    <3>3. u + 1 <= E
      <4>1. (u + 1) * z <= PAGE_SIZE
        BY <3>2, <1>2, Ranges
      <4> QED BY <3>1, <4>1, Ranges, PerPage
    <3>4. ASSUME S # "groundtruth"
          PROVE  IsFull(head') <=> u + 1 = E
      <4>1. IsFull(head') <=> ~((u + 2) * z <= PAGE_SIZE)
        BY <3>2, <3>4, <2>1, Ranges DEF IsFull
      <4>2. (u + 2) * z <= PAGE_SIZE <=> u + 2 <= E
        BY <3>1, Ranges, PerPage
      <4> HIDE DEF E, z
      <4>3. ~(u + 2 <= E) <=> u + 1 = E
        <5>1. E \in Nat
          BY Ranges DEF E
        <5> QED BY <5>1, <3>1, <3>3
      <4> QED BY <4>1, <4>2, <4>3
    <3> HIDE DEF E
    <3>5. E \in Nat
      BY Ranges DEF E
    <3> QED BY <3>1, <3>3, <3>4, <3>5
  <2>9. RoomInv'
    <3>1. SUFFICES ASSUME Exact PROVE RoomInv'
      BY <2>7 DEF RoomInv
    <3>2. head' = (u + 1) * z
      BY <2>1, <2>8, <3>1, Ranges
    <3>3. pc' = "append" /\ S # "groundtruth" => ~IsFull(head')
      BY <2>1
    <3>4. pc' = "append" /\ S # "groundtruth" => u + 1 < E
      <4> HIDE DEF u, E
      <4>1. E \in Nat
        BY Ranges DEF E
      <4> QED BY <3>3, <2>8, <3>1, <4>1
    <3>5. pc' = "write" => u + 1 \in 1 .. E /\ u + 1 = E
      <4>1. pc' = "write" => IsFull(head') /\ S # "groundtruth"
        BY <2>1 DEF IsFull
      <4> HIDE DEF u
      <4> QED BY <4>1, <2>8, <3>1
    <3>6. /\ pc' \in {"append", "write"}
          /\ g \in 0 .. PagesOf(S) /\ u + 1 \in 0 .. E
      BY <2>1, <2>8, <3>1
    <3> QED BY <1>0, <2>2, <3>2, <3>4, <3>5, <3>6 DEF RoomInv
  <2>10. LeftInv'
    <3>1. SUFFICES ASSUME ~Exact PROVE LeftInv'
      BY <2>7 DEF LeftInv
    <3>2. g \in 0 .. PagesOf(S) + 1
      BY <1>0, <2>2, <3>1 DEF LeftInv
    <3>3. ASSUME g >= 1
          PROVE  \E v \in Nat : /\ head = v * z
                                /\ written >= ((g - 1) * E) + v
      BY <1>0, <2>2, <3>1, <3>3, Ranges DEF LeftInv
    <3> HIDE DEF g
    <3>4. ASSUME g >= 1
          PROVE  /\ \E v \in Nat : /\ head' = v * z
                                   /\ written' >= ((g - 1) * E) + v
                 /\ g <= PagesOf(S)
                 /\ IsFull(head') => written' >= g * E
      <4>1. PICK v \in Nat : head = v * z /\ written >= ((g - 1) * E) + v
        BY <3>3, <3>4
      <4>2. (v + 1) * z = head' /\ (v + 2) * z = head' + z
        BY <4>1, <2>1, Ranges
      <4> DEFINE p == (g - 1) * E
      <4>3. p \in Int /\ g * E = p + E
        BY <3>2, Ranges
      <4>4. p < CountOf[S] => g - 1 < PagesOf(S)
        BY <3>2, Ranges, PageCount
      <4>5. IsFull(head') => ~(v + 2 <= E)
        <5>1. (v + 2) * z <= PAGE_SIZE <=> v + 2 <= E
          BY <4>1, Ranges, PerPage
        <5>2. IsFull(head') => ~((v + 2) * z <= PAGE_SIZE)
          BY <4>2, <2>1, Ranges DEF IsFull
        <5> QED BY <5>1, <5>2
      <4>6. written >= p + v
        BY <4>1
      <4> HIDE DEF p, E
      <4>7. E \in Nat
        BY Ranges DEF E
      <4>8. written' >= p + (v + 1) /\ p < CountOf[S]
        BY <4>3, <4>6, <2>1, <2>3, Ranges
      <4>9. IsFull(head') => written' >= p + E
        BY <4>3, <4>5, <4>7, <4>8, <2>1, Ranges
      <4>10. g <= PagesOf(S)
        BY <4>4, <4>8, <3>2, Ranges
      <4>11. \E w \in Nat : head' = w * z /\ written' >= p + w
        <5> WITNESS v + 1 \in Nat
        <5> QED BY <4>2, <4>8
      <4> QED BY <4>3, <4>9, <4>10, <4>11 DEF p
    <3>5. g = 0 => g <= PagesOf(S)
      BY Ranges
    <3>6. pc' = "write" => IsFull(head')
      BY <2>1
    <3>7. pc' \in {"append", "write"}
      BY <2>1
    <3>8. g = 0 \/ g >= 1
      BY <3>2, Ranges
    <3>9. Flushed' = g
      BY <1>0 DEF g
    <3>10. pc' = "write" => g <= PagesOf(S) /\ (g = 0 \/ written' >= g * E)
      BY <3>4, <3>5, <3>6, <3>8
    <3> QED BY <1>0, <3>2, <3>4, <3>7, <3>9, <3>10 DEF LeftInv
  <2>11. CleanInv'
    <3>1. SUFFICES ASSUME ~dirty PROVE CleanInv'
      BY <1>0 DEF CleanInv
    <3>2. pc' # "overrun" /\ page_start' = PageStart /\ ~l1_check_failed
      BY <1>0, <2>1, <3>1 DEF CleanInv
    <3>3. ASSUME S = "L1", IsFull(head') PROVE L1Check
      <4>1. u + 1 = E /\ g \in 0 .. PagesOf(S) /\ u \in 0 .. E
        BY <2>8, <3>1, <3>3 DEF Exact
      <4>2. written = On(S, g) + u
        <5>1. On(S, g) \in Int
          BY <4>1, Ranges, OnPagesIs
        <5> QED BY <5>1, Ranges DEF InBuffer
      <4>3. On(S, g) = g * E
        <5>1. On(S, g) \in 0 .. CountOf[S]
          BY <4>1, Ranges, OnPagesIs
        <5> HIDE DEF u, g
        <5> QED BY <4>1, <4>2, <5>1, <1>0, Ranges, MorePages
      <4> HIDE DEF u, g
      <4>4. written = (g * E) + (E - 1) /\ E \in Nat \ {0} /\ g \in Nat
        BY <4>1, <4>2, <4>3, Ranges
      <4>5. written \div E = g /\ written % E = E - 1
        <5> HIDE DEF E
        <5>1. E - 1 \in 0 .. E - 1
          BY <4>4
        <5> QED BY <4>4, <5>1, QuotientIs
      <4> QED BY <4>5, <3>3 DEF L1Check, g, Flushed
    <3> QED BY <2>1, <3>2, <3>3 DEF CleanInv
  <2> QED BY <2>4, <2>5, <2>6, <2>9, <2>10, <2>11
<1> QED BY <1>1, <1>2

LEMMA FlushCounts ==
  ASSUME CountInv, FlushFirst
  PROVE  CountInv'
<1> USE DEF CountInv
<1>0. /\ S' = S /\ section' = section /\ dirty' = dirty
      /\ pc = "append" /\ pc' = "write" /\ head # 0
      /\ written = CountOf[S] \/ RoomFirst
      /\ written' = written /\ head' = head /\ page_start' = page_start
      /\ cur_nand_write_page' = cur_nand_write_page
      /\ Flushed' = Flushed /\ InBuffer' = InBuffer
  BY DEF FlushFirst, S, Flushed, InBuffer, progress, buffer
<1>1. TypeOK'
  BY <1>0 DEF FlushFirst, TypeOK
<1>2. ShapeInv'
  BY <1>0 DEF FlushFirst, ShapeInv
<1>3. StartInv'
  BY <1>0 DEF StartInv, Writing
<1> DEFINE E == ENTRIES_PER_PAGE(S)
           z == SizeOf[S]
           g == Flushed
           u == InBuffer
<1>4. RoomInv'
  <2>1. SUFFICES ASSUME Exact PROVE RoomInv'
    BY <1>0 DEF RoomInv, Exact
  <2>2. u \in 0 .. E /\ head = u * z /\ g \in 0 .. PagesOf(S)
    BY <1>0, <2>1 DEF RoomInv, Writing
  <2>3. RoomFirst => u = E
    <3> HIDE DEF u
    <3>0. u \in Nat /\ z \in Nat /\ head = u * z
      BY <2>2, Ranges
    <3>1. (u + 1) * z = head + z
      BY <3>0
    <3>2. (u + 1) * z <= PAGE_SIZE <=> u + 1 <= E
      BY <2>2, Ranges, PerPage
    <3>3. RoomFirst => ~((u + 1) * z <= PAGE_SIZE)
      BY <3>1, Ranges DEF RoomFirst
    <3> HIDE DEF E
    <3>4. E \in Nat
      BY Ranges DEF E
    <3> QED BY <2>2, <3>2, <3>3, <3>4
  <2>4. u # 0
    <3> HIDE DEF u
    <3> QED BY <2>2, <1>0, Ranges
  <2> HIDE DEF u, E
  <2>5. u \in 1 .. E
    <3>1. E \in Nat
      BY Ranges DEF E
    <3> QED BY <2>2, <2>4, <3>1
  <2> QED BY <1>0, <2>2, <2>3, <2>5 DEF RoomInv, Writing, u, E
<1>5. LeftInv'
  <2>1. SUFFICES ASSUME ~Exact PROVE LeftInv'
    BY <1>0 DEF LeftInv, Exact
  <2>2. g \in 0 .. PagesOf(S) + 1
    BY <1>0, <2>1 DEF LeftInv, Writing
  <2>3. written = CountOf[S]
    <3>1. section = 1
      BY <2>1, Ranges DEF Exact
    <3> QED BY <3>1, <1>0, SectionNames DEF RoomFirst, S
  <2>4. g >= 1 => g <= PagesOf(S)
    <3>1. SUFFICES ASSUME g >= 1 PROVE g <= PagesOf(S)
      OBVIOUS
    <3>2. PICK v \in Nat : /\ head = v * z
                           /\ written >= ((g - 1) * E) + v \/ v = 0
      BY <1>0, <2>1, <3>1, Ranges DEF LeftInv, Writing
    <3> DEFINE p == (g - 1) * E
    <3>3. v # 0
      BY <3>2, <1>0, Ranges
    <3>4. p < CountOf[S] => g - 1 < PagesOf(S)
      BY <2>2, Ranges, PageCount
    <3>5. p \in Int /\ written >= p + v
      BY <2>2, <3>2, <3>3, Ranges
    <3> HIDE DEF p, g
    <3>6. p < CountOf[S]
      BY <3>3, <3>5, <2>3, Ranges
    <3> QED BY <2>2, <3>4, <3>6, Ranges
  <2>5. g <= PagesOf(S)
    <3> HIDE DEF g
    <3> QED BY <2>2, <2>4, Ranges
  <2> QED BY <1>0, <2>2, <2>3, <2>5 DEF LeftInv, Writing
<1>6. CleanInv'
  BY <1>0 DEF FlushFirst, CleanInv
<1> QED BY <1>1, <1>2, <1>3, <1>4, <1>5, <1>6

LEMMA WriteCounts ==
  ASSUME CountInv, WritePage
  PROVE  CountInv'
<1> USE DEF CountInv
<1>0. /\ S' = S /\ section' = section /\ dirty' = dirty
      /\ pc = "write" /\ pc' = "clear" /\ Writing /\ Writing'
      /\ written' = written /\ head' = head /\ page_start' = page_start
      /\ cur_nand_write_page' = cur_nand_write_page - 1
      /\ flash' = [flash EXCEPT ![cur_nand_write_page] = buf_flash_flush]
  BY DEF WritePage, S, buffer, Writing
<1> DEFINE E == ENTRIES_PER_PAGE(S)
           g == Flushed
<1>1. Flushed' = g + 1
  BY <1>0, Ranges DEF Flushed
<1>2. ASSUME Exact
      PROVE  /\ g \in 0 .. PagesOf(S) - 1
             /\ On(S, g + 1) = written
  <2>1. /\ g \in Nat /\ InBuffer \in 1 .. E
        /\ InBuffer = E \/ written = CountOf[S]
    BY <1>0, <1>2, Ranges DEF RoomInv
  <2>2. written \in 0 .. CountOf[S]
    BY <1>0, Ranges DEF TypeOK
  <2>3. On(S, g + 1) = written
    BY <2>1, <2>2, Ranges, PageAway DEF InBuffer
  <2>4. On(S, g) \in 0 .. CountOf[S]
    BY <2>1, Ranges, OnPagesIs
  <2>5. g < PagesOf(S)
    <3>1. written > On(S, g)
      BY <2>1, <2>2, <2>4, Ranges DEF InBuffer
    <3> QED BY <2>1, <2>2, <3>1, Ranges, MorePages
  <2> QED BY <2>1, <2>3, <2>5, Ranges
<1>3. ASSUME ~Exact
      PROVE  g \in 0 .. PagesOf(S) /\ section = 1
  BY <1>0, <1>3, Ranges DEF LeftInv, Exact
<1>4. cur_nand_write_page - 1 \in Pages
  <2>1. cur_nand_write_page = page_start[S] - g
    BY Ranges DEF Flushed
  <2>2. page_start[S] >= Base(section) - 1
    BY <1>0 DEF StartInv
  <2> HIDE DEF g
  <2>3. ASSUME Exact PROVE cur_nand_write_page - 1 >= 0
    BY <2>1, <2>2, <1>2, <2>3, Ranges
  <2>4. ASSUME ~Exact PROVE cur_nand_write_page - 1 >= 0
    <3>1. page_start[S] = Base(section)
      BY <1>0, <1>3, <2>4 DEF StartInv
    <3> QED BY <2>1, <3>1, <1>3, <2>4, Ranges
  <2>5. cur_nand_write_page \in Pages
    BY DEF TypeOK
  <2> QED BY <2>3, <2>4, <2>5, SizesAssumption DEF Pages
<1>5. TypeOK'
  BY <1>0, <1>4 DEF WritePage, TypeOK
<1>6. ShapeInv'
  <2>1. flash' = [p \in Pages |-> flash'[p]]
    BY <1>0 DEF ShapeInv
  <2> QED BY <2>1, <1>0 DEF ShapeInv
<1>7. StartInv'
  BY <1>0 DEF StartInv
<1>8. RoomInv'
  <2>1. SUFFICES ASSUME Exact PROVE RoomInv'
    BY <1>0 DEF RoomInv, Exact
  <2>2. InBuffer' = 0
    <3>1. InBuffer' = written - On(S, g + 1)
      BY <1>0, <1>1 DEF InBuffer
    <3> QED BY <3>1, <1>2, <2>1, Ranges
  <2>3. g + 1 \in 0 .. PagesOf(S)
    <3> HIDE DEF g
    <3> QED BY <1>2, <2>1, Ranges
  <2> QED BY <1>0, <1>1, <2>2, <2>3 DEF RoomInv
<1>9. LeftInv'
  <2>1. SUFFICES ASSUME ~Exact PROVE LeftInv'
    BY <1>0 DEF LeftInv, Exact
  <2>2. g = 0 \/ written >= g * E \/ written = CountOf[S]
    BY <1>0, <2>1 DEF LeftInv
  <2>3. g + 1 \in 0 .. PagesOf(S) + 1 /\ g + 1 >= 1 /\ (g + 1) - 1 = g
    <3> HIDE DEF g
    <3> QED BY <1>3, <2>1, Ranges
  <2>4. written >= g * E \/ written = CountOf[S]
    BY <2>2, Ranges
  <2> QED BY <1>0, <1>1, <2>3, <2>4 DEF LeftInv
<1>10. CleanInv'
  BY <1>0 DEF WritePage, CleanInv
<1> QED BY <1>5, <1>6, <1>7, <1>8, <1>9, <1>10

LEMMA ClearCounts ==
  ASSUME CountInv, ClearBuffer
  PROVE  CountInv'
<1> USE DEF CountInv
<1>0. /\ S' = S /\ section' = section /\ dirty' = dirty
      /\ pc = "clear" /\ pc' = "rewind" /\ Writing /\ Writing'
      /\ written' = written /\ head' = head /\ page_start' = page_start
      /\ cur_nand_write_page' = cur_nand_write_page
      /\ Flushed' = Flushed /\ InBuffer' = InBuffer
  BY DEF ClearBuffer, S, Flushed, InBuffer, progress, Writing
<1>1. TypeOK'
  BY <1>0 DEF ClearBuffer, TypeOK
<1>2. ShapeInv' /\ StartInv'
  BY <1>0 DEF ClearBuffer, ShapeInv, StartInv
<1>3. RoomInv' /\ LeftInv'
  BY <1>0 DEF RoomInv, LeftInv, Exact
<1>4. CleanInv'
  BY <1>0 DEF ClearBuffer, CleanInv
<1> QED BY <1>1, <1>2, <1>3, <1>4

LEMMA RewindCounts ==
  ASSUME CountInv, RewindBuffer
  PROVE  CountInv'
<1> USE DEF CountInv
<1>0. /\ S' = S /\ section' = section /\ dirty' = dirty
      /\ pc = "rewind" /\ pc' = "append" /\ Writing /\ Writing'
      /\ written' = written /\ head' = 0 /\ page_start' = page_start
      /\ cur_nand_write_page' = cur_nand_write_page
      /\ Flushed' = Flushed /\ InBuffer' = InBuffer
  BY DEF RewindBuffer, S, Flushed, InBuffer, progress, Writing
<1>1. TypeOK'
  BY <1>0, Ranges DEF RewindBuffer, TypeOK
<1>2. ShapeInv' /\ StartInv'
  BY <1>0 DEF RewindBuffer, ShapeInv, StartInv
<1>3. 0 = 0 * SizeOf[S] /\ 0 \in 0 .. ENTRIES_PER_PAGE(S)
      /\ 0 < ENTRIES_PER_PAGE(S)
  BY Ranges
<1>4. RoomInv'
  BY <1>0, <1>3 DEF RoomInv, Exact
<1>5. LeftInv'
  <2>1. SUFFICES ASSUME ~Exact PROVE LeftInv'
    BY <1>0 DEF LeftInv, Exact
  <2>2. /\ Flushed \in 0 .. PagesOf(S) + 1
        /\ \/ written >= (Flushed - 1) * ENTRIES_PER_PAGE(S)
           \/ written = CountOf[S]
    BY <1>0, <2>1 DEF LeftInv
  <2>3. ((Flushed - 1) * ENTRIES_PER_PAGE(S)) + 0
          = (Flushed - 1) * ENTRIES_PER_PAGE(S)
    BY Ranges
  <2>4. \E u \in Nat :
          /\ 0 = u * SizeOf[S]
          /\ \/ written >= ((Flushed - 1) * ENTRIES_PER_PAGE(S)) + u
             \/ u = 0 /\ written = CountOf[S]
    <3> WITNESS 0 \in Nat
    <3> QED BY <1>3, <2>2, <2>3
  <2> QED BY <1>0, <2>2, <2>4 DEF LeftInv
<1>6. CleanInv'
  BY <1>0 DEF RewindBuffer, CleanInv
<1> QED BY <1>1, <1>2, <1>4, <1>5, <1>6

LEMMA ClosedIsWhole ==
  ASSUME CountInv, CloseSection, Exact
  PROVE  Flushed = PagesOf(S)
<1> USE DEF CountInv
<1>1. /\ InBuffer \in Nat /\ 0 = InBuffer * SizeOf[S]
      /\ Flushed \in 0 .. PagesOf(S) /\ written = CountOf[S]
  BY Ranges DEF RoomInv, CloseSection, Writing
<1>2. InBuffer = 0
  BY <1>1, Ranges
<1>3. On(S, Flushed) = CountOf[S]
  <2>1. On(S, Flushed) \in 0 .. CountOf[S]
    BY <1>1, Ranges, OnPagesIs
  <2> QED BY <1>1, <1>2, <2>1, Ranges DEF InBuffer
<1> QED BY <1>1, <1>3, Ranges, AllPages

LEMMA CloseCounts ==
  ASSUME CountInv, CloseSection
  PROVE  CountInv'
<1> USE DEF CountInv
<1>0. /\ dirty' = dirty /\ pc = "append" /\ head = 0 /\ Writing
      /\ written = CountOf[S] /\ written' = written /\ head' = head
      /\ page_start' = page_start
      /\ cur_nand_write_page' = cur_nand_write_page
      /\ flash' = flash /\ l1_check_failed' = l1_check_failed
      /\ failures' = failures
  BY DEF CloseSection, buffer, Writing
<1>1. CASE section = Len(Sections)
  <2>1. pc' = "finished" /\ section' = section /\ S' = S
    BY <1>1 DEF CloseSection, S
  <2>2. TypeOK'
    BY <1>0, <2>1 DEF TypeOK
  <2>3. ShapeInv'
    BY <1>0, <1>1, <2>1 DEF ShapeInv
  <2>4. StartInv' /\ RoomInv' /\ LeftInv' /\ CleanInv'
    BY <1>0, <2>1 DEF StartInv, RoomInv, LeftInv, CleanInv, Writing
  <2> QED BY <2>2, <2>3, <2>4
<1>2. CASE section # Len(Sections)
  <2>1. pc' = "open" /\ section' = section + 1
    BY <1>2 DEF CloseSection
  <2>2. section \in 1 .. 7 /\ section + 1 \in 1 .. 8
    BY <1>2, Ranges, SectionNames
  <2>3. TypeOK'
    BY <1>0, <2>1, <2>2, SectionNames DEF TypeOK
  <2>4. ShapeInv'
    BY <1>0, <2>1 DEF ShapeInv
  <2>5. Base(section + 1) = PageStart[S] - PagesOf(S)
    BY <2>2, Ranges, SectionsFit
  <2>6. cur_nand_write_page = page_start[S] - Flushed
    BY Ranges DEF Flushed
  <2>7. ASSUME Exact PROVE Flushed = PagesOf(S)
    BY <2>7, ClosedIsWhole
  <2>8. ASSUME ~Exact
        PROVE  page_start[S] = PageStart[S] /\ Flushed <= PagesOf(S) + 1
    <3>1. section = 1 /\ Flushed \in 0 .. PagesOf(S) + 1
      BY <1>0, <2>8, Ranges DEF LeftInv, Exact
    <3> QED BY <3>1, <1>0, Ranges DEF StartInv
  <2>9. cur_nand_write_page >= Base(section + 1) - 1
    <3>1. CASE Exact
      <4>1. page_start[S] >= PageStart[S] - 1 /\ PageStart[S] \in Nat
        BY <1>0, Ranges DEF StartInv
      <4> QED BY <3>1, <4>1, <2>5, <2>6, <2>7, Ranges
    <3>2. CASE ~Exact
      <4>1. PageStart[S] \in Nat
        BY Ranges
      <4> QED BY <3>2, <4>1, <2>5, <2>6, <2>8, Ranges
    <3> QED BY <3>1, <3>2
  <2>10. StartInv'
    <3>1. ~dirty => cur_nand_write_page = Base(section + 1)
      <4>1. ~dirty => Exact /\ page_start[S] = PageStart[S]
        BY Ranges DEF Exact, CleanInv
      <4> QED BY <4>1, <2>5, <2>6, <2>7
    <3>2. section + 1 # 1
      BY <2>2
    <3> QED
      BY <1>0, <2>1, <2>9, <3>1, <3>2 DEF StartInv, Writing, Base
  <2>11. RoomInv' /\ LeftInv' /\ CleanInv'
    BY <1>0, <2>1 DEF RoomInv, LeftInv, CleanInv, Writing
  <2> QED BY <2>3, <2>4, <2>10, <2>11
<1> QED BY <1>1, <1>2

LEMMA FailCounts ==
  ASSUME CountInv, PowerFail
  PROVE  CountInv'
<1> USE DEF CountInv
<1>0. /\ pc' = "start" /\ section' = 1 /\ written' = 0
      /\ cur_nand_write_page' = FLASH_DATA_START_PAGE
      /\ page_start' = page_start /\ head' = head /\ flash' = flash
      /\ dirty' = dirty /\ l1_check_failed' = l1_check_failed
      /\ failures < MaxFailures /\ failures' = failures + 1
  BY DEF PowerFail, buffer
<1>1. TypeOK'
  <2>1. failures' \in 0 .. MaxFailures
    BY <1>0, SizesAssumption DEF TypeOK
  <2>2. 1 \in DOMAIN Sections /\ S' \in Names
    BY <1>0, SectionNames DEF S
  <2>3. 0 <= CountOf[S']
    BY <2>2, PerPage
  <2> QED BY <1>0, <2>1, <2>2, <2>3, PagesAssumption DEF TypeOK
<1>2. ShapeInv'
  BY <1>0 DEF ShapeInv
<1>3. StartInv' /\ RoomInv' /\ LeftInv' /\ CleanInv'
  BY <1>0 DEF StartInv, RoomInv, LeftInv, CleanInv, Writing
<1> QED BY <1>1, <1>2, <1>3

LEMMA BootCounts ==
  ASSUME CountInv, BootQueryBuild
  PROVE  CountInv'
<1> USE DEF CountInv
<1>0. /\ pc' = "serving" /\ S' = S
      /\ flash' = [p \in Pages |-> IF p \in ClearedPages THEN NoPage
                                   ELSE flash[p]]
      /\ UNCHANGED <<progress, page_start, buffer, l1_check_failed, failures,
                     dirty>>
  BY DEF BootQueryBuild, S, progress
<1>1. TypeOK'
  BY <1>0 DEF TypeOK, BootQueryBuild, progress, buffer
<1>2. ShapeInv'
  BY <1>0 DEF ShapeInv, progress
<1>3. StartInv' /\ RoomInv' /\ LeftInv' /\ CleanInv'
  BY <1>0 DEF StartInv, RoomInv, LeftInv, CleanInv, Writing
<1> QED BY <1>1, <1>2, <1>3

LEMMA InitCounts ==
  ASSUME Init
  PROVE  CountInv
<1>1. pc = "start" /\ section = 1 /\ S = "codebook"
  BY SectionNames DEF Init, S
<1>2. TypeOK
  <2>1. S \in Names /\ 1 \in DOMAIN Sections
    BY <1>1, SectionNames DEF S
  <2>2. 0 <= CountOf[S] /\ 0 \in 0 .. PAGE_SIZE /\ 0 \in 0 .. MaxFailures
    BY <2>1, PerPage, SizesAssumption
  <2> QED BY <1>1, <2>1, <2>2, PagesAssumption DEF Init, TypeOK
<1>3. ShapeInv
  BY PagesAssumption DEF Init, ShapeInv
<1>4. StartInv /\ RoomInv /\ LeftInv /\ CleanInv
  BY DEF Init, StartInv, RoomInv, LeftInv, CleanInv, Writing
<1> QED BY <1>2, <1>3, <1>4 DEF CountInv

LEMMA StepCounts ==
  ASSUME CountInv, [Next]_vars
  PROVE  CountInv'
<1>1. ASSUME UNCHANGED vars PROVE CountInv'
  BY <1>1
     DEF vars, progress, buffer, CountInv, TypeOK, ShapeInv, StartInv, RoomInv,
         LeftInv, CleanInv, Exact, Writing, Flushed, InBuffer, S
<1> QED
  BY <1>1, EraseCounts, OpenCounts, AppendCounts, FlushCounts, WriteCounts,
     ClearCounts, RewindCounts, CloseCounts, FailCounts, BootCounts
     DEF Next
-----------------------------------------------------------------------------
(***************************************************************************)
(* Only erased pages are programmed.                                       *)
(***************************************************************************)

LEMMA StepErased ==
  ASSUME CountInv, ErasedInv, [Next]_vars
  PROVE  ErasedInv'
<1> USE DEF ErasedInv
<1>0. /\ cur_nand_write_page \in Pages /\ Pages \subseteq Int
      /\ flash = [p \in Pages |-> flash[p]]
  BY SizesAssumption DEF CountInv, TypeOK, ShapeInv, Pages
<1>1. CASE EraseAll
  BY <1>1 DEF EraseAll
<1>2. CASE WritePage
  <2>1. SUFFICES ASSUME NEW p \in Pages, p <= cur_nand_write_page - 1
                 PROVE  flash'[p] = NoPage
    BY <1>2 DEF WritePage
  <2>2. p # cur_nand_write_page /\ p <= cur_nand_write_page
    BY <1>0, <2>1
  <2>3. flash'[p] = flash[p]
    BY <1>0, <1>2, <2>2 DEF WritePage
  <2> QED BY <1>2, <2>2, <2>3 DEF WritePage
<1>3. CASE BootQueryBuild
  BY <1>3 DEF BootQueryBuild, progress
<1>4. CASE PowerFail
  BY <1>4 DEF PowerFail
<1>5. CASE OpenSection \/ AppendEntry \/ FlushFirst \/ ClearBuffer
           \/ RewindBuffer \/ CloseSection
  BY <1>5
     DEF OpenSection, AppendEntry, FlushFirst, ClearBuffer, RewindBuffer,
         CloseSection, progress
<1>6. CASE UNCHANGED vars
  BY <1>6 DEF vars, progress
<1> QED BY <1>1, <1>2, <1>3, <1>4, <1>5, <1>6 DEF Next

LEMMA StepPrograms ==
  ASSUME CountInv, ErasedInv, [Next]_vars, NEW p \in Pages
  PROVE  flash'[p] \in {NoPage, flash[p]} \/ flash[p] = NoPage
<1>0. /\ cur_nand_write_page \in Pages /\ Pages \subseteq Int
      /\ flash = [q \in Pages |-> flash[q]]
  BY SizesAssumption DEF CountInv, TypeOK, ShapeInv, Pages
<1>1. CASE WritePage
  <2>1. flash[cur_nand_write_page] = NoPage
    BY <1>0, <1>1 DEF WritePage, ErasedInv
  <2>2. p # cur_nand_write_page => flash'[p] = flash[p]
    BY <1>0, <1>1 DEF WritePage
  <2> QED BY <2>1, <2>2
<1>2. CASE EraseAll \/ BootQueryBuild
  BY <1>2 DEF EraseAll, BootQueryBuild
<1>3. CASE OpenSection \/ AppendEntry \/ FlushFirst \/ ClearBuffer
           \/ RewindBuffer \/ CloseSection \/ PowerFail \/ UNCHANGED vars
  <2>1. flash' = flash
    BY <1>3
       DEF OpenSection, AppendEntry, FlushFirst, ClearBuffer, RewindBuffer,
           CloseSection, PowerFail, vars
  <2> QED BY <2>1
<1> QED BY <1>1, <1>2, <1>3 DEF Next
-----------------------------------------------------------------------------
(***************************************************************************)
(* What is where.                                                          *)
(***************************************************************************)

\* The pages of a section lie above the page to be written next, once they are
\* written, and above the blocks that are cleared.
LEMMA PagesAbove ==
  ASSUME NEW n \in 1 .. 8, NEW i \in 0 .. PagesOf(Sections[n]) - 1
  PROVE  /\ PageStart[Sections[n]] - i \in Pages \ ClearedPages
         /\ PageStart[Sections[n]] - i > End(n)
<1>1. /\ Base(n) = PageStart[Sections[n]] /\ Base(n) \in Pages
      /\ Base(n) \in Nat /\ End(n) \in Nat \ {0}
      /\ PagesOf(Sections[n]) \in Nat \ {0}
      /\ End(n) = Base(n) - PagesOf(Sections[n])
      /\ End(n) + 1 >= ClearedBlocks * PAGES_PER_BLOCK
  BY SectionsFit DEF Base, End
<1> DEFINE p == Base(n) - i
           B == ClearedBlocks * PAGES_PER_BLOCK
           N == (PAGES_PER_BLOCK * BLOCKS_PER_PLANE) - 1
<1>2. p \in Nat /\ p > End(n) /\ p <= Base(n)
  BY <1>1
<1>3. B \in Nat /\ N \in Int
  BY SizesAssumption
<1>4. Pages = 0 .. N /\ ClearedPages = 0 .. B - 1
  BY DEF Pages, ClearedPages
<1> HIDE DEF p, B, N
<1>5. p \in Pages
  BY <1>1, <1>2, <1>3, <1>4
<1>6. p >= B
  BY <1>1, <1>2, <1>3 DEF B
<1>7. p \notin ClearedPages
  BY <1>3, <1>4, <1>6
<1> QED BY <1>1, <1>2, <1>5, <1>7 DEF p

LEMMA EntryPlaced ==
  ASSUME page_start = PageStart, NEW s, NEW v
  PROVE  Entry(s, v) = Placed(s, v)
BY DEF Entry, Placed, AddressIn

\* A step that neither writes to the flash nor closes a section.
LEMMA SameData ==
  ASSUME DataInv, flash' = flash, ~dirty' => ~dirty,
         ~dirty' => Closed' \subseteq Closed,
         Writing' => Writing /\ S' = S /\ Flushed' = Flushed,
         pc' \in {"append", "write"} =>
           pc \in {"append", "write"} /\ InBuffer' = InBuffer
           /\ buf_flash_flush' = buf_flash_flush
  PROVE  DataInv'
<1>1. SUFFICES ASSUME ~dirty' PROVE DataInv'
  BY DEF DataInv
<1>2. ASSUME NEW n \in Closed', NEW i \in 0 .. PagesOf(Sections[n]) - 1
      PROVE  InFlash(Sections[n], i)'
  BY <1>1, <1>2 DEF DataInv, InFlash
<1>3. ASSUME Writing', NEW i \in 0 .. Flushed' - 1
      PROVE  InFlash(S, i)'
  BY <1>1, <1>3 DEF DataInv, InFlash
<1>4. ASSUME pc' \in {"append", "write"}, NEW r \in 0 .. InBuffer' - 1
      PROVE  Slot(buf_flash_flush, S, Flushed, r)'
  BY <1>1, <1>4 DEF DataInv, Slot, Writing
<1> QED BY <1>1, <1>2, <1>3, <1>4 DEF DataInv

LEMMA AppendData ==
  ASSUME CountInv, DataInv, AppendEntry, CountInv'
  PROVE  DataInv'
<1> USE DEF CountInv
<1> DEFINE z == SizeOf[S]
           g == Flushed
           u == InBuffer
<1>0. /\ S' = S /\ section' = section /\ dirty' = dirty
      /\ pc = "append" /\ written < CountOf[S]
      /\ page_start' = page_start /\ flash' = flash
      /\ cur_nand_write_page' = cur_nand_write_page
      /\ Flushed' = Flushed /\ Writing
  BY DEF AppendEntry, S, Flushed, Writing
<1>1. SUFFICES ASSUME ~dirty PROVE DataInv'
  BY <1>0 DEF DataInv
<1>2. /\ ~(head + SizeOf[S] > PAGE_SIZE) /\ pc' \in {"append", "write"}
      /\ written' = written + 1
      /\ buf_flash_flush' =
           [o \in 0 .. PAGE_SIZE - 1 |->
             IF o \in head .. head + SizeOf[S] - 1
             THEN Bytes(S, written)[o - head] ELSE buf_flash_flush[o]]
  BY <1>0, <1>1 DEF AppendEntry, CleanInv
<1>3. Writing' /\ Closed' = Closed
  BY <1>0, <1>2 DEF Writing, Closed
<1>room. /\ head \in Nat /\ PAGE_SIZE \in Nat /\ z \in Nat
         /\ head + z <= PAGE_SIZE
  BY <1>2, Ranges
<1>4. /\ u \in 0 .. ENTRIES_PER_PAGE(S) /\ head = u * z
      /\ g \in 0 .. PagesOf(S) /\ page_start = PageStart
  BY <1>0, <1>1 DEF RoomInv, Exact, CleanInv
<1>5. On(S, g) = g * ENTRIES_PER_PAGE(S) /\ On(S, g) \in Nat
      /\ written = On(S, g) + u
  <2>1. On(S, g) \in 0 .. CountOf[S]
    BY <1>4, Ranges, OnPagesIs
  <2>2. written = On(S, g) + u
    BY <2>1, Ranges DEF InBuffer
  <2> HIDE DEF g, u
  <2>3. written \in 0 .. CountOf[S] /\ written >= On(S, g)
    BY <1>0, <1>4, <2>1, <2>2, Ranges
  <2> QED BY <1>0, <1>4, <2>1, <2>2, <2>3, Ranges, MorePages
<1>6. InBuffer' = u + 1
  <2>1. InBuffer' = (written + 1) - On(S, g)
    BY <1>0, <1>2 DEF InBuffer
  <2> QED BY <2>1, <1>4, <1>5, Ranges
<1>7. ASSUME NEW r \in 0 .. u
      PROVE  Slot(buf_flash_flush', S, g, r)
  <2>1. SUFFICES ASSUME NEW k \in 0 .. z - 1
                 PROVE  buf_flash_flush'[(r * z) + k]
                          = <<Placed(S, (g * ENTRIES_PER_PAGE(S)) + r), k>>
    BY DEF Slot
  <2> DEFINE o == (r * z) + k
  <2>2. r * z \in Nat /\ r \in Nat /\ k \in Nat /\ z \in Nat /\ u \in Nat
        /\ o \in Nat
    BY <1>4, <1>7, Ranges
  <2>3. CASE r = u
    <3>1. o = head + k
      BY <1>4, <2>3
    <3>2. /\ o \in head .. head + z - 1 /\ o - head = k
          /\ o \in 0 .. PAGE_SIZE - 1
      <4> HIDE DEF o, z
      <4> QED BY <1>room, <2>1, <2>2, <3>1
    <3>3. buf_flash_flush'[o] = Bytes(S, written)[k]
      BY <1>2, <3>2
    <3>4. Bytes(S, written)[k] = <<Entry(S, written), k>>
      BY DEF Bytes
    <3>5. Entry(S, written) = Placed(S, (g * ENTRIES_PER_PAGE(S)) + r)
      BY <1>4, <1>5, <2>3, EntryPlaced
    <3> QED BY <3>3, <3>4, <3>5
  <2>4. CASE r # u
    <3> HIDE DEF u, g
    <3>1. r + 1 <= u
      BY <1>7, <2>2, <2>4
    <3>2. (u - (r + 1)) * z >= 0
      BY <2>2, <3>1
    <3>3. (u * z) - ((r * z) + z) = (u - (r + 1)) * z
      BY <2>2
    <3>4. o < head
      <4> DEFINE a == r * z
                 b == u * z
      <4>1. a \in Nat /\ b \in Nat /\ b >= a + z /\ head = b /\ o = a + k
        BY <1>4, <2>2, <3>2, <3>3
      <4> HIDE DEF a, b
      <4> QED BY <4>1, <2>2
    <3>5. o \in 0 .. PAGE_SIZE - 1 /\ o \notin head .. head + z - 1
      <4> HIDE DEF o, z
      <4> QED BY <1>room, <2>2, <3>4
    <3>6. buf_flash_flush'[o] = buf_flash_flush[o]
      BY <1>2, <3>5
    <3>7. r \in 0 .. u - 1
      BY <1>4, <2>2, <3>1
    <3>8. Slot(buf_flash_flush, S, g, r)
      BY <1>0, <1>1, <3>7 DEF DataInv, u, g
    <3> QED BY <3>6, <3>8 DEF Slot
  <2> QED BY <2>3, <2>4
<1>8. ASSUME NEW n \in Closed', NEW i \in 0 .. PagesOf(Sections[n]) - 1
      PROVE  InFlash(Sections[n], i)'
  BY <1>0, <1>1, <1>3, <1>8 DEF DataInv, InFlash
<1>9. ASSUME NEW i \in 0 .. Flushed' - 1
      PROVE  InFlash(S, i)'
  BY <1>0, <1>1, <1>9 DEF DataInv, InFlash
<1>10. ASSUME NEW r \in 0 .. InBuffer' - 1
       PROVE  Slot(buf_flash_flush, S, Flushed, r)'
  <2>1. r \in 0 .. u
    <3> HIDE DEF u
    <3> QED BY <1>4, <1>6, <1>10, Ranges
  <2>2. Slot(buf_flash_flush', S, g, r)
    BY <1>7, <2>1
  <2> QED BY <2>2, <1>0 DEF Slot
<1> QED BY <1>8, <1>9, <1>10 DEF DataInv

LEMMA WriteData ==
  ASSUME CountInv, DataInv, WritePage
  PROVE  DataInv'
<1> USE DEF CountInv
<1> DEFINE E == ENTRIES_PER_PAGE(S)
           g == Flushed
           u == InBuffer
<1>0. /\ S' = S /\ section' = section /\ dirty' = dirty
      /\ pc = "write" /\ pc' = "clear" /\ Writing /\ Writing'
      /\ page_start' = page_start
      /\ cur_nand_write_page' = cur_nand_write_page - 1
      /\ flash' = [flash EXCEPT ![cur_nand_write_page] = buf_flash_flush]
  BY DEF WritePage, S, Writing
<1>1. SUFFICES ASSUME ~dirty PROVE DataInv'
  BY <1>0 DEF DataInv
<1>2. /\ g \in Nat /\ u \in 1 .. E /\ (u = E \/ written = CountOf[S])
      /\ g \in 0 .. PagesOf(S) /\ page_start[S] = PageStart[S]
  BY <1>0, <1>1, Ranges DEF RoomInv, Exact, CleanInv
<1>3. cur_nand_write_page = PageStart[S] - g /\ cur_nand_write_page \in Pages
  BY <1>2, Ranges DEF Flushed, TypeOK
<1>4. Flushed' = g + 1
  BY <1>0, Ranges DEF Flushed
<1>5. On(S, g) = g * E /\ written = (g * E) + u
  <2>1. On(S, g) \in 0 .. CountOf[S]
    BY <1>2, Ranges, OnPagesIs
  <2>2. written = On(S, g) + u
    BY <2>1, Ranges DEF InBuffer
  <2>3. written \in 0 .. CountOf[S] /\ written > On(S, g)
    <3> HIDE DEF u, g
    <3> QED BY <1>0, <1>2, <2>1, <2>2, Ranges DEF TypeOK
  <2> HIDE DEF g, u
  <2>4. On(S, g) = g * E
    BY <1>2, <2>3, Ranges, MorePages
  <2> QED BY <2>2, <2>4
<1>6. ASSUME NEW p \in Pages, p # cur_nand_write_page
      PROVE  flash'[p] = flash[p]
  BY <1>0, <1>6 DEF ShapeInv
<1>7. flash'[PageStart[S] - g] = buf_flash_flush
  <2>1. cur_nand_write_page \in DOMAIN flash
    BY <1>3 DEF ShapeInv
  <2> QED BY <1>0, <1>3, <2>1
<1>8. ASSUME NEW n \in Closed', NEW i \in 0 .. PagesOf(Sections[n]) - 1
      PROVE  InFlash(Sections[n], i)'
  <2>1. n \in 1 .. 8 /\ n < section /\ n \in Closed
    BY <1>0, <1>8, SectionNames DEF Closed, Writing
  <2>2. PageStart[Sections[n]] - i \in Pages
        /\ PageStart[Sections[n]] - i > End(n)
    BY <2>1, PagesAbove
  <2>3. /\ End(n) >= Base(section) /\ End(n) \in Nat
        /\ Base(section) = PageStart[S]
    BY <2>1, Ranges, SectionsFit
  <2>4. PageStart[Sections[n]] - i # cur_nand_write_page
    <3> HIDE DEF g
    <3> QED BY <1>2, <1>3, <2>2, <2>3, Ranges
  <2>5. flash'[PageStart[Sections[n]] - i] = flash[PageStart[Sections[n]] - i]
    BY <1>6, <2>2, <2>4
  <2>6. InFlash(Sections[n], i)
    BY <1>1, <2>1 DEF DataInv
  <2> QED BY <2>5, <2>6 DEF InFlash
<1>9. ASSUME NEW i \in 0 .. g - 1
      PROVE  InFlash(S, i)'
  <2>1. i \in 0 .. PagesOf(S) - 1 /\ i # g
    BY <1>2, Ranges
  <2>2. PageStart[S] - i \in Pages
    <3>1. i \in 0 .. PagesOf(Sections[section]) - 1
      BY <2>1 DEF S
    <3> QED BY <3>1, Ranges, PagesAbove DEF S
  <2>3. PageStart[S] - i # cur_nand_write_page
    <3>1. PageStart[S] \in Nat
      BY Ranges
    <3> QED BY <1>2, <1>3, <2>1, <3>1
  <2>4. flash'[PageStart[S] - i] = flash[PageStart[S] - i]
    BY <1>6, <2>2, <2>3
  <2>5. InFlash(S, i)
    BY <1>0, <1>1 DEF DataInv
  <2> QED BY <1>0, <2>4, <2>5 DEF InFlash
<1>10. ASSUME NEW i, i = g
       PROVE  InFlash(S, i)'
  <2>1. SUFFICES ASSUME NEW r \in 0 .. E - 1, (g * E) + r < CountOf[S]
                 PROVE  Slot(buf_flash_flush, S, g, r)
    BY <1>0, <1>7, <1>10 DEF InFlash
  <2>2. r \in 0 .. u - 1
    <3> DEFINE p == g * E
    <3>1. p \in Nat /\ E \in Nat
      BY <1>2, Ranges
    <3>2. written = p + u /\ p + r < CountOf[S]
      BY <1>5, <2>1
    <3> HIDE DEF p, u, E
    <3> QED BY <1>2, <3>1, <3>2, <2>1, Ranges
  <2> QED BY <1>0, <1>1, <2>2 DEF DataInv
<1>11. ASSUME NEW i \in 0 .. Flushed' - 1
       PROVE  InFlash(S, i)'
  <2>1. i \in 0 .. (g + 1) - 1
    BY <1>4, <1>11
  <2>2. i = g \/ i \in 0 .. g - 1
    <3> HIDE DEF g
    <3> QED BY <1>2, <2>1
  <2> QED BY <2>2, <1>9, <1>10
<1> QED BY <1>0, <1>8, <1>11 DEF DataInv

LEMMA CloseData ==
  ASSUME CountInv, DataInv, CloseSection
  PROVE  DataInv'
<1> USE DEF CountInv
<1>0. /\ flash' = flash /\ dirty' = dirty /\ page_start' = page_start
      /\ pc = "append" /\ Writing /\ pc' \in {"open", "finished"}
      /\ pc' = "open" => section' = section + 1
      /\ pc' = "finished" => section = 8
  BY SectionNames DEF CloseSection, Writing
<1>1. SUFFICES ASSUME ~dirty,
                      NEW n \in Closed',
                      NEW i \in 0 .. PagesOf(Sections[n]) - 1
               PROVE  InFlash(Sections[n], i)'
  BY <1>0 DEF DataInv, Writing
<1>2. n \in 1 .. 8 /\ n <= section
  <2>1. n \in 1 .. 8 /\ ((pc' = "open" /\ n < section') \/ pc' = "finished")
    BY <1>0, <1>1, SectionNames DEF Closed, Writing
  <2> QED BY <1>0, <2>1, Ranges
<1>3. InFlash(Sections[n], i)
  <2>1. CASE n = section
    <3>1. Flushed = PagesOf(S)
      BY <1>1, ClosedIsWhole DEF Exact
    <3> QED BY <1>0, <1>1, <2>1, <3>1 DEF DataInv, S
  <2>2. CASE n # section
    <3>1. n \in Closed
      BY <1>0, <1>2, <2>2, Ranges, SectionNames DEF Closed
    <3> QED BY <1>1, <3>1 DEF DataInv
  <2> QED BY <2>1, <2>2
<1> QED BY <1>0, <1>3 DEF InFlash

LEMMA BootData ==
  ASSUME CountInv, DataInv, BootQueryBuild
  PROVE  DataInv'
<1>0. /\ pc = "finished" /\ pc' = "serving" /\ dirty' = dirty
      /\ flash' = [p \in Pages |-> IF p \in ClearedPages THEN NoPage
                                   ELSE flash[p]]
  BY DEF BootQueryBuild
<1>1. SUFFICES ASSUME ~dirty,
                      NEW n \in Closed',
                      NEW i \in 0 .. PagesOf(Sections[n]) - 1
               PROVE  InFlash(Sections[n], i)'
  BY <1>0 DEF DataInv, Writing
<1>2. n \in 1 .. 8 /\ n \in Closed
  BY <1>0, <1>1, SectionNames DEF Closed
<1>3. InFlash(Sections[n], i)
  BY <1>1, <1>2 DEF DataInv
<1>4. flash'[PageStart[Sections[n]] - i] = flash[PageStart[Sections[n]] - i]
  <2>1. PageStart[Sections[n]] - i \in Pages \ ClearedPages
    BY <1>2, PagesAbove
  <2> QED BY <1>0, <2>1
<1> QED BY <1>3, <1>4 DEF InFlash

LEMMA StepData ==
  ASSUME CountInv, DataInv, [Next]_vars, CountInv'
  PROVE  DataInv'
<1> USE DEF CountInv
<1>1. CASE EraseAll
  <2>1. /\ pc' = "open" /\ section' = 1
    BY <1>1 DEF EraseAll, ShapeInv, progress
  <2>2. Closed' = {}
    BY <2>1, SectionNames DEF Closed, Writing
  <2> QED BY <2>1, <2>2 DEF DataInv, Writing
<1>2. CASE OpenSection
  <2>1. /\ pc = "open" /\ pc' = "append" /\ section' = section /\ S' = S
        /\ flash' = flash /\ dirty' = dirty /\ written' = 0
        /\ cur_nand_write_page' = cur_nand_write_page
        /\ page_start' = [page_start EXCEPT ![S] = cur_nand_write_page]
    BY <1>2 DEF OpenSection, S
  <2>2. Closed' = Closed
    BY <2>1 DEF Closed, Writing
  <2>3. Flushed' = 0 /\ InBuffer' = 0
    <3>1. page_start'[S] = cur_nand_write_page
      BY <2>1, Ranges DEF ShapeInv
    <3>2. Flushed' = 0
      BY <2>1, <3>1, Ranges DEF Flushed
    <3>3. On(S, 0) = 0
      BY Ranges DEF On
    <3> QED BY <2>1, <3>2, <3>3 DEF InBuffer
  <2>4. ASSUME ~dirty, NEW n \in Closed,
               NEW i \in 0 .. PagesOf(Sections[n]) - 1
        PROVE  InFlash(Sections[n], i)'
    BY <2>1, <2>4 DEF DataInv, InFlash
  <2>5. 0 .. 0 - 1 = {}
    OBVIOUS
  <2> QED BY <2>1, <2>2, <2>3, <2>4, <2>5 DEF DataInv
<1>3. CASE AppendEntry
  BY <1>3, AppendData
<1>4. CASE FlushFirst
  <2>1. /\ pc = "append" /\ pc' = "write" /\ section' = section
        /\ flash' = flash /\ dirty' = dirty /\ S' = S /\ Flushed' = Flushed
        /\ InBuffer' = InBuffer /\ buf_flash_flush' = buf_flash_flush
    BY <1>4 DEF FlushFirst, progress, buffer, S, Flushed, InBuffer
  <2>2. Closed' = Closed /\ Writing
    BY <2>1 DEF Closed, Writing
  <2> QED BY <2>1, <2>2, SameData
<1>5. CASE WritePage
  BY <1>5, WriteData
<1>6. CASE ClearBuffer
  <2>1. /\ pc = "clear" /\ pc' = "rewind" /\ section' = section
        /\ flash' = flash /\ dirty' = dirty /\ S' = S /\ Flushed' = Flushed
    BY <1>6 DEF ClearBuffer, progress, S, Flushed
  <2>2. Closed' = Closed /\ Writing
    BY <2>1 DEF Closed, Writing
  <2> QED BY <2>1, <2>2, SameData
<1>7. CASE RewindBuffer
  <2>1. /\ pc = "rewind" /\ pc' = "append" /\ section' = section
        /\ flash' = flash /\ dirty' = dirty /\ S' = S /\ Flushed' = Flushed
        /\ InBuffer' = InBuffer /\ Writing /\ Writing'
    BY <1>7 DEF RewindBuffer, progress, S, Flushed, InBuffer, Writing
  <2>2. Closed' = Closed
    BY <2>1 DEF Closed, Writing
  <2>3. SUFFICES ASSUME ~dirty PROVE DataInv'
    BY <2>1 DEF DataInv
  <2>4. InBuffer' = 0
    BY <2>1, <2>3 DEF RoomInv, Exact
  <2>5. ASSUME NEW n \in Closed, NEW i \in 0 .. PagesOf(Sections[n]) - 1
        PROVE  InFlash(Sections[n], i)'
    BY <2>1, <2>3, <2>5 DEF DataInv, InFlash
  <2>6. ASSUME NEW i \in 0 .. Flushed - 1
        PROVE  InFlash(S, i)'
    BY <2>1, <2>3, <2>6 DEF DataInv, InFlash
  <2>7. 0 .. 0 - 1 = {}
    OBVIOUS
  <2> QED BY <2>1, <2>2, <2>4, <2>5, <2>6, <2>7 DEF DataInv
<1>8. CASE CloseSection
  BY <1>8, CloseData
<1>9. CASE PowerFail
  <2>1. pc' = "start"
    BY <1>9 DEF PowerFail
  <2>2. Closed' = {} /\ ~Writing'
    BY <2>1 DEF Closed, Writing
  <2> QED BY <2>1, <2>2 DEF DataInv
<1>10. CASE BootQueryBuild
  BY <1>10, BootData
<1>11. CASE UNCHANGED vars
  <2>1. /\ pc' = pc /\ section' = section /\ flash' = flash /\ dirty' = dirty
        /\ S' = S /\ Flushed' = Flushed /\ InBuffer' = InBuffer
        /\ buf_flash_flush' = buf_flash_flush
    BY <1>11 DEF vars, progress, buffer, S, Flushed, InBuffer
  <2>2. Closed' = Closed /\ Writing' = Writing
    BY <2>1 DEF Closed, Writing
  <2> QED BY <2>1, <2>2, SameData
<1> QED
  BY <1>1, <1>2, <1>3, <1>4, <1>5, <1>6, <1>7, <1>8, <1>9, <1>10, <1>11
     DEF Next
-----------------------------------------------------------------------------
(***************************************************************************)
(* The query build finds it.                                               *)
(***************************************************************************)

LEMMA Quotient ==
  ASSUME NEW v \in Nat, NEW e \in Nat \ {0}
  PROVE  /\ v \div e \in Nat /\ v % e \in 0 .. e - 1
         /\ v = ((v \div e) * e) + (v % e)
OBVIOUS

\* Entry v of s is on page v div E, in place v mod E.
LEMMA PlaceOf ==
  ASSUME NEW s \in Names, NEW v \in 0 .. CountOf[s] - 1,
         NEW k \in 0 .. SizeOf[s] - 1
  PROVE  /\ v \div ENTRIES_PER_PAGE(s) \in 0 .. PagesOf(s) - 1
         /\ v % ENTRIES_PER_PAGE(s) \in 0 .. ENTRIES_PER_PAGE(s) - 1
         /\ v = ((v \div ENTRIES_PER_PAGE(s)) * ENTRIES_PER_PAGE(s))
                  + (v % ENTRIES_PER_PAGE(s))
         /\ CALC_ENTRY_OFFSET(v, s) \in Nat
         /\ CALC_ENTRY_OFFSET(v, s) + k \in 0 .. PAGE_SIZE - 1
<1> DEFINE e == ENTRIES_PER_PAGE(s)
           z == SizeOf[s]
           i == v \div e
           r == v % e
<1>1. e \in Nat \ {0} /\ z \in Nat \ {0} /\ CountOf[s] \in Nat
      /\ PAGE_SIZE \in Nat
  BY PerPage, SizesAssumption
<1>2. v \in Nat /\ v < CountOf[s]
  BY <1>1
<1>3. i \in Nat /\ r \in 0 .. e - 1 /\ v = (i * e) + r
  <2> HIDE DEF e
  <2> QED BY <1>1, <1>2, Quotient
<1>4. CALC_ENTRY_OFFSET(v, s) = r * z
  BY DEF CALC_ENTRY_OFFSET
<1>5. PagesOf(s) \in Nat /\ (i * e < CountOf[s] => i < PagesOf(s))
  <2> HIDE DEF i
  <2> QED BY <1>3, PageCount
<1>6. r + 1 <= e => (r + 1) * z <= PAGE_SIZE
  <2> HIDE DEF r
  <2>1. r \in Nat
    BY <1>1, <1>3
  <2> QED BY <2>1, PerPage
<1> HIDE DEF e, z, i, r
<1>7. r \in Nat /\ r + 1 <= e /\ (r + 1) * z = (r * z) + z /\ r * z \in Nat
  BY <1>1, <1>3
<1>8. (r * z) + k \in 0 .. PAGE_SIZE - 1
  <2>1. k \in 0 .. z - 1
    BY DEF z
  <2> QED BY <1>1, <1>6, <1>7, <2>1
<1>9. i < PagesOf(s)
  <2> DEFINE p == i * e
  <2>1. p \in Nat /\ v = p + r
    BY <1>1, <1>3
  <2> HIDE DEF p
  <2>2. p < CountOf[s]
    BY <1>1, <1>2, <1>7, <2>1
  <2> QED BY <1>5, <2>2 DEF p
<1>10. i \in 0 .. PagesOf(s) - 1
  BY <1>3, <1>5, <1>9
<1> QED BY <1>3, <1>4, <1>7, <1>8, <1>10 DEF e, z, i, r

\* A read within a page.
LEMMA ReadWithin ==
  ASSUME NEW row \in Pages, NEW col \in Nat, NEW k \in Nat,
         col + k \in 0 .. PAGE_SIZE - 1
  PROVE  ReadByte(row, col, k) = flash[row][col + k]
<1>1. PAGE_SIZE \in Nat \ {0} /\ row \in Int
  BY SizesAssumption DEF Pages
<1>2. (col + k) \div PAGE_SIZE = 0 /\ (col + k) % PAGE_SIZE = col + k
  BY <1>1
<1>3. row + 0 = row
  BY <1>1
<1> QED BY <1>2, <1>3 DEF ReadByte

\* Every entry is where CALC_ENTRY_PAGE and CALC_ENTRY_OFFSET say.
LEMMA EntryThere ==
  ASSUME DataInv, pc = "serving", ~dirty,
         NEW s \in Names, NEW v \in 0 .. CountOf[s] - 1,
         NEW k \in 0 .. SizeOf[s] - 1
  PROVE  /\ CALC_ENTRY_PAGE(PageStart[s], v, s) \in Pages
         /\ flash[CALC_ENTRY_PAGE(PageStart[s], v, s)]
                 [CALC_ENTRY_OFFSET(v, s) + k] = <<Placed(s, v), k>>
         /\ ReadByte(CALC_ENTRY_PAGE(PageStart[s], v, s),
                     CALC_ENTRY_OFFSET(v, s), k) = <<Placed(s, v), k>>
<1> DEFINE e == ENTRIES_PER_PAGE(s)
           i == v \div e
           r == v % e
<1>1. PICK n \in 1 .. 8 : Sections[n] = s
  BY SectionNames DEF Names
<1>2. /\ i \in 0 .. PagesOf(s) - 1 /\ r \in 0 .. e - 1 /\ v = (i * e) + r
      /\ CALC_ENTRY_OFFSET(v, s) \in Nat
      /\ CALC_ENTRY_OFFSET(v, s) + k \in 0 .. PAGE_SIZE - 1
  BY PlaceOf
<1>3. CALC_ENTRY_OFFSET(v, s) = r * SizeOf[s]
      /\ CALC_ENTRY_PAGE(PageStart[s], v, s) = PageStart[s] - i
  BY DEF CALC_ENTRY_OFFSET, CALC_ENTRY_PAGE
<1> HIDE DEF e, i, r
<1>4. PageStart[s] - i \in Pages
  BY <1>1, <1>2, PagesAbove
<1>5. InFlash(s, i)
  <2>1. n \in Closed
    BY SectionNames DEF Closed
  <2> QED BY <1>1, <1>2, <2>1 DEF DataInv
<1>6. v < CountOf[s]
  BY PerPage
<1>7. Slot(flash[PageStart[s] - i], s, i, r)
  BY <1>2, <1>5, <1>6 DEF InFlash, e
<1>8. flash[PageStart[s] - i][(r * SizeOf[s]) + k] = <<Placed(s, v), k>>
  BY <1>2, <1>7 DEF Slot, e
<1>9. k \in Nat
  BY PerPage
<1>10. ReadByte(PageStart[s] - i, CALC_ENTRY_OFFSET(v, s), k)
         = flash[PageStart[s] - i][CALC_ENTRY_OFFSET(v, s) + k]
  BY <1>2, <1>4, <1>9, ReadWithin
<1> QED BY <1>3, <1>4, <1>8, <1>10

\* The fields of an address are wide enough.
LEMMA AddressIs ==
  ASSUME NEW p \in Pages, NEW o \in 0 .. PAGE_SIZE - 1
  PROVE  /\ (Address(p, o).block * PAGES_PER_BLOCK) + Address(p, o).page = p
         /\ Address(p, o).offset = o
<1> DEFINE N == PAGES_PER_BLOCK
           b == p \div N
           q == p % N
<1>1. N \in Nat \ {0} /\ PAGE_SIZE \in Nat \ {0} /\ BLOCKS_PER_PLANE \in Nat
      /\ p \in Nat /\ p < N * BLOCKS_PER_PLANE
  BY SizesAssumption DEF Pages
<1>2. b \in Nat /\ q \in 0 .. N - 1 /\ p = (b * N) + q
  <2> HIDE DEF N
  <2> QED BY <1>1, Quotient
<1>3. b < BLOCKS_PER_PLANE
  <2> HIDE DEF b, q, N
  <2>1. SUFFICES ASSUME b >= BLOCKS_PER_PLANE PROVE FALSE
    BY <1>1, <1>2
  <2>2. (b - BLOCKS_PER_PLANE) * N >= 0
    BY <1>1, <1>2, <2>1
  <2>3. (b - BLOCKS_PER_PLANE) * N = (b * N) - (N * BLOCKS_PER_PLANE)
    BY <1>1, <1>2
  <2> QED BY <1>1, <1>2, <2>2, <2>3
<1>4. b % BLOCKS_PER_PLANE = b
  <2> HIDE DEF b
  <2> QED BY <1>1, <1>2, <1>3
<1>5. o % PAGE_SIZE = o
  BY <1>1
<1>6. /\ Address(p, o).block = b /\ Address(p, o).page = q
      /\ Address(p, o).offset = o
  BY <1>4, <1>5 DEF Address
<1> QED BY <1>2, <1>6

LEMMA FindsThere ==
  ASSUME DataInv, pc = "serving", ~dirty,
         NEW s \in {"fullvec", "neighbor"}, NEW v \in 0 .. CountOf["L1"] - 1
  PROVE  Finds(s, v)
<1>1. s \in Names /\ "L1" \in Names /\ CountOf[s] = CountOf["L1"] /\ s # "L1"
  <2>1. "fullvec" \in Names /\ "neighbor" \in Names /\ "L1" \in Names
    BY SectionNames
  <2>2. /\ CountOf["L1"] = CountOf["fullvec"]
        /\ CountOf["L1"] = CountOf["neighbor"]
    BY LayoutAssumption DEF Layout
  <2> QED BY <2>1, <2>2
<1>2. v \in 0 .. CountOf[s] - 1
  BY <1>1
<1>3. MappingOf(v) = <<Placed("L1", v), 0>>
  <2>1. 0 \in 0 .. SizeOf["L1"] - 1
    BY <1>1, PerPage
  <2>2. MappingOf(v) = ReadByte(CALC_ENTRY_PAGE(PageStart["L1"], v, "L1"),
                                CALC_ENTRY_OFFSET(v, "L1"), 0)
    BY DEF MappingOf, L0_mapping_table, CALC_ENTRY_PAGE
  <2> QED BY <1>1, <2>1, <2>2, EntryThere
<1> DEFINE m == MappingOf(v)
           p == CALC_ENTRY_PAGE(PageStart[s], v, s)
           o == CALC_ENTRY_OFFSET(v, s)
<1>4. m # Blank /\ m[1] = Placed("L1", v)
  BY <1>3 DEF Blank
<1>5. m[1].in = "L1" /\ m[1][s] = Address(p, o)
  BY <1>4 DEF Placed
<1>6. p \in Pages /\ o \in 0 .. PAGE_SIZE - 1
  <2>1. 0 \in 0 .. SizeOf[s] - 1
    BY <1>1, PerPage
  <2>2. p \in Pages
    BY <1>1, <1>2, <2>1, EntryThere
  <2>3. o \in Nat /\ o + 0 \in 0 .. PAGE_SIZE - 1
    BY <1>1, <1>2, <2>1, PlaceOf
  <2> HIDE DEF o
  <2> QED BY <2>2, <2>3
<1>7. Placed(s, v) = [in |-> s, id |-> v]
  BY <1>1 DEF Placed
<1> HIDE DEF p, o
<1>8. (m[1][s].block * PAGES_PER_BLOCK) + m[1][s].page = p
      /\ m[1][s].offset = o
  BY <1>5, <1>6, AddressIs
<1>9. Holds(p, o, [in |-> s, id |-> v], SizeOf[s])
  <2>1. \A k \in 0 .. SizeOf[s] - 1 : ReadByte(p, o, k) = <<Placed(s, v), k>>
    BY <1>1, <1>2, EntryThere DEF p, o
  <2> QED BY <1>7, <2>1 DEF Holds
<1> QED BY <1>4, <1>5, <1>8, <1>9 DEF Finds, m

LEMMA ArrayThere ==
  ASSUME DataInv, pc = "serving", ~dirty,
         NEW s \in {"codebook", "mean", "query", "longbook"}
  PROVE  FindsArray(s)
<1> DEFINE e == ENTRIES_PER_PAGE(s)
           z == SizeOf[s]
<1>1. s \in Names /\ PAGE_SIZE % z = 0 /\ s # "L1"
  BY SectionNames, LayoutAssumption DEF Layout
<1>2. e \in Nat \ {0} /\ z \in Nat \ {0} /\ PAGE_SIZE \in Nat \ {0}
  BY <1>1, PerPage, SizesAssumption
<1>3. PAGE_SIZE = e * z
  <2>1. PAGE_SIZE = (e * z) + (PAGE_SIZE % z)
    <3> HIDE DEF z
    <3>1. e = PAGE_SIZE \div z
      BY DEF ENTRIES_PER_PAGE, z
    <3> QED BY <1>2, <3>1, Quotient
  <2> QED BY <1>1, <1>2, <2>1
<1>4. SUFFICES ASSUME NEW v \in 0 .. CountOf[s] - 1, NEW k \in 0 .. z - 1
               PROVE  LET at == (v * z) + k
                      IN ReadByte(PageStart[s] - (at \div PAGE_SIZE),
                                  at % PAGE_SIZE, 0)
                           = <<[in |-> s, id |-> v], k>>
  BY DEF FindsArray
<1> DEFINE at == (v * z) + k
           i == v \div e
           r == v % e
           c == (r * z) + k
<1>5. /\ i \in 0 .. PagesOf(s) - 1 /\ r \in 0 .. e - 1 /\ v = (i * e) + r
      /\ CALC_ENTRY_OFFSET(v, s) \in Nat
      /\ CALC_ENTRY_OFFSET(v, s) + k \in 0 .. PAGE_SIZE - 1
  BY <1>1, PlaceOf
<1>6. /\ CALC_ENTRY_OFFSET(v, s) + k = c /\ c \in 0 .. PAGE_SIZE - 1
      /\ CALC_ENTRY_PAGE(PageStart[s], v, s) = PageStart[s] - i
  BY <1>5 DEF CALC_ENTRY_OFFSET, CALC_ENTRY_PAGE
<1>7. k \in Nat /\ i \in Nat /\ r \in Nat /\ v \in Nat
  <2>1. PagesOf(s) \in Nat /\ CountOf[s] \in Nat
    BY <1>1, PageCount, PerPage
  <2> HIDE DEF i, r, e, z
  <2> QED BY <1>2, <1>4, <1>5, <2>1
<1>8. at = (i * PAGE_SIZE) + c
  <2> HIDE DEF i, r, e, z
  <2>1. v * z = (i * (e * z)) + (r * z)
    BY <1>2, <1>5, <1>7
  <2> QED BY <1>2, <1>3, <1>7, <2>1
<1>9. at \div PAGE_SIZE = i /\ at % PAGE_SIZE = c
  <2> HIDE DEF at, i, c
  <2> QED BY <1>2, <1>6, <1>7, <1>8, QuotientIs
<1>10. /\ PageStart[s] - i \in Pages
       /\ flash[PageStart[s] - i][c] = <<Placed(s, v), k>>
  BY <1>1, <1>6, EntryThere
<1>11. Placed(s, v) = [in |-> s, id |-> v]
  BY <1>1 DEF Placed
<1> HIDE DEF at, i, c
<1>12. ReadByte(PageStart[s] - i, c, 0) = flash[PageStart[s] - i][c]
  <2>1. c \in 0 .. PAGE_SIZE - 1 /\ PAGE_SIZE \in Nat
    BY <1>2, <1>6
  <2>2. c \in Nat /\ 0 \in Nat /\ c + 0 = c
    BY <2>1
  <2>3. c + 0 \in 0 .. PAGE_SIZE - 1
    BY <2>1, <2>2
  <2>4. ReadByte(PageStart[s] - i, c, 0) = flash[PageStart[s] - i][c + 0]
    BY <1>10, <2>2, <2>3, ReadWithin
  <2> QED BY <2>2, <2>4
<1> QED BY <1>9, <1>10, <1>11, <1>12 DEF at

LEMMA GroundTruthThere ==
  ASSUME DataInv, pc = "serving", ~dirty,
         NEW q \in 0 .. CountOf["groundtruth"] - 1
  PROVE  FindsGroundTruth(q)
<1>1. "groundtruth" \in Names
  BY SectionNames
<1>2. Placed("groundtruth", q) = [in |-> "groundtruth", id |-> q]
  BY DEF Placed
<1>3. \A k \in 0 .. SizeOf["groundtruth"] - 1 :
        ReadByte(CALC_ENTRY_PAGE(PageStart["groundtruth"], q, "groundtruth"),
                 CALC_ENTRY_OFFSET(q, "groundtruth"), k)
          = <<Placed("groundtruth", q), k>>
  BY <1>1, EntryThere
<1> QED
  BY <1>2, <1>3
     DEF FindsGroundTruth, Holds, GroundTruthPerPage, ENTRIES_PER_PAGE,
         CALC_ENTRY_PAGE, CALC_ENTRY_OFFSET
-----------------------------------------------------------------------------
(***************************************************************************)
(* The properties.                                                         *)
(***************************************************************************)

\* The inductive invariant: the pages and places of main_workload() are
\* counted right, what it has not come to is erased, and what it has written
\* is where the entries of the section belong.
THEOREM WorkloadInvHolds == Spec => []WorkloadInv
<1>1. Init => WorkloadInv
  <2>1. SUFFICES ASSUME Init PROVE WorkloadInv
    OBVIOUS
  <2>2. CountInv
    BY <2>1, InitCounts
  <2>3. ErasedInv
    BY <2>1 DEF Init, ErasedInv
  <2>4. DataInv
    <3>1. pc = "start"
      BY <2>1 DEF Init
    <3>2. Closed = {} /\ ~Writing
      BY <3>1 DEF Closed, Writing
    <3> QED BY <3>1, <3>2 DEF DataInv
  <2> QED BY <2>2, <2>3, <2>4 DEF WorkloadInv
<1>2. WorkloadInv /\ [Next]_vars => WorkloadInv'
  BY StepCounts, StepErased, StepData DEF WorkloadInv
<1> QED BY <1>1, <1>2, PTL DEF Spec

\* With sections that fit, main_workload() never leaves the flash with its
\* page number and, unless it was interrupted with entries in its buffer,
\* never the buffer with its head; nor does the check of its mapping pages
\* fail.
THEOREM ChecksCorrect == Spec => []GeneratorChecksPass
<1>1. WorkloadInv => GeneratorChecksPass
  BY DEF WorkloadInv, CountInv, CleanInv, GeneratorChecksPass
<1> QED BY <1>1, WorkloadInvHolds, PTL

\* write_op() is only asked for pages that are erased, however often the
\* generator is interrupted.
THEOREM ProgramsCorrect == Spec => ProgramsErasedPages
<1>1. WorkloadInv /\ [Next]_vars =>
        [\A p \in Pages :
           flash'[p] \in {NoPage, flash[p]} \/ flash[p] = NoPage]_vars
  BY StepPrograms DEF WorkloadInv
<1> QED BY <1>1, WorkloadInvHolds, PTL DEF Spec, ProgramsErasedPages

\* What the generator wrote from an empty buffer the query build finds, at the
\* numbers in its source, for every geometry and all sizes and numbers of
\* entries.
THEOREM FindsCorrect == Spec => []FindsWhatWasWritten
<1>1. WorkloadInv => FindsWhatWasWritten
  <2>1. SUFFICES ASSUME DataInv, pc = "serving", ~dirty
                 PROVE  /\ \A v \in 0 .. CountOf["L1"] - 1 :
                             Finds("fullvec", v) /\ Finds("neighbor", v)
                        /\ \A s \in {"codebook", "mean", "query", "longbook"} :
                             FindsArray(s)
                        /\ \A q \in 0 .. CountOf["groundtruth"] - 1 :
                             FindsGroundTruth(q)
    BY DEF WorkloadInv, FindsWhatWasWritten
  <2> QED BY <2>1, FindsThere, ArrayThere, GroundTruthThere
<1> QED BY <1>1, WorkloadInvHolds, PTL
=============================================================================
