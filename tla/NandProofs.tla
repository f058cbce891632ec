----------------------------- MODULE NandProofs -----------------------------
(***************************************************************************)
(* Proofs about Nand: for a chip of any size and reads of any length, the  *)
(* page buffer is what the driver takes it for, and the driver implements  *)
(* a flash without one, to callers that ask as CallerAsksFor says.         *)
(***************************************************************************)
EXTENDS Nand, SequenceTheorems, TLAPS

\* A read stays in front of the last page, whose number means no page.
WithinChip(r, c, len) == r * PAGE_SIZE + c + len <= LastRow * PAGE_SIZE

Reading == {"lookup", "note", "fetch"}

\* Byte k of what was asked for.
ByteOf ==
  [k \in Nat |-> <<flash[asked.row + ((asked.col + k - 1) \div PAGE_SIZE)],
                  (asked.col + k - 1) % PAGE_SIZE>>]

First(n) == [k \in 1 .. n |-> ByteOf[k]]

Got == asked.len - read_len

\* From the end of page_read(), or from where it was not needed, the buffer
\* holds the page that is read; from then on page_in_buffer is that of this
\* life.
ReadInv ==
  /\ pc \in Reading => row # NoRow /\ WithinChip(row, col, read_len)
  /\ pc \in {"note", "fetch"} => cache = flash[row]
  /\ pc = "fetch" => ~restored

\* What has been read are the first bytes of what was asked for, and the read
\* goes on behind them.
AnswerInv ==
  /\ pc \in Reading \union {"answer"} =>
       /\ asked.row \in Rows /\ asked.col \in 0 .. PAGE_SIZE - 1
       /\ asked.len \in 1 .. MaxReadLen
       /\ asked.row + ((asked.col + asked.len - 1) \div PAGE_SIZE) \in Rows
  /\ pc \in Reading =>
       /\ read_len <= asked.len
       /\ data_out = First(Got)
       /\ asked.row * PAGE_SIZE + asked.col + Got = row * PAGE_SIZE + col
  /\ pc = "answer" => data_out = First(asked.len)

\* Blocks are erased before anything has been read.
ClearInv ==
  pc \in {"off", "clear", "cleared", "restore"} =>
    page_in_buffer = NoRow /\ ~restored

\* What is about to be written came from the caller of write_op().
WriteInv ==
  /\ pc = "load" => data_in \in Data
  /\ pc = "execute" => cache \in Data

BufferInv == BufferIsThePage /\ ReadInv /\ ClearInv

IInv == BufferInv /\ AnswerInv /\ WriteInv

-----------------------------------------------------------------------------
\* Multiplication by a length keeps the order.
LEMMA TimesMonotone ==
  ASSUME NEW a \in Int, NEW b \in Int, NEW p \in Nat, a <= b
  PROVE  a * p <= b * p
<1>1. (b - a) \in Nat
  OBVIOUS
<1>2. (b - a) * p \in Nat
  BY <1>1
<1> QED
  BY <1>2

\* A read that starts and ends in pages of the chip but the last is within.
LEMMA AskedIsWithin ==
  ASSUME NEW r \in Rows, NEW c \in 0 .. PAGE_SIZE - 1, NEW n \in Nat \ {0},
         r + ((c + n - 1) \div PAGE_SIZE) \in Rows,
         r + ((c + n - 1) \div PAGE_SIZE) # NoRow
  PROVE  WithinChip(r, c, n)
<1> DEFINE k == (c + n - 1) \div PAGE_SIZE
<1>1. PAGE_SIZE \in Nat \ {0} /\ LastRow \in Nat /\ c + n - 1 \in Nat
  BY GeometryAssumption
<1>2. k \in Int /\ c + n - 1 < k * PAGE_SIZE + PAGE_SIZE
  BY <1>1
<1>3. r + k + 1 <= LastRow
  BY <1>1, <1>2 DEF Rows, NoRow
<1>4. (r + k + 1) * PAGE_SIZE <= LastRow * PAGE_SIZE
  BY <1>1, <1>2, <1>3, TimesMonotone DEF Rows
<1>5. (r + k + 1) * PAGE_SIZE = r * PAGE_SIZE + k * PAGE_SIZE + PAGE_SIZE
  BY <1>1, <1>2 DEF Rows
<1>6. r * PAGE_SIZE \in Int /\ k * PAGE_SIZE \in Int
  BY <1>1, <1>2 DEF Rows
<1> HIDE DEF k
<1> QED
  BY <1>1, <1>2, <1>4, <1>5, <1>6 DEF WithinChip

\* What is left of it behind the end of a page is within as well.
LEMMA RestIsWithin ==
  ASSUME NEW r \in Rows, NEW c \in 0 .. PAGE_SIZE - 1, NEW n \in Nat,
         WithinChip(r, c, n), c + n > PAGE_SIZE
  PROVE  /\ r + 1 \in Rows /\ r + 1 # NoRow
         /\ WithinChip(r + 1, 0, n - (PAGE_SIZE - c))
<1>1. PAGE_SIZE \in Nat \ {0} /\ LastRow \in Nat /\ r \in Int
  BY GeometryAssumption DEF Rows
<1>2. (r + 1) * PAGE_SIZE = r * PAGE_SIZE + PAGE_SIZE
  BY <1>1
<1>3. r * PAGE_SIZE \in Int /\ LastRow * PAGE_SIZE \in Int
  BY <1>1
<1>4. (r + 1) * PAGE_SIZE < LastRow * PAGE_SIZE
  BY <1>1, <1>2, <1>3 DEF WithinChip
<1>5. r + 1 < LastRow
  BY <1>1, <1>4, TimesMonotone
<1> QED
  BY <1>1, <1>2, <1>3, <1>5 DEF WithinChip, Rows, NoRow

\* A place in the chip has one page and one column.
LEMMA PageAndColumn ==
  ASSUME NEW q \in Int, NEW x \in 0 .. PAGE_SIZE - 1, NEW y \in Int,
         y = q * PAGE_SIZE + x
  PROVE  y \div PAGE_SIZE = q /\ y % PAGE_SIZE = x
  BY GeometryAssumption

\* The next values of a function appended to the first ones.
LEMMA Appended ==
  ASSUME NEW n \in Nat, NEW m \in Nat, NEW f
  PROVE  [k \in 1 .. n |-> f[k]] \o [k \in 1 .. m |-> f[n + k]]
           = [k \in 1 .. n + m |-> f[k]]
<1> DEFINE T == {f[k] : k \in 1 .. n + m}
           s == [k \in 1 .. n |-> f[k]]
           t == [k \in 1 .. m |-> f[n + k]]
<1>1. s \in [1 .. n -> T] /\ t \in [1 .. m -> T]
  OBVIOUS
<1>2. s \in Seq(T) /\ t \in Seq(T)
  BY <1>1, SeqDef
<1>3. Len(s) = n /\ Len(t) = m
  BY <1>1, <1>2, LenProperties
<1>4. /\ s \o t \in Seq(T) /\ Len(s \o t) = n + m
      /\ \A k \in 1 .. n + m :
           (s \o t)[k] = IF k <= n THEN s[k] ELSE t[k - n]
  BY <1>2, <1>3, ConcatProperties
<1>5. \A k \in 1 .. n + m : (s \o t)[k] = f[k]
  BY <1>4
<1>6. s \o t = [k \in 1 .. n + m |-> (s \o t)[k]]
  BY <1>4, LenProperties
<1> QED
  BY <1>5, <1>6

\* What is fetched is what comes next.
LEMMA FetchedIsNext ==
  ASSUME IInv, pc = "fetch", NEW m \in Nat, col + m <= PAGE_SIZE
  PROVE  data_out \o Fetched(m) = First(Got + m)
<1>1. /\ Got \in Nat /\ row \in Int /\ col \in Nat
      /\ asked.row \in Int /\ asked.col \in Nat
  <2>1. read_len \in Nat /\ asked.len \in Nat /\ read_len <= asked.len
    BY GeometryAssumption
    DEF IInv, BufferInv, BufferIsThePage, TypeOK, AnswerInv, Reading
  <2>2. row \in Int /\ asked.row \in Int /\ col \in Nat /\ asked.col \in Nat
    BY GeometryAssumption
    DEF IInv, BufferInv, BufferIsThePage, TypeOK, AnswerInv, Reading, Rows
  <2> QED
    BY <2>1, <2>2 DEF Got
<1>2. ASSUME NEW k \in 1 .. m
      PROVE  ByteOf[Got + k] = <<cache, col + k - 1>>
  <2> DEFINE y == asked.col + (Got + k) - 1
             q == row - asked.row
             x == col + k - 1
  <2>1. q \in Int /\ x \in 0 .. PAGE_SIZE - 1 /\ y \in Int
    BY <1>1, GeometryAssumption
  <2>2. y = q * PAGE_SIZE + x
    <3>1. asked.row * PAGE_SIZE + asked.col + Got = row * PAGE_SIZE + col
      BY DEF IInv, AnswerInv, Reading
    <3>2. q * PAGE_SIZE = row * PAGE_SIZE - asked.row * PAGE_SIZE
      BY <1>1, GeometryAssumption
    <3>3. row * PAGE_SIZE \in Int /\ asked.row * PAGE_SIZE \in Int
      BY <1>1, GeometryAssumption
    <3> HIDE DEF q
    <3> QED
      BY <1>1, <3>1, <3>2, <3>3
  <2>3. y \div PAGE_SIZE = q /\ y % PAGE_SIZE = x
    <3> HIDE DEF y, q, x
    <3> QED
      BY <2>1, <2>2, PageAndColumn
  <2>4. Got + k \in Nat /\ asked.row + (row - asked.row) = row
    BY <1>1
  <2>5. ByteOf[Got + k] = <<flash[row], col + k - 1>>
    BY <2>3, <2>4 DEF ByteOf
  <2> QED
    BY <2>5 DEF IInv, BufferInv, ReadInv
<1>3. Fetched(m) = [k \in 1 .. m |-> ByteOf[Got + k]]
  BY <1>2 DEF Fetched
<1>4. data_out = [k \in 1 .. Got |-> ByteOf[k]]
  BY DEF IInv, AnswerInv, Reading, First
<1>5. [k \in 1 .. Got |-> ByteOf[k]] \o [k \in 1 .. m |-> ByteOf[Got + k]]
        = [k \in 1 .. Got + m |-> ByteOf[k]]
  <2> DEFINE f == ByteOf
  <2> HIDE DEF f
  <2>1. [k \in 1 .. Got |-> f[k]] \o [k \in 1 .. m |-> f[Got + k]]
          = [k \in 1 .. Got + m |-> f[k]]
    BY <1>1, Appended
  <2> QED
    BY <2>1 DEF f
<1> QED
  BY <1>3, <1>4, <1>5 DEF First

\* Whatever the flash holds when power comes on for the first time.
LEMMA InitEstablishes == Init => IInv
  BY GeometryAssumption
  DEF Init, IInv, BufferInv, BufferIsThePage, TypeOK, ReadInv, ClearInv,
      AnswerInv, WriteInv, Reading, Contents, Rows, NoRow

\* The buffer is what page_in_buffer says, step by step.
LEMMA BufferStep == BufferInv /\ [Next]_vars => BufferInv'
<1> SUFFICES ASSUME BufferInv, [Next]_vars PROVE BufferInv'
  OBVIOUS
<1> USE GeometryAssumption
    DEF BufferInv, BufferIsThePage, ClearInv, Reading, request, program
<1>1. CASE spi_nand_init
  BY <1>1 DEF spi_nand_init, TypeOK, ReadInv
<1>2. CASE clear_all_blocks
  BY <1>2 DEF clear_all_blocks, TypeOK, ReadInv, Contents
<1>3. CASE SetCleared
  BY <1>3 DEF SetCleared, TypeOK, ReadInv
<1>17. CASE Restore
  BY <1>17 DEF Restore, TypeOK, ReadInv
<1>18. CASE Checkpoint
  BY <1>18 DEF Checkpoint, TypeOK, ReadInv
<1>4. CASE read_op
  BY <1>4, AskedIsWithin DEF read_op, CallerAsksFor, TypeOK, ReadInv
<1>5. CASE page_read
  BY <1>5 DEF page_read, TypeOK, ReadInv, WithinChip
<1>6. CASE CacheHit
  BY <1>6 DEF CacheHit, TypeOK, ReadInv, WithinChip
<1>7. CASE NoteRow
  BY <1>7 DEF NoteRow, TypeOK, ReadInv, WithinChip
<1>8. CASE read_from_cache_x1
  BY <1>8, RestIsWithin
  DEF read_from_cache_x1, NeedsNextPage, RestColumn, TypeOK, ReadInv
<1>9. CASE Return
  BY <1>9 DEF Return, Leave, TypeOK, ReadInv, Contents, Rows
<1>10. CASE write_op
  BY <1>10 DEF write_op, TypeOK, ReadInv, Contents
<1>11. CASE program_load_x1
  BY <1>11 DEF program_load_x1, TypeOK, ReadInv
<1>12. CASE program_execute
  BY <1>12 DEF program_execute, TypeOK, ReadInv
<1>13. CASE ForgetRow
  BY <1>13 DEF ForgetRow, Leave, TypeOK, ReadInv, Contents, Rows, NoRow
<1>14. CASE erase_op
  BY <1>14 DEF erase_op, TypeOK, ReadInv, Contents
<1>15. CASE PowerFail
  BY <1>15 DEF PowerFail, Leave, TypeOK, ReadInv, Contents, Rows, NoRow
<1>16. CASE UNCHANGED vars
  BY <1>16 DEF vars, TypeOK, ReadInv, WithinChip
<1> QED
  BY <1>1, <1>2, <1>3, <1>4, <1>5, <1>6, <1>7, <1>8, <1>9, <1>10, <1>11,
     <1>12, <1>13, <1>14, <1>15, <1>16, <1>17, <1>18
  DEF Next, Boot, Read, Write

\* What has been read is what was asked for, step by step.
LEMMA AnswerStep == IInv /\ [Next]_vars => AnswerInv' /\ WriteInv'
<1> SUFFICES ASSUME IInv, [Next]_vars PROVE AnswerInv' /\ WriteInv'
  OBVIOUS
<1> USE GeometryAssumption DEF Reading, request
<1>1. CASE spi_nand_init \/ clear_all_blocks \/ SetCleared \/ Restore
           \/ Checkpoint \/ erase_op
  BY <1>1
  DEF IInv, spi_nand_init, clear_all_blocks, SetCleared, Restore, Checkpoint,
      erase_op, AnswerInv, WriteInv
<1>2. CASE read_op
  <2>1. Got' = 0 /\ read_len' <= asked'.len
    BY <1>2 DEF read_op, Got
  <2>2. First(Got)' = <<>>
    BY <2>1 DEF First
  <2>3. /\ asked'.row \in Rows /\ asked'.col \in 0 .. PAGE_SIZE - 1
        /\ asked'.len \in 1 .. MaxReadLen
        /\ asked'.row + ((asked'.col + asked'.len - 1) \div PAGE_SIZE) \in Rows
    BY <1>2 DEF read_op, CallerAsksFor
  <2>4. asked'.row = row' /\ asked'.col = col' /\ row' \in Int /\ col' \in Int
    BY <1>2 DEF read_op, Rows
  <2>5. asked'.row * PAGE_SIZE + asked'.col + Got'
          = row' * PAGE_SIZE + col'
    BY <2>1, <2>4
  <2> QED
    BY <1>2, <2>1, <2>2, <2>3, <2>5 DEF read_op, AnswerInv, WriteInv
<1>3. CASE page_read \/ CacheHit \/ NoteRow
  <2>1. pc \in Reading /\ pc' \in Reading /\ UNCHANGED <<request, data_out>>
    BY <1>3 DEF page_read, CacheHit, NoteRow
  <2>2. First(Got)' = First(Got)
    BY <1>3, <2>1
    DEF page_read, CacheHit, NoteRow, First, ByteOf, Got
  <2> QED
    BY <2>1, <2>2 DEF IInv, AnswerInv, WriteInv, Got
<1>4. CASE read_from_cache_x1 /\ NeedsNextPage
  <2> DEFINE m == PAGE_SIZE - col
  <2>1. /\ m \in Nat /\ read_len \in Nat /\ asked.len \in Nat
        /\ m <= read_len /\ read_len <= asked.len
        /\ row \in Int /\ col \in Nat
        /\ asked.row \in Int /\ asked.col \in Nat
    BY <1>4
    DEF IInv, read_from_cache_x1, NeedsNextPage, BufferInv, BufferIsThePage,
        TypeOK, AnswerInv, Rows
  <2>2. data_out' = First(Got + m)
    <3>1. pc = "fetch" /\ col + m <= PAGE_SIZE
      BY <1>4, <2>1 DEF read_from_cache_x1
    <3>2. data_out' = data_out \o Fetched(m)
      BY <1>4 DEF read_from_cache_x1
    <3> HIDE DEF m
    <3> QED
      BY <2>1, <3>1, <3>2, FetchedIsNext
  <2>3. Got' = Got + m /\ Got + m \in Nat
    BY <1>4, <2>1 DEF read_from_cache_x1, Got
  <2>4. First(Got)' = First(Got + m)
    BY <1>4, <2>3 DEF read_from_cache_x1, First, ByteOf
  <2>5. asked.row * PAGE_SIZE + asked.col + Got' = row' * PAGE_SIZE + col'
    <3>1. asked.row * PAGE_SIZE + asked.col + Got = row * PAGE_SIZE + col
      BY <1>4 DEF IInv, read_from_cache_x1, AnswerInv
    <3>2. row' * PAGE_SIZE + col' = row * PAGE_SIZE + col + m
      BY <1>4, <2>1 DEF read_from_cache_x1, RestColumn
    <3> QED
      BY <2>1, <2>3, <3>1, <3>2 DEF Got
  <2>6. read_len' <= asked'.len
    BY <1>4, <2>1 DEF read_from_cache_x1
  <2> QED
    BY <1>4, <2>2, <2>4, <2>5, <2>6
    DEF IInv, read_from_cache_x1, AnswerInv, WriteInv
<1>5. CASE read_from_cache_x1 /\ ~NeedsNextPage
  <2>1. read_len \in Nat /\ asked.len \in Nat /\ col + read_len <= PAGE_SIZE
    BY <1>5
    DEF IInv, read_from_cache_x1, NeedsNextPage, BufferInv, BufferIsThePage,
        TypeOK, AnswerInv
  <2>2. data_out' = First(asked.len)
    <3>1. data_out' = data_out \o Fetched(read_len)
      BY <1>5 DEF read_from_cache_x1
    <3>2. Got + read_len = asked.len
      BY <2>1 DEF Got
    <3>3. pc = "fetch"
      BY <1>5 DEF read_from_cache_x1
    <3> QED
      BY <2>1, <3>1, <3>2, <3>3, FetchedIsNext
  <2>3. First(asked.len)' = First(asked.len)
    BY <1>5 DEF read_from_cache_x1, First, ByteOf
  <2> QED
    BY <1>5, <2>2, <2>3 DEF IInv, read_from_cache_x1, AnswerInv, WriteInv
<1>6. CASE Return \/ ForgetRow \/ PowerFail
  BY <1>6 DEF IInv, Return, ForgetRow, PowerFail, AnswerInv, WriteInv
<1>7. CASE write_op \/ program_load_x1 \/ program_execute
  BY <1>7
  DEF IInv, write_op, program_load_x1, program_execute, AnswerInv, WriteInv
<1>8. CASE UNCHANGED vars
  <2>1. First(Got)' = First(Got) /\ First(asked.len)' = First(asked.len)
    BY <1>8 DEF vars, First, ByteOf, Got
  <2> QED
    BY <1>8, <2>1 DEF IInv, vars, AnswerInv, WriteInv, Got
<1> QED
  BY <1>1, <1>2, <1>3, <1>4, <1>5, <1>6, <1>7, <1>8
  DEF Next, Boot, Read, Write

LEMMA InvHolds == Spec => []IInv
<1>1. IInv /\ [Next]_vars => IInv'
  BY BufferStep, AnswerStep DEF IInv
<1> QED
  BY InitEstablishes, <1>1, PTL DEF Spec

\* The page buffer is the page that page_in_buffer names, between any two
\* steps of any sequence of reads, writes, erasures, checkpoints and failures,
\* for chips and reads of every size; and when a restore has brought back the
\* name of a page that the buffer lost, no read is served from it, if the
\* caller does not ask for that page first.
THEOREM BufferCorrect == Spec => []BufferIsThePage
<1>1. IInv => BufferIsThePage
  BY DEF IInv, BufferInv
<1> QED
  BY InvHolds, <1>1, PTL

\* The steps that neither change the flash nor hand out or take back an
\* answer do nothing; page_read(), the buffer and the loads are among them.
LEMMA RefinementStep ==
  IInv /\ IInv' /\ [Next]_vars => [Promise!Next]_Promise!vars
<1> SUFFICES ASSUME IInv, IInv', [Next]_vars
             PROVE  Promise!Next \/ UNCHANGED Promise!vars
  OBVIOUS
<1> USE DEF request
<1>1. CASE spi_nand_init \/ SetCleared \/ Restore \/ Checkpoint \/ read_op
           \/ page_read \/ CacheHit \/ NoteRow \/ write_op
           \/ program_load_x1 \/ ForgetRow \/ UNCHANGED vars
  BY <1>1
  DEF spi_nand_init, SetCleared, Restore, Checkpoint, read_op, page_read,
      CacheHit, NoteRow, write_op, program_load_x1, ForgetRow, vars,
      Promise!vars, Response
<1>2. CASE clear_all_blocks
  <2> DEFINE rows == {p \in Rows : p \div PAGES_PER_BLOCK < ClearedBlocks}
  <2>1. /\ rows \in SUBSET Rows
        /\ \A p, q \in Rows :
             p \in rows /\ Promise!SameBlock(p, q) => q \in rows
    BY DEF Promise!SameBlock
  <2>2. flash' = [p \in Rows |-> IF p \in rows THEN Erased ELSE flash[p]]
    BY <1>2 DEF clear_all_blocks
  <2>3. Response' = NoAnswer
    BY <1>2 DEF clear_all_blocks, Response
  <2> HIDE DEF rows
  <2> QED
    BY <2>1, <2>2, <2>3 DEF Promise!Next, Promise!Erase
<1>3. CASE erase_op
  <2>1. PICK p \in Rows :
          flash' = [q \in Rows |-> IF SameBlock(p, q) THEN Erased ELSE flash[q]]
    BY <1>3 DEF erase_op
  <2> DEFINE rows == {q \in Rows : SameBlock(p, q)}
  <2>2. /\ rows \in SUBSET Rows
        /\ \A q, r \in Rows :
             q \in rows /\ Promise!SameBlock(q, r) => r \in rows
    BY DEF Promise!SameBlock, SameBlock
  <2>3. flash' = [q \in Rows |-> IF q \in rows THEN Erased ELSE flash[q]]
    BY <2>1
  <2>4. Response' = NoAnswer
    BY <1>3 DEF erase_op, Response
  <2> HIDE DEF rows
  <2> QED
    BY <2>2, <2>3, <2>4 DEF Promise!Next, Promise!Erase
<1>4. CASE read_from_cache_x1 /\ NeedsNextPage
  BY <1>4 DEF read_from_cache_x1, Promise!vars, Response
<1>5. CASE read_from_cache_x1 /\ ~NeedsNextPage
  <2>1. /\ pc' = "answer" /\ flash' = flash /\ asked' = asked
        /\ data_out' = First(asked.len)
    <3>1. pc' = "answer" /\ flash' = flash /\ asked' = asked
      BY <1>5 DEF read_from_cache_x1
    <3>2. First(asked.len)' = First(asked.len)
      BY <3>1 DEF First, ByteOf
    <3> QED
      BY <3>1, <3>2 DEF IInv, AnswerInv
  <2>2. /\ asked.row \in Rows /\ asked.col \in 0 .. PAGE_SIZE - 1
        /\ asked.len \in 1 .. MaxReadLen
        /\ asked.row + ((asked.col + asked.len - 1) \div PAGE_SIZE) \in Rows
    BY <2>1 DEF IInv, AnswerInv
  <2>3. \A k \in 1 .. asked.len :
          ByteOf[k] = Promise!ByteAt(asked.row, asked.col, k - 1)
    <3> SUFFICES ASSUME NEW k \in 1 .. asked.len
                 PROVE  ByteOf[k] = Promise!ByteAt(asked.row, asked.col, k - 1)
      OBVIOUS
    <3>1. asked.col + k - 1 = asked.col + (k - 1) /\ k \in Nat
      BY <2>2, GeometryAssumption
    <3> QED
      BY <3>1 DEF ByteOf, Promise!ByteAt
  <2>4. First(asked.len)
          = [n \in 1 .. asked.len |->
               Promise!ByteAt(asked.row, asked.col, n - 1)]
    BY <2>3 DEF First
  <2>5. Response' = [row |-> asked.row, col |-> asked.col,
                     bytes |-> [n \in 1 .. asked.len |->
                       Promise!ByteAt(asked.row, asked.col, n - 1)]]
    BY <2>1, <2>4 DEF Response
  <2> QED
    BY <2>1, <2>2, <2>5 DEF Promise!Next, Promise!Answer
<1>6. CASE Return
  BY <1>6 DEF Return, Leave, Response, Promise!Next, Promise!Forget
<1>7. CASE program_execute
  BY <1>7 DEF program_execute, IInv, WriteInv, BufferInv, BufferIsThePage,
     TypeOK, Response, Promise!Next, Promise!Program
<1>8. CASE PowerFail
  <2>1. Response' = NoAnswer
    BY <1>8 DEF PowerFail, Response
  <2>2. flash' = flash \/ flash' = [flash EXCEPT ![row] = Junk]
    BY <1>8 DEF PowerFail
  <2>3. row \in Rows
    BY DEF IInv, BufferInv, BufferIsThePage, TypeOK
  <2> QED
    BY <2>1, <2>2, <2>3
    DEF Promise!Next, Promise!Program, Promise!Forget
<1> QED
  BY <1>1, <1>2, <1>3, <1>4, <1>5, <1>6, <1>7, <1>8
  DEF Next, Boot, Read, Write

\* The driver, with its page buffer, its reads over the ends of pages, a
\* failure between any two commands and restores of page_in_buffer, is a flash
\* without a buffer to a caller that first asks for another page after them.
THEOREM Refinement == Spec => ImplementsFlash
<1>1. Init => Promise!Init
  BY DEF Init, Promise!Init, Response, Contents
<1>2. IInv /\ IInv' /\ [Next]_vars => [Promise!Next]_Promise!vars
  BY RefinementStep
<1> QED
  BY <1>1, <1>2, InvHolds, PTL DEF Spec, ImplementsFlash, Promise!Spec
=============================================================================
