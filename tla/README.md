# A verification project for the intermittent vector database

The repository is firmware for an MSP430FR5994 that answers nearest-neighbour
queries from a graph index in SPI NAND flash while its supply fails at any
moment. RAM is lost at a failure, FRAM survives; a checkpoint in FRAM brings the
program back. These modules model the parts of it in which that matters, state
what makes them correct, check it with TLC on small instances and prove part of
it with TLAPS for all. Paths below are relative to the repository.

The build modelled is the one `config.h` selects: `EXP_BASELINE`,
`UCA_MODE_UCA3` with `SPI_MODE_DMA`, `CODE_MODE_DISKANN`,
`SEARCHLIST_MODE_SORTED`, `PRUNE_MODE_DISTANCE_ONLY`, `OVERLAP_MODE_NONE`,
`RERANK_MODE_LEA`, `PARTIAL_RERANK_MODE_NONE`, `ENERGY_WAIT_METHOD_OVERFLOW`.
Three modules go beyond it: `OverlapSearch` models `OVERLAP_MODE_ENABLE`,
`Rerank` all three modes of reranking with and without partial reranking, and
`Workload` the generator's build together with the query build.

## 1. Inventory

| part | state it keeps | operations | correct when |
|---|---|---|---|
| Checkpoint and restore: `checkpoint/checkpoint.c`, `snapshot.asm` | FRAM: two `snapshot` slots, `snapshot_head`, statuses, `phase`; RAM: `snapshot_reg`, `usCriticalNesting` | `CHECKPOINT`, `checkpoint`, `snapshotReg`, `RESTORE`, `restore`, `restoreReg`, `shutdown`, `wait_for_energy` | a save is atomic and durable; a resume returns exactly the saved memory; the restart slot is never overwritten; critical sections balance over a save in one life and the return in the next |
| Search of one query: `graphsearch/query_ops.c`, `query()` in `graphsearch.c` | FRAM: candidate logs, hash, sorted list, visited flags, two counters, `search_log_sorted_tail`, `expanded_log` | `init_search_log`, `add_to_L`, `has_candidate`, `prune_L_lazy`, `get_closest_unvisited`, `mark_visited`, `rerank_searchlist` | the list is the best of what was seen, whatever an interrupted query left behind; the search converges, ends, and stays inside its arrays |
| Workload loop: `graphsearch/main_graphsearch.c`, `init_graphsearch()` and `QUERY()` in `graphsearch.c` | FRAM: `replay_head`, `workload_page`, `workload_vector`, `last_read_q_page_idx`, `force_wait_counter`, `in_energy_wait`, the accounts | replay, checkpoint points, energy wait, accounting | no query skipped or answered twice, each searched with its own vector, accounts bounded, the workload ends |
| Overlapped search: the second loop of `query()`, `query_ops.h` | RAM: two code buffers, `prev_dma_target`, the buffer indices | start, wait and compute halves of `add_to_L` | no command disturbs a transfer, every distance is computed from its own code, the list stays sorted and complete |
| Reranking: `rerank_searchlist()`, `compute_recall()` | FRAM: `expanded_log`, `expanded_log_dists`; LEA RAM: the batch | measuring in batches, sorting in place, the answer, its recall | the sort loses nothing even if interrupted before, the answer is the nearest of the expanded, recall counts no neighbour twice (`compute_recall()` has no caller in this revision: its one call is commented out) |
| NAND driver: `nand/spi_nand.c` | RAM: `page_in_buffer`; FRAM: `clear_all_blocks_flag`; the chip: its page buffer | `spi_nand_init`, `clear_all_blocks`, `erase_op`, `read_op`, `read_op_dma`, `write_op`, the start/wait halves | for its callers the driver behaves like a chip without a page buffer, also when a restore brings back a `page_in_buffer` that is no longer true |
| SPI and DMA: `nand/spi.c` | `spi_dma_done`, DMA and UCA3 registers | `spi_send`, `spi_recv`, `spi_recv_dma`, `SPI_DMA_ISR` | a transfer is over when it is reported over, leaves nothing that the next one could trip over, and ends before its timeout |
| Timer: `timer/my_timer.c` | FRAM: `elapsed_tick`, `segment_start_tick`, `cumulative_active_ticks`; TA2R, TAIFG | `low_res_timer_start`, `get_current_tick`, `bank_active_segment`, `A2_ISR` | what is banked is time that passed, and a failure inside a bank spoils no later one |
| Voltage log: `lib/adc.c` | circular FRAM log, `last_voltage_log_idx` in RAM | `get_voltage`, `set_last_voltage_op` | nothing the program decides depends on it |
| Flash layout: `graphsearch/mapping.c`, `mapping.h`, constants in `graphsearch/*.c` | FRAM: `L0_mapping_table`, refilled at each cold start | page and offset arithmetic, `read_neighbors_from_flash`, `read_fullvec_from_flash` | everything the generator wrote is where the query build looks for it |
| Set-up and glue: `main.c`, `FreeRTOSConfig.h`, `lib/` | `breakpoint`, statistics | `main`, hooks, `SET_BREAKPOINT` | restore runs behind set-up and in front of the task |
| Workload generator: `workload/workload.c`, a build of its own | flash contents; FRAM: the page buffer and its head | eight sections, each appended entry by entry and flushed page by page | only erased pages are programmed, also after an interruption |
| Index updates: `insert_ops.c`, `delete_ops.c`, `delta_store.c`, `merge_ops.c`, `garbage_collection.c`, `main_checkpoint.c` | | | commented out: no behaviour |
| Vendored: `driverlib/`, `dsplib/`, `FatFs/`, `SDCardLib/`, `HAL/`, demos | | | third-party |

How they interact. `main()` sets up the hardware and calls `RESTORE()`, which
either returns (no checkpoint: the scheduler starts `graphsearch_test()`) or
copies a slot over RAM and jumps into the middle of the `checkpoint()` call that
made it. The task replays queries: `CHECKPOINT_READ_DATA` in front of each new
page of query vectors, `QUERY()` with `query()` and a `CHECKPOINT_QUERY` behind
it, then the accounting. `query()` reads pages through the NAND driver, whose
`page_in_buffer` is part of the checkpoint although the chip it describes is
not. Every third call `query()` sleeps until the RTC resets the CPU. The kernel
tick and the timer overflow interrupt all of it outside critical sections.

What is hard: a failure between any two stores, FRAM that is rolled back
(`replay_head`) next to FRAM that is not (nearly everything else), a function
that returns twice, variables that a restore overwrites while it uses them, and
counters that must agree with linked structures. `PROJECT.json` lists each
hazard at its line under `hazards`.

## 2. Plan

Done in this order, the most important first:

1. `Checkpoint` against `AbstractCheckpoint`: checked and proved (section 4).
2. `SearchList` against `BestFirstSearch`: checked and proved (section 5).
3. `QueryLoop`: checked and proved; it composes the promise of `Checkpoint` (saves are
   atomic but for the gap between its last two stores) with the promise of
   `SearchList` (a search ends).
4. `Timer`: checked and proved; overflow handler, critical sections, restarts.
5. `SpiDma`: checked and proved (section 5); edges, the interrupt, the timeout.
6. `Nand` against `AbstractFlash`: checked and proved; reads over page ends, writes,
   erasures, failures in between.
7. `Workload`: the generator and where the query build looks; checked and proved.
8. `OverlapSearch`: extends `SearchList`; checked and proved.
9. `Rerank`: checked and proved.

Every safety property of the runs is proved; what is left to TLC is at the end of
section 5. The runs stand for one question each; another run would have to replace one.

## 3. Modules

**AbstractCheckpoint** is the promise: a program with one memory and one durable
image; a save replaces the whole image at once, a failure loses the memory, a
restart returns exactly the durable image (or starts afresh, or gives up).

**Checkpoint** is `checkpoint.c` and `snapshot.asm`, one action for each store or
transfer that a failure can separate from the next: `Begin`, `OpenSlot`,
`SaveStorage` ... `SaveRegs`, `Branch`, `Flip`, `Mark`, `End` for
`CHECKPOINT()`; `Boot`, `FreshStart`, `RestoreError`, `RestoreBegin`, `LoadPtr`
... `LoadRegs` for `RESTORE()`. The memory a snapshot covers is five regions; a
region's content is the moment it last changed, so regions that do not belong
together can be told apart. `snapshot_reg` and `usCriticalNesting` are modelled
as the copies of themselves inside the saved `.bss` and `.data` (`ptrIn`,
`nestIn`), because a restore overwrites them half-way. A resume enters
`checkpoint()` at the call of `snapshotReg` or behind it, depending on the
compiled frame: both are allowed. `Work` is the task, `Interrupt` any handler
while interrupts are on, `PowerFail`, `PowerFailInSave` and `PowerFailInLoad` a
failure between steps and inside a transfer. `CheckpointInv` holds the inductive
invariant, `CheckpointProofs` the proofs.

**BestFirstSearch** is what a query promises: a beam search over the graph, with
nothing said of lists, counters or the order of neighbours.

**SearchList** is `query_ops.c` and the loop of `query()`. A candidate is named
by its vector, a page of neighbours is `graph[v]`, a code with its table lookup
`distance[v]`. `InitSearchLog` resets what `init_search_log()` resets and no
more; everything else is still what the interrupted query left. `Allocate`,
`WithCandidate` and `Prune` are the three parts of an `add_to_L()` with the
`prune_L_lazy()` behind it; `Expand`, `ExpandedLogFull` and `Finish` are the head
of the loop, `LookAt` its body. `SearchProofs` has the inductive invariant,
the proofs and the refinement of `BestFirstSearch`.

**OverlapSearch** extends `SearchList` by the overlapped form of the loop. The
DMA is one more actor: `StartTransfer` sets it up for a candidate and one of
the two buffers, `TransferDone` is its end at any later moment. `Miss`,
`Command`, `MissOtherCmp` and `Poll` are the way to a page that is not in the
chip, with the candidate entered in the log while the chip is busy;
`HitOtherCmp` the way to one that is; `Compute` inserts the candidate before
while the code of this one arrives; in `DuplicateNeighbor` and `Drain` the
pipeline runs empty. What a buffer
holds is whose code arrived there, so that a distance computed from the wrong
one can be seen. The second half of `SearchProofs` is about this module and uses
the lemmas of the first.

**Rerank** is the end of `query()`: the exact distances in batches (or one by
one, or by the long PQ code and then exactly for the first few), the insertion
sort in FRAM one store at a time, the copy of the answer, and `compute_recall()`
as an operator, although its one call (`main_graphsearch.c:243`) is commented out.
The ground truth is given by what its entries are, the g-th
smallest of all distances, and not by a way to compute it. A failure leaves the
arrays as they are and starts the query over. What the search expanded may be in
any order; with partial reranking it is sorted by PQ distance as it is filled
(`graphsearch.c:349-368`), which is one of them. `LONGPQ_EXACT_TOPK` is taken to
be no less than `TOP_K_VALUE`. `graphsearch_test()` compares it with `MAX_L_SIZE`
instead, and with the values of the repository, 30 and 10, halts as
misconfigured if `RERANK_MODE_CPU_LONGPQ` is selected. `RerankProofs` has the proofs.

**QueryLoop** is the workload from reset to `BP_FINISHED`: `NextQuery`,
`ClearPage`, `ReadQueries`, `NotePage`, `CopyVector` up to the query;
`SampleEnergy`, `WaitForEnergy`, `StartSearch`, `ReadEntry`, `Expand`, `Rerank`,
`RerankOn` for `query()`; `Save` and `Mark` for a checkpoint, after which the
program goes on at `After[point]`, at once or from a restore; `Account`,
`CountMiss`, `ResetRestarts`, `CountCompleted`, `Advance` for the stores behind
the checkpoint. `page_in_buffer` is what the driver believes the chip holds,
`cache` what it holds. `QueryLoopProofs` holds the inductive invariant and the
proofs.

**Timer** is the clock of `my_timer.c`. `Tick` is the hardware: the counter
`TA2R` runs whatever the program does, `TAIFG` waits for `A2_ISR` while
interrupts are off, and a second overflow in that time is lost. `ReadHigh1`,
`ReadCnt` and `ReadHigh2` are the three readings of `get_current_tick()`, on
behalf of whoever called it (`caller`); `StartSegment`, `AddSegment` and
`NextSegment` the accounting of active time; `EnterCheckpoint` ...
`LeaveCheckpoint` the critical section of `CHECKPOINT()`. The account has 64
bits and is in FRAM, where a 16-bit CPU stores four words: `FailInAddition` is a
failure of the supply between them, after which any of the words are new and the
others old. What the accounts should be is kept beside them in history variables
(`time`, `banked_time`), and what torn additions made of them (`torn`). The other
accounts need no such step: `elapsed_tick += 0x10000` changes one word, and
`segment_start_tick`, torn or not, is set again by the next boot.
`TimerProofs` has the proofs.

**SpiDma** is one read from the page buffer of the chip: the CPU (`Call` to
`Return`, an action for each store to a register another actor looks at), UCA3
and the chip (`Load`, `Exchange`), the two DMA channels (`MoveIn`, `MoveOut`)
and the interrupt handler. `overlapped` chooses between `spi_recv_dma()` and its
two halves with the caller's work in between. A byte of the page is its number,
so a byte lost, doubled or out of place can be seen. `SpiDmaProofs` holds the
inductive invariant and the proofs.

**AbstractFlash** is what the driver promises: an array of pages and no buffer.
**Nand** is the driver, one action for each command to the chip and each store
to `page_in_buffer`; the chip is its page buffer `cache` and `flash`. `Checkpoint` and
`Restore` are what `CHECKPOINT()` and `RESTORE()` do to `page_in_buffer`, which is
in `.data`: a boot sets it to "no page" in `spi_nand_init()`, and the restore
behind it (`main.c:167`, then `199`) to the row that was in the buffer in another
life, while the chip's buffer is empty (`restored`, until a page is read).
The driver alone would serve that row from the empty buffer. What keeps it from
doing so is the order in which its callers read, so this is a precondition of
`read_op`: `CallerAsksFor` says that the first read after a restore is not of the
restored row, and that no read touches the last page. That the query build keeps
the former is `ReadsTheRightPage` of `QueryLoop`, with `page_in_buffer`, the
checkpoints and the callers modelled; the generator makes no checkpoints. The
driver's answer is the abstract one while it is being returned. `NandProofs` has
the proofs, the refinement among them.

**Workload** is `main_workload()`: `OpenSection`, `AppendEntry`, `FlushFirst`,
`WritePage`, `ClearBuffer`, `RewindBuffer`, `CloseSection` for each of the eight
sections, with the ground truth's different order of check and append;
`PowerFail` takes RAM and leaves the buffer. Then the query build boots, erases
`ClearedBlocks` blocks, and `Finds`, `FindsArray` and `FindsGroundTruth` are its
page and offset arithmetic, applied to what is there. `Layout` says what must be
true of the page numbers in the query build: that each is where the generator
comes to, that the last section ends above page 0 with a page to spare and above
the cleared blocks, and that what is read as one array fills its pages.
`MCWorkload` asks it of the numbers in the source, too, with the sizes of
`vectors_config.h` and `mapping.h` and the counts of `workload.h` (`SiftLayout`).
`WorkloadProofs` has the proofs.

Definitions announced as a *Variant* are mistaken forms of the definition that
follows them. Nothing uses them: `PROJECT.json` lists, for each property, the
variant that it must notice.

## 4. Runs

| run | checks | states |
|---|---|---|
| `checkpoint` | `Inv`, `RegistersFromRestartSlot`, `CriticalSectionsBalanced`, `ResumedMemoryIsTheCheckpoint`, `RestartImageFrozen`, `DurableNeverRegresses`, `AtomicDurableSave`: any sequence of saves, failures and restores keeps and returns the memory as one atomic, durable image | 938,531 |
| `checkpoint_gap` | `AlwaysResumes`, violated | |
| `search_list` | `TypeOK`, `CountsMatchList`, `ListIsBestOfSeen`, `SearchConverged`, `ExpandedOnce`, `ImplementsBestFirst`, `QueriesEnd`: each query is a best-first search that ends, whatever interrupted queries left | 123,833 |
| `query_loop` | `TypeOK`, `QueryInputIsCorrect`, `ReadsTheRightPage`, `AnswersEachOnce`, `OutcomesAddUp`, `MissesAreFailures`, `WorkloadFinishes`: no query skipped, repeated or searched with the vector of another; accounts bounded; the workload ends | 208,447 |
| `query_loop_resume` | `ResumesInterruptedQueries`, violated | |
| `timer` | `TypeOK`, `ReadsTheTime`, `BankedToTheTick`: the clock is right when it is read, active time is right modulo whole overflows and what torn additions made of it | 4,536,571 |
| `timer_bank` | `BanksOnlyElapsedTime`, violated | |
| `spi_dma` | `DoneMeansReceived`, `BusIsQuiet`, `NeverTimesOut`, `ReadsEnd`: a read brings every byte, leaves the bus quiet and ends | 1,584 |
| `nand` | `BufferIsThePage`, `ImplementsFlash`: callers that meet the precondition cannot tell the page buffer from none, over failures, checkpoints and restores | 285,594 |
| `workload` | `FindsWhatWasWritten`, `GeneratorChecksPass`, `ProgramsErasedPages`: generator and query build agree on where everything is; the real page numbers satisfy `Layout` (`SiftLayout`) | 78,046 |
| `overlap_search` | `BusIsFree`, `CodesAreOwn`, `ListLeadsByOne`, `OverlapQueriesEnd`: the pipeline computes the right distances and ends | 24,909 |
| `rerank` | `SortLosesNothing`, `AnswerIsNearest`, `RecallCountsTheNearest`: the answer and its recall are right in every mode | 464,613 |

A module's type invariant is a property of its own or the first conjunct of one
of these. Each run has its module `MC...` and configuration `MC....cfg`.

**Bounds.** In `Checkpoint` the slots, regions and steps are those of the code;
only `MaxClock` bounds how often memory changes, and the number of failures is
not bounded at all. Two changes suffice to have a slot older than the other and
both older than memory; the proofs cover every `MaxClock`. `SearchList` has six
vectors of degree two on a tree, a cycle with chords, a graph with a detour and
one that reaches all six, lists of one and three entries and every distance
pattern around the entry vector, with ties: lists overflow, are pruned, lose
visited and unvisited entries and meet pruned vectors again. The candidate logs
have room for five and `expanded_log` for four, so some queries just fit and
others stop the program at either array (`TypeOK` bounds both), again after
each restart. `QueryLoop` replays five queries on
three pages of two with three failures; its call counter has four values, so that
3 and 0, both multiples of three, follow each other as 255 and 0 do in the
`uint8_t` of the code. `Timer` counts to three and extends that to nine, in two
lives of ten ticks together: the counter wraps between any two readings, twice
in one critical section, and `elapsed_tick` itself wraps. What the code does in
microseconds is taken to be over before the counter comes round, which takes
8 ms (`Brief`); a critical section is not. An addition can be torn in each life,
and banks follow a torn one. `SpiDma` has a command of two bytes,
reads of one to four, one after the other without bound, and a timeout of five
polls, the tightest its assumption allows; a read of one byte is the one for
which DMA5 has nothing to send. The proofs cover every length. `Nand` has four
pages of two bytes in blocks of two and reads of up to four bytes: reads that
end at a page's end, run over one or over two; failures are not bounded.
`Workload` has pages of eight bytes with entries of one, two and three: sections
that fill pages, leave a rest, or end in the middle of one, and two failures, so
that a restart itself can be interrupted. `OverlapSearch` has six vectors with
three neighbours, whose codes lie on two pages, and a beam of two: page hits,
misses, candidates already met and full logs follow each other in every order
that two graphs and 243 distance patterns give. `Rerank` has one to four
expanded vectors of four in batches of two, all orders of their distances, one
failure. `CHECK_DEADLOCK FALSE` is set where the program is over or halted, or
the failures of the bound are used up.

**Fairness.** `SearchList` and `QueryLoop` assume weak fairness of the step the
processor takes: while it has power it runs, and the RTC ends a wait. Power
failures are never fair, and `Expand` of `QueryLoop` is not either: that a search
ends is what `QueriesEnd` of `SearchList` shows. `QueriesEnd` supposes that
failures stop at some point, without which no query need ever finish. `SpiDma`
and `OverlapSearch` assume weak fairness of the program and, apart from it, of
the hardware: DMA and UART go on while the CPU polls, and the CPU polls while
they do. `Nand`, `Workload`, `Rerank` and `Timer` state no liveness and assume
no fairness.

**What the violations show.** `checkpoint()` flips `snapshot_head` before it
marks the slot it retires, and `restore()` stops for good at a restart slot that
is not complete. A failure between the two stores ends the program although the
other slot holds a good checkpoint. Checkpoints are made between queries only,
and `query()` begins by resetting the search log: a query that was interrupted
is searched from the entry vector again, where the README of the repository
says that interrupted queries are resumed "instead of restarting from scratch"
(`src/README.md:27`). `checkpoint()` banks the active time with
interrupts off: if the counter wraps in that moment, the clock reads 0x10000 too
small, and if the last bank was less than that ago, the unsigned difference adds
nearly 2^32 ticks to `cumulative_active_ticks`. `BankedToTheTick` states what
does hold: as long as no addition is torn, modulo 2^32 only whole overflows go
missing, one for each life and those that no handler saw.

**Worth knowing.** A failure between the four word stores of
`cumulative_active_ticks +=` (`my_timer.c:74`) leaves words that do not belong
together. If only the lowest is new, the upper part of the segment is missing
from the account; if only an upper one is, it may count an overflow, or a carry,
that never was. The error is a multiple of 0x10000 ticks of either sign and has no
smaller bound. `BankedToTheTick` keeps it apart (`torn`) and says that it stays
what it was, whatever is banked later, and that the lowest word is always right.

The accounting of a query is behind its checkpoint, so each
failure and each energy wait until the next checkpoint has it done again:
`distinct_completed_count + distinct_miss_count` exceeds `replay_head`, and a
restart during query r is booked on query r - 1. `OutcomesAddUp` states the
bound that does hold: no more than one too many per restart.

`query()` samples the voltage, but whether it sleeps is decided by its counter
of calls, every third time, where the README says that the system sleeps when
energy is short (`src/README.md:38`). The model has no voltage: nothing in the
selected build reads it.

In the overlapped search the last candidate of an expansion is inserted behind
the cut that resets the counter, so the list can be longer than
`search_log_candidate_count` by one. The loop compares the counters, and may
therefore end with an unexpanded candidate in the beam, where the plain search
would go on: `SearchConverged` does not hold of it and is not claimed.
`ListLeadsByOne` states what does.

The generator's page buffer is in FRAM and its page number is not. If a failure
interrupts it with entries in the buffer, the next start puts them in front of
the code book and shifts the first section. `FindsWhatWasWritten` and
`GeneratorChecksPass` hold of every other history, among them failures between
pages and behind the end (`dirty` tells them apart).

## 5. Proofs

`CheckpointProofs` proves every property of the run `checkpoint` as a theorem of
`Spec`, from `MaxClock \in Nat \ {0}` and `NoImage` being no memory image. The
argument is the inductive invariant `Inv`: at each step of `checkpoint()` the
regions copied so far are equal in memory and in the open slot (`OpenInv`),
interrupts are off so nothing changes them (`NestingInv`), the restart slot is
whole and names itself in its saved pointer and nesting count (`RestartInv`),
and at each step of `restore()` the regions copied so far are equal in memory and
in that slot (`LoadInv`). `PhaseInv` separates a first return of `snapshotReg`
from a second, `CleanInv` says that no running program holds a torn region. The
properties alone are not inductive: `RegistersFromRestartSlot`, for one, needs
that the saved `.bss` was taken after `snapshot_reg` was set to the slot it went
to. The refinement maps the abstract memory to the five regions while the
program is up and the durable image to the restart slot; the flip is the
abstract save, every other step of `checkpoint()` stutters.

`SpiDmaProofs` proves the three invariants of the run `spi_dma` for every length
of command and read, from the sizes being positive and the timeout longer than
the longest read, as 10000 polls are against 2048 bytes. None of them is
inductive. `IInv` counts the bytes: those received are in memory or in
`UCA3RXBUF` (`ReceiveInv`), those DMA5 has sent are received, on the wire or in
`UCA3TXBUF` (`SendInv`), and a channel is triggered exactly while its flag is up.
`CommandInv` says the same of the bytes of the command, `ArmInv` that nothing
moves while the channels are set up, which is what the order of the stores in
`spi_recv_dma()` is for, and `IdleInv` that a read leaves all this as it found
it. No poll is wasted (`SendInv` bounds the polls by the bytes received), so the
timeout cannot run out before the last byte: lemma `InFlight` shows that as long
as something is missing it is on its way.

`NandProofs` proves both properties of the run `nand` for every geometry of the
chip and every length of read, from `GeometryAssumption`: sizes are positive.
Both are of a driver whose callers meet `CallerAsksFor`: it is the guard of
`read_op`, and for the query build `QueryLoopProofs` proves the part of it that is
about restores (`PagesCorrect`). `BufferIsThePage` needs that reads stay in
front of the last page, whose number is `UINT16_MAX` and means no page, that a
read which follows a restore looks for another page than the restored one
(`ReadInv`), and that nothing is thought to be in the buffer while the first boot
erases blocks (`ClearInv`). For the refinement
`AnswerInv` says that what `read_op()` has collected is always the first bytes of
what it was asked for, counted over page ends, and that it goes on with the next
one; lemma `FetchedIsNext` shows that each pass of its loop keeps that. The
last pass is then the abstract read, `program_execute()` the abstract
write (`WriteInv`: of what the caller gave), erasures and failures their abstract
counterparts, and every other step stutters.

`QueryLoopProofs` proves the invariants of the run `query_loop` for every number
of queries, of queries on a page, of values of the call counter and of failures,
from all of them being positive. `answered` is exactly the set of queries that
lie before the snapshot, up to and with its own if that was made at the end of a
query (`SnapshotInv`); the running program is where the snapshot was made or one
query ahead (`ProgressInv`). With that the page of queries in FRAM is the page
noted from the time it is noted until a checkpoint from which it is read again
(`InputInv`): this is why `CHECKPOINT_READ_DATA` must come in front of the
`memset()`, and it gives `QueryInputIsCorrect`. `PageInv` says which pages a
snapshot can have in `page_in_buffer`, those of reranking and of the codebook;
none of them is what the program reads first after a restore, so that the stale
value does no harm. `RestartInv` pairs restarts and misses with failures,
`CountInv` bounds the double counting at every step, not at the head of the loop
only.

`SearchProofs` proves the five invariants of the run `search_list` and its
refinement, for every finite set of vectors, every graph, all distances and list
sizes, from the assumptions that `SearchList` states of its constants. The
linked list is seen as a whole, as `Ordered(list)`: `InsertKeepsOrder` and
`CutKeepsOrder` are what an insertion and a cut do to it. Where the code walks
the list, for the place of an insertion or the first unvisited entry, the model
chooses a least index; `LeastElement`, which follows from `<` being well founded
on the naturals, stands in for the induction that the provers cannot do. The
properties are not inductive. `TailInv` says what `search_log_sorted_tail` is
good for: once set, it is the last entry of a full list, so that a rejected
candidate is no closer than a whole list. `VisitedInv` separates the flags set in
this query from those left over: the vectors that were both met and flagged are
those in `expanded_log`. `EntryInv` is why the first insertion finds everything
reset, whatever a query before left. `NeighborInv` and `DoneInv` give
`SearchConverged`. In the refinement `Add` is the sight of a new vector, `Expand`
the abstract expansion, and a neighbour that was met before stutters.

It also proves the three invariants of the run `overlap_search`,
for every graph, all distances and every placement of the codes on pages. Up to
two vectors are on their way, `prev` and the present one (`Pending`): `ListInv`
says that with them nothing is missing from the list, `CountInv` that the counter
is ahead of the list by them, up to the beam; the cut in `Compute` then drops
only vectors that are no closer than a whole beam (`Pruned`), and in
`SettlePrev` cuts nothing at all. For the hardware, `TransferInv` says that the
one transfer is that of the vector entered last and that the page of its code is
in the chip, `BufferInv` that its buffer is not that of `prev`, `CacheInv` that
`page_in_buffer` is wrong only between a command and the poll behind it. That
`prev` is waited for in front of each command (`NotWaiting`) then gives
`BusIsFree`, and the buffers taking turns `CodesAreOwn`.

`TimerProofs` proves the invariants of the run `timer` for counters and accounts
of any width, from `Modulus` being a multiple of `Wrap` and both larger than one.
All of it is congruence modulo `Modulus`. `OverflowInv` says that
an overflow in the middle of a reading shows in `elapsed_tick`, once; `ReadInv`
that a reading which is about to succeed is the time less at most one overflow,
and less none outside a critical section; `OrderInv` that a segment begins where
the last one was banked or later. `BankInv` counts the overflows by which the
running time, the segment and the account are behind, each as a sum in which
those missed at a reading come back at the next. An overflow that is missing was lost, or was
waiting when its life ended, hence the bound of `BankedToTheTick`. For the torn
additions `MixedWords` shows that a number with some words of one account and some
of another is a natural number and has the lowest word of one of them: `TornInv`,
that `torn` is a multiple of `Wrap`. `BankInv` speaks of the account plus `torn`,
to which an addition that stored the lowest word has added the segment as a whole
one does (`SegmentCounted`), and any other nothing.

`RerankProofs` proves the invariants of the run `rerank` for every number of
vectors, size of batch, of answer and of `expanded_log`, any distances and any
number of failures. The sort in place is seen as an array with a gap: the slot
whose entry has been copied behind it or into the key. `SortInv` says that the
slots that are no gap, and the key, hold each candidate once and with its
distance, and lemmas `TakenOut`, `MovedUp` and `PutDown` how a set of slots
changes with each store. `SortedInv` adds that what was passed is ascending and
no smaller than the key. `BatchInv` ties the batch in LEA RAM to the entries to
be measured next. For `RecallCountsTheNearest` lemma
`NearerNumbers` compares how many vectors are nearer than a distance and how many
as near: a distance of the answer is one of the ground truth exactly if it is
not beyond its last.

`WorkloadProofs` proves the properties of the run `workload` for every size of
page and block and all sizes and numbers of entries, from `Layout` and from
every entry fitting in a page. `On(s, g)` is the number of entries of `s` on its
first `g` pages, `InBuffer` what is behind them in the buffer: `RoomInv` says
that the head is that many entries from the buffer's start, and that a page goes
to the flash when it is full or the section over. `LeftInv` is the same for the
first section of a generator that found bytes in its buffer: one page more, which
is why `Layout` wants a page to spare. The products of pages and entries are
compared by `PerPage`, `PageCount`, `MorePages`, `PageAway` and `AllPages` only.
`DataInv` says which entry is in which place of which page, in the flash and in
the buffer; `SectionsFit` that the sections do not overlap, `PagesAbove` that the
first boot of the query build erases none of them. `PlaceOf`, `AddressIs` and
`QuotientIs` then show that each of the query build's ways to an entry, the
address in its mapping entry, whole pages read as an array, and a number of
entries per page, comes to its place.

Only model-checked: liveness (`QueriesEnd`, `WorkloadFinishes`, `ReadsEnd`,
`OverlapQueriesEnd`), which is out of the prover's reach, and the three runs that
expect a violation.

## 6. Not modelled

- **Vendored code and demonstrations**: `driverlib/`, `dsplib/`, `FatFs/`,
  `SDCardLib/`, `HAL/` and their examples, nine tenths of the lines in the
  repository. Their authors' properties are not this program's. What the
  firmware uses of the hardware they describe is modelled from that use: UCA3
  and DMA in `SpiDma`, the flash chip in `Nand`, Timer A2 in `Timer`.
- **Files without code**: every line of `insert_ops.c`, `delete_ops.c`,
  `delta_store.c`, `merge_ops.c`, `garbage_collection.c` and
  `main_checkpoint.c`, and most of `pq_codec.c`, is commented out in this
  revision. There is no behaviour to model.
- **Builds that `config.h` does not select**, but for the three named at the
  top: `CODE_MODE_ORIGINAL`, the unsorted list, pruning by length, UCB0 and
  busy-polled transfers, `EXP_POWER_EVENT`, `EXP_REPLAY`.
- **Arithmetic on vectors**: PQ tables, LEA calls and squared distances are data
  to the list and to reranking. The LEA calls succeed: the checks of their
  status, which lead to `BP_ERROR`, are left out. Whether their 16-bit products fit depends on the
  vectors, which are not in the repository.
- **The voltage log**: with the selected build nothing reads
  `last_voltage_log_idx` (`set_last_voltage_op()` belongs to `EXP_REPLAY`).
- **Statistics**, timing averages and printing.
- **Hardware set-up and the FreeRTOS kernel**: register values, and a kernel
  whose source is not in the repository; its tick is the `Interrupt` of
  `Checkpoint`.
- **A flash chip that fails**: the query build does not look at `P_FAIL` and
  `E_FAIL`, the generator stops the program at either, ECC is switched off: there
  is no handling to model.
