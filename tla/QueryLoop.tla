----------------------------- MODULE QueryLoop -----------------------------
(***************************************************************************)
(* The workload of src/graphsearch/main_graphsearch.c from reset to        *)
(* BP_FINISHED: main(), the replay loop of graphsearch_test(), QUERY(),    *)
(* the forced energy waits, and what a restart restores and what it does   *)
(* not.  A checkpoint is atomic here, except for the gap between its last  *)
(* two stores: the module Checkpoint shows that this is what the double    *)
(* buffer amounts to.                                                      *)
(*                                                                         *)
(* A definition announced as a Variant is the following definition with a  *)
(* mistake; nothing uses it.  It is there to show that a property would    *)
(* notice the mistake.                                                     *)
(***************************************************************************)
EXTENDS Integers, FiniteSets

CONSTANTS
  ReplayCount,     \* REPLAY_COUNT
  VecsPerPage,     \* QUERY_VECS_PER_PAGE
  CounterSize,     \* values of force_wait_counter: 256 for a uint8_t
  MaxFailures      \* bound on the power failures of one behaviour

ASSUME ReplayCountAssumption == ReplayCount \in Nat \ {0}
ASSUME VecsPerPageAssumption == VecsPerPage \in Nat \ {0}
ASSUME CounterSizeAssumption == CounterSize \in Nat \ {0, 1}
ASSUME MaxFailuresAssumption == MaxFailures \in Nat

Queries == 0..(ReplayCount - 1)
QueryPages == {q \div VecsPerPage : q \in Queries}

\* Flash pages, named for what they hold.
NoPage == <<"none", 0>>                   \* UINT16_MAX
QueryPage(i) == <<"query", i>>
Codebook == <<"codebook", 0>>
Candidates == {<<"L1", 0>>, <<"L1", 1>>}
Neighbours == {<<"neighbor", 0>>}
FullVectors == {<<"fullvec", 0>>, <<"fullvec", 1>>}
Pages == {NoPage, Codebook} \union {QueryPage(i) : i \in QueryPages}
           \union Candidates \union Neighbours \union FullVectors

\* Variant: the checkpoint of a query is made in front of its reranking.
AfterWithRerankLast == [ckpt_init |-> "init", ckpt_read |-> "read_clear",
                        ckpt_query |-> "rerank",
                        ckpt_finished |-> "finished"]

\* Where the program goes on after a checkpoint made at one of these points.
After == [ckpt_init |-> "init", ckpt_read |-> "read_clear",
          ckpt_query |-> "account", ckpt_finished |-> "finished"]

VARIABLES
  pc,                   \* where the program is
  \* FRAM, not part of a checkpoint
  last_read,            \* last_read_q_page_idx
  workload_page,        \* the page workload_page was read from
  workload_vector,      \* the query whose vector workload_vector holds
  force_wait_counter,
  in_energy_wait,
  wait_for_energy_count,
  restart_count,        \* restart_count_this_query
  query_restart_count,
  missed,               \* distinct_miss_count
  completed,            \* distinct_completed_count
  \* FRAM, restored from the checkpoint
  replay_head,
  \* the checkpoint
  snapshot,             \* what the restart slot holds
  status,               \* and its status
  \* RAM and the flash chip
  page_in_buffer,       \* .data: saved in and restored from the checkpoint
  cache,                \* the page the NAND chip's own buffer holds
  \* history
  answered,             \* queries whose search is part of a checkpoint
  failures              \* power failures so far

accounts == <<restart_count, query_restart_count, missed, completed>>
waits == <<force_wait_counter, in_energy_wait, wait_for_energy_count>>
inputs == <<last_read, workload_page, workload_vector>>
checkpoint == <<snapshot, status, answered>>
chip == <<page_in_buffer, cache>>
vars == <<pc, inputs, waits, accounts, replay_head, checkpoint, chip,
          failures>>

GoTo(from, to) == pc = from /\ pc' = to

-----------------------------------------------------------------------------
\* last_read_q_page_idx is NOINIT: its first value may be any.
Init ==
  /\ pc = "off"
  /\ last_read \in QueryPages
  /\ workload_page = NoPage
  /\ workload_vector = ReplayCount
  /\ force_wait_counter = 0
  /\ in_energy_wait = FALSE
  /\ wait_for_energy_count = 0
  /\ restart_count = 0
  /\ query_restart_count = [q \in Queries |-> 0]
  /\ missed = 0
  /\ completed = 0
  /\ replay_head = 0
  /\ snapshot = [at |-> "init", head |-> 0, buffered |-> NoPage]
  /\ status = "NULL"
  /\ page_in_buffer = NoPage
  /\ cache = NoPage
  /\ answered = {}
  /\ failures = 0

\* Variant: wait_for_energy() has not armed the RTC.
BootAfterFailureOnly ==
  /\ pc = "off"
  /\ pc' = "restore"
  /\ page_in_buffer' = NoPage
  /\ cache' = NoPage
  /\ UNCHANGED <<inputs, waits, accounts, replay_head, checkpoint, failures>>

\* Reset, after a power failure or by the RTC in LPM4.5: .data is
\* initialised, spi_nand_init() finds the flash chip's buffer empty.
Boot ==
  /\ pc \in {"off", "asleep"}
  /\ pc' = "restore"
  /\ page_in_buffer' = NoPage
  /\ cache' = NoPage
  /\ UNCHANGED <<inputs, waits, accounts, replay_head, checkpoint, failures>>

FreshStart ==
  /\ GoTo("restore", "ckpt_init")
  /\ status = "NULL"
  /\ UNCHANGED <<inputs, waits, accounts, replay_head, checkpoint, chip,
                 failures>>

\* SET_BREAKPOINT(BP_ERROR_CKPT)
RestoreError ==
  /\ GoTo("restore", "halted")
  /\ status = "INCOMPLETE"
  /\ UNCHANGED <<inputs, waits, accounts, replay_head, checkpoint, chip,
                 failures>>

\* Variant: waking up from an energy wait counts as a restart too.
RestartedWhenever == restart_count' = restart_count + 1

\* restore() counts a restart that ended no energy wait.
Restarted ==
  restart_count' = IF in_energy_wait THEN restart_count ELSE restart_count + 1

\* restore(): the task is back behind its checkpoint, with the RAM of then.
Restore ==
  /\ pc = "restore"
  /\ status = "COMPLETE"
  /\ pc' = snapshot.at
  /\ replay_head' = snapshot.head
  /\ page_in_buffer' = snapshot.buffered
  /\ Restarted
  /\ UNCHANGED <<inputs, waits, query_restart_count, missed, completed,
                 checkpoint, cache, failures>>

\* CHECKPOINT(), up to the flip of snapshot_head.
Save ==
  /\ pc \in DOMAIN After
  /\ pc' = "mark"
  /\ snapshot' = [at |-> After[pc], head |-> replay_head,
                  buffered |-> page_in_buffer]
  /\ status' = "INCOMPLETE"
  /\ answered' = IF pc = "ckpt_query" THEN answered \union {workload_vector}
                                      ELSE answered
  /\ UNCHANGED <<inputs, waits, accounts, replay_head, chip, failures>>

\* open_snapshot->status = COMMIT_COMPLETE
Mark ==
  /\ pc = "mark"
  /\ pc' = snapshot.at
  /\ status' = "COMPLETE"
  /\ UNCHANGED <<inputs, waits, accounts, replay_head, snapshot, answered,
                 chip, failures>>

-----------------------------------------------------------------------------
\* read_op_dma() and add_to_L: a page the driver believes to be in the
\* chip's buffer is not loaded again.
ReadPage(p) ==
  /\ page_in_buffer' = p
  /\ cache' = IF page_in_buffer = p THEN cache ELSE p

\* init_graphsearch(): the codebooks.
InitGraphsearch ==
  /\ GoTo("init", "loop")
  /\ ReadPage(Codebook)
  /\ UNCHANGED <<inputs, waits, accounts, replay_head, checkpoint, failures>>

PageOf(q) == q \div VecsPerPage

\* Variant: the first query takes the page index in FRAM at its word.
PageIsStaleAfterFirst == PageOf(replay_head) # last_read

PageIsStale == replay_head = 0 \/ PageOf(replay_head) # last_read

\* Variant: replay_head <= REPLAY_COUNT.
NextQueryOneTooMany ==
  /\ pc = "loop"
  /\ pc' = IF replay_head > ReplayCount THEN "ckpt_finished"
           ELSE IF PageIsStale THEN "ckpt_read"
           ELSE "copy"
  /\ UNCHANGED <<inputs, waits, accounts, replay_head, checkpoint, chip,
                 failures>>

\* The head of the loop.
NextQuery ==
  /\ pc = "loop"
  /\ pc' = IF replay_head >= ReplayCount THEN "ckpt_finished"
           ELSE IF PageIsStale THEN "ckpt_read"
           ELSE "copy"
  /\ UNCHANGED <<inputs, waits, accounts, replay_head, checkpoint, chip,
                 failures>>

\* memset()
ClearPage ==
  /\ GoTo("read_clear", "read")
  /\ workload_page' = NoPage
  /\ UNCHANGED <<last_read, workload_vector, waits, accounts, replay_head,
                 checkpoint, chip, failures>>

ReadQueries ==
  /\ GoTo("read", "read_note")
  /\ ReadPage(QueryPage(PageOf(replay_head)))
  /\ workload_page' = cache'
  /\ UNCHANGED <<last_read, workload_vector, waits, accounts, replay_head,
                 checkpoint, failures>>

NotePage ==
  /\ GoTo("read_note", "copy")
  /\ last_read' = PageOf(replay_head)
  /\ UNCHANGED <<workload_page, workload_vector, waits, accounts, replay_head,
                 checkpoint, chip, failures>>

\* The vector at the entry of this query, in whichever page is there.
CopyVector ==
  /\ GoTo("copy", "query")
  /\ workload_vector' =
       IF workload_page = NoPage THEN ReplayCount
       ELSE (workload_page[2] * VecsPerPage) + (replay_head % VecsPerPage)
  /\ UNCHANGED <<last_read, workload_page, waits, accounts, replay_head,
                 checkpoint, chip, failures>>

\* query() counts its calls; the voltage it samples is logged and used no
\* further.
SampleEnergy ==
  /\ GoTo("query", "choose")
  /\ force_wait_counter' = (force_wait_counter + 1) % CounterSize
  /\ UNCHANGED <<inputs, in_energy_wait, wait_for_energy_count, accounts,
                 replay_head, checkpoint, chip, failures>>

\* Every third call, wait_for_energy() sleeps until the RTC resets the CPU.
WaitForEnergy ==
  /\ GoTo("choose", "asleep")
  /\ force_wait_counter % 3 = 0
  /\ in_energy_wait' = TRUE
  /\ wait_for_energy_count' = wait_for_energy_count + 1
  /\ UNCHANGED <<inputs, force_wait_counter, accounts, replay_head, checkpoint,
                 chip, failures>>

StartSearch ==
  /\ GoTo("choose", "search")
  /\ force_wait_counter % 3 # 0
  /\ in_energy_wait' = FALSE
  /\ UNCHANGED <<inputs, force_wait_counter, wait_for_energy_count, accounts,
                 replay_head, checkpoint, chip, failures>>

\* add_to_L() of the entry vector.
ReadEntry ==
  /\ GoTo("search", "expand")
  /\ \E p \in Candidates : ReadPage(p)
  /\ UNCHANGED <<inputs, waits, accounts, replay_head, checkpoint, failures>>

\* The search goes on, with a page of neighbours or of candidates.
Expand ==
  /\ GoTo("expand", "expand")
  /\ \E p \in Neighbours \union Candidates : p # page_in_buffer /\ ReadPage(p)
  /\ UNCHANGED <<inputs, waits, accounts, replay_head, checkpoint, failures>>

\* rerank_searchlist() reads the full vectors of all that was expanded.
Rerank ==
  /\ GoTo("expand", "rerank")
  /\ \E p \in FullVectors : ReadPage(p)
  /\ UNCHANGED <<inputs, waits, accounts, replay_head, checkpoint, failures>>

RerankOn ==
  /\ pc = "rerank"
  /\ pc' = "ckpt_query"
  /\ \E p \in FullVectors : ReadPage(p)
  /\ UNCHANGED <<inputs, waits, accounts, replay_head, checkpoint, failures>>

\* What graphsearch_test() does with a query that is answered: one store to
\* FRAM after the other.
Account ==
  /\ GoTo("account", "outcome")
  /\ query_restart_count' =
       [query_restart_count EXCEPT ![replay_head] = restart_count + 1]
  /\ UNCHANGED <<inputs, waits, restart_count, missed, completed, replay_head,
                 checkpoint, chip, failures>>

CountMiss ==
  /\ GoTo("outcome", "reset")
  /\ restart_count > 0
  /\ missed' = missed + 1
  /\ UNCHANGED <<inputs, waits, restart_count, query_restart_count, completed,
                 replay_head, checkpoint, chip, failures>>

\* Variant: a query that was missed counts as completed as well.
ResetRestartsFallsThrough ==
  /\ GoTo("reset", "outcome")
  /\ restart_count' = 0
  /\ UNCHANGED <<inputs, waits, query_restart_count, missed, completed,
                 replay_head, checkpoint, chip, failures>>

\* Variant: a query that was missed is done again.
ResetRestartsRetries ==
  /\ GoTo("reset", "loop")
  /\ restart_count' = 0
  /\ UNCHANGED <<inputs, waits, query_restart_count, missed, completed,
                 replay_head, checkpoint, chip, failures>>

ResetRestarts ==
  /\ GoTo("reset", "next")
  /\ restart_count' = 0
  /\ UNCHANGED <<inputs, waits, query_restart_count, missed, completed,
                 replay_head, checkpoint, chip, failures>>

CountCompleted ==
  /\ GoTo("outcome", "next")
  /\ restart_count = 0
  /\ completed' = completed + 1
  /\ UNCHANGED <<inputs, waits, restart_count, query_restart_count, missed,
                 replay_head, checkpoint, chip, failures>>

Advance ==
  /\ GoTo("next", "loop")
  /\ replay_head' = replay_head + 1
  /\ UNCHANGED <<inputs, waits, accounts, checkpoint, chip, failures>>

\* The supply may fail at any moment, even during a wait and after the end.
PowerFail ==
  /\ pc # "off"
  /\ failures < MaxFailures
  /\ failures' = failures + 1
  /\ pc' = "off"
  /\ UNCHANGED <<inputs, waits, accounts, replay_head, checkpoint, chip>>

Step ==
  \/ Boot \/ FreshStart \/ RestoreError \/ Restore \/ Save \/ Mark
  \/ InitGraphsearch \/ NextQuery \/ ClearPage \/ ReadQueries \/ NotePage
  \/ CopyVector \/ SampleEnergy \/ WaitForEnergy \/ StartSearch \/ ReadEntry
  \/ Rerank \/ RerankOn \/ Account \/ CountMiss \/ ResetRestarts
  \/ CountCompleted \/ Advance

Next == Step \/ Expand \/ PowerFail

\* The processor runs as long as it has power, the RTC ends every wait, and a
\* search ends, as the module SearchList shows: Step is taken again and again.
Spec == Init /\ [][Next]_vars /\ WF_vars(Step)

-----------------------------------------------------------------------------
Searching == {"search", "expand", "rerank"}

PCs == {"off", "restore", "halted", "init", "loop", "copy", "read_clear",
        "read", "read_note", "query", "choose", "asleep", "account",
        "outcome", "reset", "next", "mark", "finished"}
         \union Searching \union DOMAIN After

\* Every variable stays within its type: the replay counter (an index into
\* query_restart_count) never runs past the end of the workload while a query
\* is in progress, and the counters never run ahead of the failures and waits
\* that there were.
TypeOK ==
  /\ pc \in PCs
  /\ last_read \in QueryPages
  /\ workload_page \in {NoPage} \union {QueryPage(i) : i \in QueryPages}
  /\ workload_vector \in Queries \union {ReplayCount}
  /\ force_wait_counter \in 0..(CounterSize - 1)
  /\ in_energy_wait \in BOOLEAN
  /\ wait_for_energy_count \in Nat
  /\ restart_count \in 0..failures
  /\ query_restart_count \in [Queries -> 0..(MaxFailures + 1)]
  /\ missed \in Nat
  /\ completed \in Nat
  /\ replay_head \in 0..ReplayCount
  /\ snapshot \in [at : {After[c] : c \in DOMAIN After},
                   head : 0..ReplayCount, buffered : Pages]
  /\ status \in {"NULL", "INCOMPLETE", "COMPLETE"}
  /\ page_in_buffer \in Pages
  /\ cache \in Pages
  /\ answered \subseteq Queries
  /\ failures \in 0..MaxFailures

\* A query is searched with its own vector: the page of query vectors and the
\* index of the page last read live in FRAM outside the checkpoint, and a
\* failure between reading the one and noting the other, or a restore of an
\* older replay_head, must not leave the vector of another query in place.
QueryInputIsCorrect ==
  pc \in {"query", "choose"} \union Searching
    => workload_vector = replay_head

\* Whatever the driver reads, it reads from the page it asked for.  After a
\* restore, page_in_buffer says what the chip held before the failure, and the
\* chip holds nothing: the skip of the page load in read_op_dma() is safe
\* only because the first read behind each checkpoint is of another page.
ReadsTheRightPage ==
  pc \in {"read_note", "expand", "rerank", "ckpt_query"}
    => cache = page_in_buffer

\* When replay_head moves past a query its answer is part of a checkpoint, so
\* that none is skipped, and an answered query is never searched again,
\* however often the system restarts.
AnswersEachOnce ==
  /\ pc \in {"loop", "next"} => 0..(replay_head - 1) \subseteq answered
  /\ pc \in {"query", "choose"} \union Searching
       => replay_head \notin answered

\* Each query behind replay_head is counted as missed or as completed.  It
\* may be counted again: the accounting comes behind the checkpoint, and each
\* failure and each energy wait may have it done once more, but no more.
OutcomesAddUp ==
  /\ missed + completed >= replay_head
  /\ pc = "loop" => missed + completed
                      <= replay_head + failures + wait_for_energy_count

\* A miss is a query a power failure interrupted: energy waits, which also
\* reset the processor, make none.
MissesAreFailures == missed <= failures

\* The workload ends, with all of its queries answered, or the system halts
\* on a checkpoint that a failure left half marked: neither the forced waits
\* nor the failures keep it from its end.
WorkloadFinishes ==
  <>(\/ pc = "finished" /\ Queries \subseteq answered
     \/ pc = "halted")

\* README.md on checkpoints: search progress persists, so that an interrupted
\* query is resumed instead of restarted from scratch.  The code makes its
\* checkpoints between queries only: a query that a failure interrupts after
\* its first expansion begins again at the entry vector.
ResumesInterruptedQueries ==
  \A q \in Queries :
    [](pc = "expand" /\ replay_head = q => [](replay_head = q => pc # "search"))
=============================================================================
