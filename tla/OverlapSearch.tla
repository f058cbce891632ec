--------------------------- MODULE OverlapSearch ---------------------------
(***************************************************************************)
(* The search of one query with OVERLAP_MODE_ENABLE: the second form of    *)
(* the loop of query() in src/graphsearch/graphsearch.c and the three      *)
(* parts that add_to_L falls into in query_ops.h.  While the DMA brings    *)
(* the PQ code of a candidate into one buffer, the processor computes the  *)
(* distance of the candidate before it from the other, and inserts it.     *)
(*                                                                         *)
(* The list, its counters and the loop around it are those of SearchList;  *)
(* current_L_size stands for MAX_L_SIZE, and no query is interrupted.  The *)
(* DMA runs beside the program and is done some time later; what it does   *)
(* byte by byte is the subject of SpiDma.                                  *)
(*                                                                         *)
(* A definition announced as a Variant is the following definition with a  *)
(* mistake; nothing uses it.  It is there to show that a property would    *)
(* notice the mistake.                                                     *)
(***************************************************************************)
EXTENDS SearchList

CONSTANTS
  CodePage      \* the L1 page that holds the PQ code of a vector

CodePages == {CodePage[v] : v \in Vectors}
NoPage == "none"
NeighborPage == "neighbor"
Loading == "loading"             \* no page: the chip is busy reading one

ASSUME CodePageAssumption ==
  /\ DOMAIN CodePage = Vectors
  /\ CodePages \intersect {NoPage, NeighborPage, Loading} = {}

VARIABLES
  cache,            \* the page in the cache of the NAND chip
  page_in_buffer,   \* the page the program takes it for
  transfer,         \* the DMA in progress: the candidate, and its buffer
  buffers,          \* whose PQ code pq_prefetch_buf_A and _B hold
  prev,             \* query(): prev_dma_target
  prev_buf,         \* query(): prev_buf
  cur_buf_idx       \* query(): the buffer of the next candidate

flash == <<cache, page_in_buffer>>
pipeline == <<prev, prev_buf, cur_buf_idx>>
logs == <<log_head, hash, visited>>
overlapVars == <<vars, flash, transfer, buffers, pipeline>>

NoTransfer == [vector |-> Null, buf |-> 0]

OverlapInit ==
  /\ Init
  /\ cache = NoPage
  /\ page_in_buffer = NoPage
  /\ transfer = NoTransfer
  /\ buffers = <<Null, Null>>
  /\ prev = Null
  /\ prev_buf = 1
  /\ cur_buf_idx = 1

-----------------------------------------------------------------------------
\* A page that is needed is loaded unless it is the one loaded last.
Load(page) ==
  /\ page_in_buffer' = page
  /\ cache' = IF page_in_buffer = page THEN cache ELSE page

\* query() is called; init_search_log().
Start ==
  /\ \E d \in Distances, l \in ListSizes : InitSearchLog(d, l)
  /\ UNCHANGED <<flash, transfer, buffers, pipeline>>

\* The entry vector: its code is read in one go, and nothing overlaps.
OverlapAddEntry ==
  /\ AddEntry
  /\ Load(CodePage[Entry])
  /\ buffers' = [buffers EXCEPT ![1] = IF cache' = CodePage[Entry]
                                       THEN Entry ELSE Null]
  /\ UNCHANGED <<transfer, pipeline>>

\* The closest candidate is expanded, its neighbours are read from flash, and
\* the pipeline is empty.
OverlapExpand ==
  /\ Expand
  /\ Load(NeighborPage)
  /\ prev' = Null
  /\ cur_buf_idx' = 1
  /\ UNCHANGED <<transfer, buffers, prev_buf>>

OverlapStop ==
  /\ ExpandedLogFull \/ Finish
  /\ UNCHANGED <<flash, transfer, buffers, pipeline>>

-----------------------------------------------------------------------------
Current == graph[p_star][neighbor]

\* Goto(l): the list and everything else of the search are left alone.
Goto(l) ==
  /\ pc' = l
  /\ UNCHANGED <<input, list, counts, expanded_log, p_star, neighbor>>

\* Variant: the index does not move.
AdvanceStays ==
  /\ pc' = "neighbors"
  /\ neighbor' = neighbor
  /\ UNCHANGED <<input, expanded_log, p_star>>

Advance ==
  /\ pc' = IF neighbor < Degree THEN "neighbors" ELSE "drain"
  /\ neighbor' = IF neighbor < Degree THEN neighbor + 1 ELSE 1
  /\ UNCHANGED <<input, expanded_log, p_star>>

\* add_to_L_other_cmp: the candidate is allocated, hashed and counted, before
\* its distance is known and before it is in the list.
OtherCmp(l) ==
  /\ Allocate(Current)
  /\ candidate_count' = candidate_count + 1
  /\ pc' = l
  /\ UNCHANGED <<input, list, visited_count, sorted_tail, expanded_log,
                 p_star, neighbor>>

\* The new neighbour whose page is in the cache, so that its code can be read
\* as soon as the DMA is free.
Hit == page_in_buffer = CodePage[Current]

Waiting == prev # Null /\ transfer # NoTransfer

\* Variant: the page is asked for while the code of prev is still read.
MissAtOnce ==
  /\ pc = "neighbors"
  /\ Current \notin hash
  /\ ~Hit
  /\ Goto("command")
  /\ UNCHANGED <<logs, flash, transfer, buffers, pipeline>>

\* Page miss: prev is waited for, since its code is in the page to be given
\* up.
Miss ==
  /\ pc = "neighbors"
  /\ Current \notin hash
  /\ ~Hit
  /\ ~Waiting
  /\ Goto("command")
  /\ UNCHANGED <<logs, flash, transfer, buffers, pipeline>>

\* page_read_send_cmd_only(): the chip starts to load the page.
Command ==
  /\ pc = "command"
  /\ cache' = Loading
  /\ Goto("other_cmp")
  /\ UNCHANGED <<logs, page_in_buffer, transfer, buffers, pipeline>>

\* Page miss: the candidate is entered while the chip is busy.
MissOtherCmp ==
  /\ pc = "other_cmp"
  /\ OtherCmp("poll")
  /\ UNCHANGED <<flash, transfer, buffers, pipeline>>

\* poll_for_oip() and page_in_buffer = target_page
Poll ==
  /\ pc = "poll"
  /\ cache' = CodePage[Current]
  /\ page_in_buffer' = CodePage[Current]
  /\ Goto("start")
  /\ UNCHANGED <<logs, transfer, buffers, pipeline>>

\* Page hit: the candidate is entered while the DMA reads the code of prev.
HitOtherCmp ==
  /\ pc = "neighbors"
  /\ Current \notin hash
  /\ Hit
  /\ OtherCmp("start")
  /\ UNCHANGED <<flash, transfer, buffers, pipeline>>

\* add_to_L_other_cmp: SET_BREAKPOINT(BP_ERROR).
NoRoom ==
  /\ \/ pc = "other_cmp"
     \/ pc = "neighbors" /\ Current \notin hash /\ Hit
  /\ log_head = Capacity
  /\ Goto("halted")
  /\ UNCHANGED <<logs, flash, transfer, buffers, pipeline>>

\* Variant: the buffers do not take turns.
StartTransferInOneBuffer ==
  /\ pc = "start"
  /\ ~Waiting
  /\ transfer' = [vector |-> Current, buf |-> 1]
  /\ buffers' = [buffers EXCEPT ![1] = Null]
  /\ Goto("compute")
  /\ UNCHANGED <<logs, flash, pipeline>>

\* read_from_cache_x1_dma_wait(), on a page hit, and _start()
StartTransfer ==
  /\ pc = "start"
  /\ ~Waiting
  /\ transfer' = [vector |-> Current, buf |-> cur_buf_idx]
  /\ buffers' = [buffers EXCEPT ![cur_buf_idx] = Null]
  /\ Goto("compute")
  /\ UNCHANGED <<logs, flash, pipeline>>

\* add_to_L_prefetch_compute: prev gets its distance and goes into the list.
WithPrev ==
  IF prev = Null THEN list ELSE InsertAt(list, Before(list, prev) + 1, prev)

\* Variant: the list is cut in front of the insertion.
ComputeAfterPrune ==
  /\ pc = "compute"
  /\ UNCHANGED <<logs, flash, transfer, buffers>>
  /\ Prune(list, candidate_count)
  /\ prev' = Current
  /\ prev_buf' = cur_buf_idx
  /\ cur_buf_idx' = 3 - cur_buf_idx
  /\ Advance

\* The list is cut although Current is in none yet, and the pipeline moves on.
Compute ==
  /\ pc = "compute"
  /\ UNCHANGED <<logs, flash, transfer, buffers>>
  /\ Prune(WithPrev, candidate_count)
  /\ prev' = Current
  /\ prev_buf' = cur_buf_idx
  /\ cur_buf_idx' = 3 - cur_buf_idx
  /\ Advance

\* prev is waited for, computed and inserted with nothing else in between,
\* and the list cut; there is nothing to do if it is NULL.
SettlePrev ==
  /\ ~Waiting
  /\ UNCHANGED <<logs, flash, transfer, buffers, prev_buf, cur_buf_idx>>
  /\ prev' = Null
  /\ \/ prev = Null /\ UNCHANGED <<list, counts>>
     \/ prev # Null /\ Prune(WithPrev, candidate_count)

\* A neighbour that has been met before: the pipeline runs empty.
DuplicateNeighbor ==
  /\ pc = "neighbors"
  /\ Current \in hash
  /\ SettlePrev
  /\ Advance

\* Behind the loop the last candidate is settled.
Drain ==
  /\ pc = "drain"
  /\ SettlePrev
  /\ pc' = "select"
  /\ UNCHANGED <<input, expanded_log, p_star, neighbor>>

\* The DMA has brought the last byte: the code, if the page was there.
TransferDone ==
  /\ transfer # NoTransfer
  /\ transfer' = NoTransfer
  /\ buffers' = [buffers EXCEPT ![transfer.buf] =
                   IF cache = CodePage[transfer.vector]
                   THEN transfer.vector ELSE Null]
  /\ UNCHANGED <<vars, flash, pipeline>>

Program ==
  \/ Start \/ OverlapAddEntry \/ OverlapExpand \/ OverlapStop
  \/ Miss \/ Command \/ MissOtherCmp \/ Poll
  \/ HitOtherCmp \/ NoRoom
  \/ StartTransfer \/ Compute \/ DuplicateNeighbor \/ Drain

OverlapNext == Program \/ TransferDone

\* The processor runs, and the DMA brings what it was told to.
OverlapSpec ==
  /\ OverlapInit
  /\ [][OverlapNext]_overlapVars
  /\ WF_overlapVars(Program)
  /\ WF_overlapVars(TransferDone)

-----------------------------------------------------------------------------
\* The type of every variable.
OverlapTypeOK ==
  /\ pc \in {"idle", "entry", "select", "neighbors", "command", "other_cmp",
             "poll", "start", "compute", "drain", "done", "halted"}
  /\ log_head \in 0..Capacity
  /\ hash \subseteq Vectors /\ visited \subseteq Vectors
  /\ list \in Seq(Vectors)
  /\ candidate_count \in Nat /\ visited_count \in Nat
  /\ sorted_tail \in Vectors \union {Null}
  /\ neighbor \in 1..Degree
  /\ cache \in CodePages \union {NoPage, NeighborPage, Loading}
  /\ page_in_buffer \in CodePages \union {NoPage, NeighborPage}
  /\ transfer \in [vector : Vectors, buf : 1..2] \union {NoTransfer}
  /\ buffers \in [1..2 -> Vectors \union {Null}]
  /\ prev \in Vectors \union {Null}
  /\ prev_buf \in 1..2 /\ cur_buf_idx \in 1..2

\* While the DMA reads a code the chip is left alone: it is given no command,
\* is not polled, and no other transfer is set up.  Every variable keeps its
\* type.
BusIsFree ==
  /\ OverlapTypeOK
  /\ transfer # NoTransfer => pc \notin {"command", "other_cmp", "poll",
                                         "select", "done", "idle"}

\* The code of prev is in prev_buf or on its way there until its distance has
\* been computed, whatever was read into the other buffer, and whatever
\* pages were loaded, since its own transfer began.
CodesAreOwn ==
  (prev # Null /\ pc # "halted") =>
    \/ transfer = [vector |-> prev, buf |-> prev_buf]
    \/ buffers[prev_buf] = prev

\* Between two expansions the list holds what the search kept: it is sorted,
\* holds no vector twice, none that was seen is missing unless a whole beam
\* of others is as close, and it is longer than the counter says by one
\* entry at most: the last candidate of an expansion is inserted after the
\* counter was reset by a cut that did not see it.
ListLeadsByOne ==
  pc \in {"select", "done"} =>
    /\ \A i, j \in 1..Len(list) :
         i < j => list[i] # list[j] /\ distance[list[i]] <= distance[list[j]]
    /\ Len(list) <= current_L_size + 1
    /\ candidate_count = Min({Len(list), current_L_size})
    /\ visited_count = Cardinality(visited \intersect Range(list))
    /\ Range(list) \subseteq hash
    /\ \A v \in hash \ Range(list) :
         /\ Len(list) >= current_L_size
         /\ distance[v] >= distance[list[current_L_size]]

\* Queries return again and again: neither the wait for a transfer nor the
\* loop of the search goes on for ever.
OverlapQueriesEnd == []<>(pc \in {"done", "halted"})
=============================================================================
