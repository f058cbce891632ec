-------------------------- MODULE QueryLoopProofs --------------------------
(***************************************************************************)
(* Proofs about QueryLoop: for every number of queries, of queries on a    *)
(* page and of failures, each query is searched with its own vector and    *)
(* the pages it asks for, none is skipped or answered twice, and the       *)
(* accounts are bounded.                                                   *)
(***************************************************************************)
EXTENDS QueryLoop, TLAPS

\* Where the program is between the checkpoint of a query and its last store.
Accounting == {"account", "outcome", "reset", "next"}
\* Between reading a page of queries and the checkpoint of a query.
Querying == {"copy", "query", "choose", "ckpt_query"} \union Searching
\* The program has gone on from the queries answered so far.
Ahead == {"loop", "ckpt_read", "read_clear", "read", "read_note",
          "ckpt_finished", "finished"} \union Querying
Down == {"off", "restore", "asleep", "halted"}

\* What has been answered when a program that resumes from the snapshot runs.
DoneIn(s) == IF s.at = "account" THEN 0 .. s.head ELSE 0 .. (s.head - 1)

SnapshotInv ==
  /\ answered = DoneIn(snapshot)
  /\ snapshot.at = "init" => snapshot.head = 0
  /\ snapshot.at \in {"read_clear", "account"} => snapshot.head < ReplayCount
  /\ snapshot.at = "finished" => snapshot.head = ReplayCount
  /\ status = "NULL" => snapshot.at = "init" /\ replay_head = 0

\* The running program is where its last checkpoint was, or one query ahead.
ProgressInv ==
  /\ pc \in {"ckpt_init", "init"} => snapshot.at = "init" /\ replay_head = 0
  /\ pc \in Accounting =>
       snapshot.at = "account" /\ replay_head = snapshot.head
  /\ pc \in Ahead => /\ answered = 0 .. (replay_head - 1)
                     /\ replay_head \in {snapshot.head, snapshot.head + 1}
  /\ pc \in {"read_clear", "read", "read_note"} =>
       snapshot.at = "read_clear" /\ replay_head = snapshot.head
  /\ pc \in {"ckpt_read"} \union Querying => replay_head < ReplayCount
  /\ pc = "loop" => replay_head = 0 \/ snapshot.at = "account"
  /\ pc = "mark" => replay_head = snapshot.head
  /\ pc \in {"ckpt_finished", "finished"} => replay_head = ReplayCount

\* The page of queries in FRAM is the page noted, from the time it was noted
\* until a checkpoint has been made from which it is read again.
InputInv ==
  /\ snapshot.at = "account" \/ pc \in Querying =>
       workload_page = QueryPage(last_read)
  /\ pc = "read_note" => workload_page = QueryPage(PageOf(replay_head))
  /\ pc \in Querying => last_read = PageOf(replay_head)
  /\ pc \in {"query", "choose", "ckpt_query"} \union Searching =>
       workload_vector = replay_head

\* A program that resumes finds another page in the buffer of the chip than
\* page_in_buffer says, but the first page it reads is neither.
FromRerank == FullVectors \union {Codebook}

PageInv ==
  /\ snapshot.at = "init" => snapshot.buffered = NoPage
  /\ snapshot.at \in {"read_clear", "account"} =>
       snapshot.buffered \in FromRerank
  /\ pc \in {"ckpt_init", "init"} => page_in_buffer = NoPage /\ cache = NoPage
  /\ pc \in Accounting \union {"loop", "ckpt_read", "read_clear", "read"} =>
       page_in_buffer \in FromRerank
  /\ pc \in {"copy", "query", "choose", "search"} =>
       page_in_buffer \in FromRerank \union {QueryPage(i) : i \in QueryPages}
  /\ pc = "ckpt_query" => page_in_buffer \in FullVectors
  /\ pc = "restore" => page_in_buffer = NoPage /\ cache = NoPage
  /\ pc = "read_note" =>
       page_in_buffer \in {QueryPage(i) : i \in QueryPages}
  /\ pc = "mark" => page_in_buffer = snapshot.buffered
                    /\ (snapshot.at = "init" => cache = NoPage)
  /\ pc \in {"read_note", "expand", "rerank", "ckpt_query"} =>
       cache = page_in_buffer

\* Every restart that counts has its failure, and so has every miss.
RestartInv ==
  /\ missed <= failures /\ restart_count <= failures
  /\ restart_count > 0 /\ pc # "reset" => missed < failures
  /\ pc \in {"off", "restore"} /\ ~in_energy_wait /\ status = "COMPLETE" =>
       missed < failures /\ restart_count < failures
  /\ pc = "asleep" => in_energy_wait

\* How often queries were counted, and how often that may have been repeated.
Counted == missed + completed
Resets == failures + wait_for_energy_count

CountInv ==
  /\ Counted >= replay_head /\ Counted >= snapshot.head
  /\ pc \in {"reset", "next"} =>
       Counted > replay_head /\ Counted <= replay_head + 1 + Resets
  /\ pc \in {"ckpt_init", "init", "account", "outcome"} \union Ahead =>
       Counted <= replay_head + Resets
  /\ pc \in Down \union {"mark"} => Counted <= snapshot.head + Resets

IInv == /\ TypeOK /\ SnapshotInv /\ ProgressInv
        /\ InputInv /\ PageInv /\ RestartInv /\ CountInv
-----------------------------------------------------------------------------
\* What a snapshot is made of.
LEMMA SnapshotShape ==
  ASSUME TypeOK
  PROVE  /\ snapshot.at \in {"init", "read_clear", "account", "finished"}
         /\ snapshot.head \in 0 .. ReplayCount
         /\ snapshot.buffered \in Pages
<1>1. \A c \in DOMAIN After :
        After[c] \in {"init", "read_clear", "account", "finished"}
  BY DEF After
<1> QED
  BY <1>1 DEF TypeOK

\* No page of queries is one of the pages that reranking ends with.
LEMMA PageNames ==
  /\ {NoPage, Codebook} \union Candidates \union Neighbours \union FullVectors
       \subseteq Pages
  /\ \A i : QueryPage(i) \notin FromRerank /\ QueryPage(i) # NoPage
  /\ \A i : \A p \in Candidates : p \notin FromRerank /\ p # QueryPage(i)
BY DEF Pages, NoPage, Codebook, Candidates, Neighbours, FullVectors, QueryPage,
       FromRerank

\* A query is on a page of the workload, at the place where it is looked for.
LEMMA PlaceOfQuery ==
  ASSUME NEW q \in Queries
  PROVE  /\ PageOf(q) \in QueryPages /\ QueryPage(PageOf(q)) \in Pages
         /\ (PageOf(q) * VecsPerPage) + (q % VecsPerPage) = q
<1>1. PageOf(q) \in QueryPages /\ QueryPage(PageOf(q)) \in Pages
  BY DEF PageOf, QueryPages, Pages
<1>2. (q \div VecsPerPage) * VecsPerPage + (q % VecsPerPage) = q
  <2>1. q \in Int /\ VecsPerPage \in Int /\ VecsPerPage > 0
    BY VecsPerPageAssumption, ReplayCountAssumption DEF Queries
  <2>2. \A a, b \in Int : b > 0 => (a \div b) * b + (a % b) = a
    OBVIOUS
  <2> QED
    BY <2>1, <2>2
<1> QED
  BY <1>1, <1>2 DEF PageOf

\* Every step keeps the types: the counters because a restart needs a failure,
\* the replay counter because it moves only behind the checkpoint of a query.
LEMMA TypeStep == IInv /\ [Next]_vars => TypeOK'
<1> SUFFICES ASSUME IInv, [Next]_vars PROVE TypeOK'
  OBVIOUS
<1> USE ReplayCountAssumption, VecsPerPageAssumption, CounterSizeAssumption,
       MaxFailuresAssumption
    DEF IInv, GoTo, Searching, Accounting, Querying, Ahead, Down,
        inputs, waits, accounts, checkpoint, chip
<1>1. CASE Boot
  BY <1>1 DEF Boot, TypeOK, PCs, Pages
<1>2. CASE FreshStart
  BY <1>2 DEF FreshStart, TypeOK, PCs, After
<1>3. CASE RestoreError
  BY <1>3 DEF RestoreError, TypeOK, PCs
<1>4. CASE Restore
  <2>1. /\ snapshot.at \in {"init", "read_clear", "account", "finished"}
        /\ snapshot.head \in 0 .. ReplayCount /\ snapshot.buffered \in Pages
    BY SnapshotShape
  <2>2. restart_count' \in 0 .. failures
    BY <1>4 DEF Restore, Restarted, RestartInv, TypeOK
  <2> QED
    BY <1>4, <2>1, <2>2 DEF Restore, TypeOK, PCs
<1>5. CASE Save
  <2>1. snapshot' \in [at : {After[c] : c \in DOMAIN After},
                     head : 0 .. ReplayCount, buffered : Pages]
    BY <1>5 DEF Save, TypeOK
  <2>2. answered' \subseteq Queries
    BY <1>5 DEF Save, TypeOK, InputInv, ProgressInv
  <2> QED
    BY <1>5, <2>1, <2>2 DEF Save, TypeOK, PCs
<1>6. CASE Mark
  <2>1. snapshot.at \in {"init", "read_clear", "account", "finished"}
    BY SnapshotShape
  <2> QED
    BY <1>6, <2>1 DEF Mark, TypeOK, PCs
<1>7. CASE InitGraphsearch
  BY <1>7, PageNames DEF InitGraphsearch, ReadPage, TypeOK, PCs
<1>8. CASE NextQuery
  BY <1>8 DEF NextQuery, TypeOK, PCs, After
<1>9. CASE ClearPage
  BY <1>9 DEF ClearPage, TypeOK, PCs
<1>10. CASE ReadQueries
  <2>1. replay_head \in Queries
    BY <1>10 DEF ReadQueries, ProgressInv, SnapshotInv, TypeOK, Queries
  <2>2. page_in_buffer # QueryPage(PageOf(replay_head))
    BY <1>10, PageNames DEF ReadQueries, PageInv
  <2>3. /\ workload_page' = QueryPage(PageOf(replay_head))
        /\ cache' = workload_page'
    BY <1>10, <2>2 DEF ReadQueries, ReadPage
  <2>4. workload_page' \in {QueryPage(i) : i \in QueryPages}
    BY <2>1, <2>3, PlaceOfQuery
  <2> QED
    BY <1>10, <2>1, <2>3, <2>4, PlaceOfQuery
    DEF ReadQueries, ReadPage, TypeOK, PCs
<1>11. CASE NotePage
  <2>1. replay_head \in Queries
    BY <1>11 DEF NotePage, ProgressInv, SnapshotInv, TypeOK, Queries
  <2> QED
    BY <1>11, <2>1, PlaceOfQuery DEF NotePage, TypeOK, PCs
<1>12. CASE CopyVector
  <2>1. replay_head \in Queries
    BY <1>12 DEF CopyVector, ProgressInv, TypeOK, Queries
  <2>2. workload_page = QueryPage(PageOf(replay_head))
    BY <1>12 DEF CopyVector, InputInv
  <2>3. workload_vector' = replay_head
    BY <1>12, <2>1, <2>2, PlaceOfQuery, PageNames DEF CopyVector, QueryPage
  <2> QED
    BY <1>12, <2>1, <2>3 DEF CopyVector, TypeOK, PCs
<1>13. CASE SampleEnergy
  BY <1>13 DEF SampleEnergy, TypeOK, PCs
<1>14. CASE WaitForEnergy
  BY <1>14 DEF WaitForEnergy, TypeOK, PCs
<1>15. CASE StartSearch
  BY <1>15 DEF StartSearch, TypeOK, PCs
<1>16. CASE ReadEntry
  BY <1>16, PageNames DEF ReadEntry, ReadPage, TypeOK, PCs
<1>17. CASE Rerank
  BY <1>17, PageNames DEF Rerank, ReadPage, TypeOK, PCs
<1>18. CASE RerankOn
  BY <1>18, PageNames DEF RerankOn, ReadPage, TypeOK, PCs, After
<1>19. CASE Account
  <2>1. replay_head \in Queries
    BY <1>19 DEF Account, ProgressInv, SnapshotInv, TypeOK, Queries
  <2>2. restart_count + 1 \in 0 .. (MaxFailures + 1)
    BY DEF TypeOK
  <2> QED
    BY <1>19, <2>1, <2>2 DEF Account, TypeOK, PCs
<1>20. CASE CountMiss
  BY <1>20 DEF CountMiss, TypeOK, PCs
<1>21. CASE ResetRestarts
  BY <1>21 DEF ResetRestarts, TypeOK, PCs
<1>22. CASE CountCompleted
  BY <1>22 DEF CountCompleted, TypeOK, PCs
<1>23. CASE Advance
  BY <1>23 DEF Advance, TypeOK, ProgressInv, SnapshotInv, PCs
<1>24. CASE Expand
  BY <1>24, PageNames DEF Expand, ReadPage, TypeOK, PCs
<1>25. CASE PowerFail
  BY <1>25 DEF PowerFail, TypeOK, PCs
<1>26. CASE UNCHANGED vars
  BY <1>26 DEF vars, TypeOK, PCs
<1> QED
  BY <1>1, <1>2, <1>3, <1>4, <1>5, <1>6, <1>7, <1>8, <1>9, <1>10, <1>11, <1>12,
     <1>13, <1>14, <1>15, <1>16, <1>17, <1>18, <1>19, <1>20, <1>21, <1>22,
     <1>23, <1>24, <1>25, <1>26
  DEF Next, Step

\* Only the checkpoint of a query adds to what is answered, and it adds the
\* query that it was made behind.
LEMMA SnapshotStep == IInv /\ [Next]_vars => SnapshotInv'
<1> SUFFICES ASSUME IInv, [Next]_vars PROVE SnapshotInv'
  OBVIOUS
<1> USE ReplayCountAssumption
    DEF IInv, GoTo, Searching, Accounting, Querying, Ahead, Down,
        inputs, waits, accounts, checkpoint, chip
\* The other actions make no checkpoint and answer no query.
<1>1. CASE Boot \/ FreshStart \/ RestoreError \/ InitGraphsearch \/ NextQuery
           \/ ClearPage \/ ReadQueries \/ NotePage \/ CopyVector
           \/ SampleEnergy \/ WaitForEnergy \/ StartSearch \/ ReadEntry
           \/ Rerank \/ RerankOn \/ Account \/ CountMiss \/ ResetRestarts
           \/ CountCompleted \/ Expand \/ PowerFail \/ UNCHANGED vars
  BY <1>1
  DEF SnapshotInv, vars, Boot, FreshStart, RestoreError, InitGraphsearch,
      NextQuery, ClearPage, ReadQueries, NotePage, CopyVector, SampleEnergy,
      WaitForEnergy, StartSearch, ReadEntry, Rerank, RerankOn, Account,
      CountMiss, ResetRestarts, CountCompleted, Expand, PowerFail
<1>2. CASE Restore
  <2>1. snapshot.at \in {"init", "read_clear", "account", "finished"}
    BY SnapshotShape
  <2> QED
    BY <1>2, <2>1 DEF Restore, SnapshotInv
<1>3. CASE Save
  <2> DEFINE h == replay_head
  <2>1. pc \in {"ckpt_init", "ckpt_read", "ckpt_query", "ckpt_finished"}
    BY <1>3 DEF Save, After
  <2>2. snapshot'.at = After[pc] /\ snapshot'.head = h /\ h \in Nat
    BY <1>3 DEF Save, TypeOK
  <2>3. answered' = DoneIn(snapshot)'
    <3>1. CASE pc = "ckpt_query"
      <4>1. answered' = answered \union {h}
        BY <1>3, <3>1 DEF Save, InputInv
      <4>2. answered = 0 .. (h - 1)
        BY <3>1 DEF ProgressInv
      <4>3. 0 .. (h - 1) \union {h} = 0 .. h
        BY <2>2
      <4> QED
        BY <3>1, <4>1, <4>2, <4>3, <2>2 DEF DoneIn, After
    <3>2. CASE pc # "ckpt_query"
      <4>1. answered' = answered /\ snapshot'.at # "account"
        BY <1>3, <3>2, <2>1, <2>2 DEF Save, After
      <4>2. answered = 0 .. (h - 1)
        BY <2>1, <3>2 DEF ProgressInv, SnapshotInv, DoneIn
      <4> QED
        BY <4>1, <4>2, <2>2 DEF DoneIn
    <3> QED
      BY <3>1, <3>2
  <2>4. status' # "NULL"
    BY <1>3 DEF Save
  <2>5. /\ snapshot'.at = "init" => h = 0
        /\ snapshot'.at \in {"read_clear", "account"} => h < ReplayCount
        /\ snapshot'.at = "finished" => h = ReplayCount
    BY <2>1, <2>2 DEF ProgressInv, After
  <2> QED
    BY <2>2, <2>3, <2>4, <2>5 DEF SnapshotInv
<1>4. CASE Mark
  <2>1. snapshot.at \in {"init", "read_clear", "account", "finished"}
    BY SnapshotShape
  <2> QED
    BY <1>4, <2>1 DEF Mark, SnapshotInv
<1>5. CASE Advance
  BY <1>5 DEF Advance, SnapshotInv, ProgressInv
<1> QED
  BY <1>1, <1>2, <1>3, <1>4, <1>5 DEF Next, Step

\* The program is where its last checkpoint was made or a query ahead; a
\* restore takes it back there.
LEMMA ProgressStep == IInv /\ [Next]_vars => ProgressInv'
<1> SUFFICES ASSUME IInv, [Next]_vars PROVE ProgressInv'
  OBVIOUS
<1> USE ReplayCountAssumption
    DEF IInv, GoTo, Searching, Accounting, Querying, Ahead, Down,
        inputs, waits, accounts, checkpoint, chip
<1>1. CASE Boot
  BY <1>1 DEF Boot, ProgressInv
<1>2. CASE FreshStart
  BY <1>2 DEF FreshStart, SnapshotInv, ProgressInv
<1>3. CASE RestoreError
  BY <1>3 DEF RestoreError, ProgressInv
<1>4. CASE Restore
  <2>1. snapshot.at \in {"init", "read_clear", "account", "finished"}
    BY SnapshotShape
  <2> QED
    BY <1>4, <2>1 DEF Restore, SnapshotInv, ProgressInv, DoneIn
<1>5. CASE Save
  BY <1>5 DEF Save, ProgressInv
<1>6. CASE Mark
  <2>1. snapshot.at \in {"init", "read_clear", "account", "finished"}
    BY SnapshotShape
  <2> QED
    BY <1>6, <2>1 DEF Mark, SnapshotInv, ProgressInv, DoneIn
<1>7. CASE InitGraphsearch
  BY <1>7 DEF InitGraphsearch, SnapshotInv, ProgressInv, DoneIn
<1>8. CASE NextQuery
  BY <1>8 DEF NextQuery, TypeOK, ProgressInv
<1>9. CASE ClearPage
  BY <1>9 DEF ClearPage, ProgressInv
<1>10. CASE ReadQueries
  BY <1>10 DEF ReadQueries, ProgressInv
<1>11. CASE NotePage
  BY <1>11 DEF NotePage, SnapshotInv, ProgressInv
<1>12. CASE CopyVector
  BY <1>12 DEF CopyVector, ProgressInv
<1>13. CASE SampleEnergy
  BY <1>13 DEF SampleEnergy, ProgressInv
<1>14. CASE WaitForEnergy
  BY <1>14 DEF WaitForEnergy, ProgressInv
<1>15. CASE StartSearch
  BY <1>15 DEF StartSearch, ProgressInv
<1>16. CASE ReadEntry
  BY <1>16 DEF ReadEntry, ProgressInv
<1>17. CASE Rerank
  BY <1>17 DEF Rerank, ProgressInv
<1>18. CASE RerankOn
  BY <1>18 DEF RerankOn, ProgressInv
<1>19. CASE Account
  BY <1>19 DEF Account, ProgressInv
<1>20. CASE CountMiss
  BY <1>20 DEF CountMiss, ProgressInv
<1>21. CASE ResetRestarts
  BY <1>21 DEF ResetRestarts, ProgressInv
<1>22. CASE CountCompleted
  BY <1>22 DEF CountCompleted, ProgressInv
<1>23. CASE Advance
  BY <1>23 DEF Advance, TypeOK, SnapshotInv, ProgressInv, DoneIn
<1>24. CASE Expand
  BY <1>24 DEF Expand, ProgressInv
<1>25. CASE PowerFail
  BY <1>25 DEF PowerFail, ProgressInv
<1>26. CASE UNCHANGED vars
  BY <1>26 DEF vars, ProgressInv
<1> QED
  BY <1>1, <1>2, <1>3, <1>4, <1>5, <1>6, <1>7, <1>8, <1>9, <1>10, <1>11, <1>12,
     <1>13, <1>14, <1>15, <1>16, <1>17, <1>18, <1>19, <1>20, <1>21, <1>22,
     <1>23, <1>24, <1>25, <1>26
  DEF Next, Step

\* The page of queries in FRAM is cleared only behind a checkpoint from which
\* it is read again.
LEMMA InputStep == IInv /\ [Next]_vars => InputInv'
<1> SUFFICES ASSUME IInv, [Next]_vars PROVE InputInv'
  OBVIOUS
<1> USE ReplayCountAssumption, VecsPerPageAssumption
    DEF IInv, GoTo, Searching, Accounting, Querying, Ahead, Down,
        inputs, waits, accounts, checkpoint, chip
<1>1. CASE Boot
  BY <1>1 DEF Boot, InputInv
<1>2. CASE FreshStart
  BY <1>2 DEF FreshStart, InputInv
<1>3. CASE RestoreError
  BY <1>3 DEF RestoreError, InputInv
<1>4. CASE Restore
  <2>1. snapshot.at \in {"init", "read_clear", "account", "finished"}
    BY SnapshotShape
  <2> QED
    BY <1>4, <2>1 DEF Restore, InputInv, Restarted
<1>5. CASE Save
  BY <1>5 DEF Save, InputInv, After
<1>6. CASE Mark
  <2>1. snapshot.at \in {"init", "read_clear", "account", "finished"}
    BY SnapshotShape
  <2> QED
    BY <1>6, <2>1 DEF Mark, InputInv
<1>7. CASE InitGraphsearch
  BY <1>7 DEF InitGraphsearch, InputInv
<1>8. CASE NextQuery
  BY <1>8 DEF NextQuery, ProgressInv, InputInv, PageIsStale
<1>9. CASE ClearPage
  BY <1>9 DEF ClearPage, ProgressInv, InputInv
<1>10. CASE ReadQueries
  <2>1. page_in_buffer # QueryPage(PageOf(replay_head))
    BY <1>10, PageNames DEF ReadQueries, PageInv
  <2>2. workload_page' = QueryPage(PageOf(replay_head))
    BY <1>10, <2>1 DEF ReadQueries, ReadPage
  <2> QED
    BY <1>10, <2>2 DEF ReadQueries, InputInv, ProgressInv
<1>11. CASE NotePage
  BY <1>11 DEF NotePage, InputInv
<1>12. CASE CopyVector
  <2>1. replay_head \in Queries
    BY <1>12 DEF CopyVector, ProgressInv, TypeOK, Queries
  <2>2. workload_page = QueryPage(PageOf(replay_head))
    BY <1>12 DEF CopyVector, InputInv
  <2>3. workload_vector' = replay_head
    BY <1>12, <2>1, <2>2, PlaceOfQuery, PageNames DEF CopyVector, QueryPage
  <2> QED
    BY <1>12, <2>3 DEF CopyVector, InputInv
<1>13. CASE SampleEnergy
  BY <1>13 DEF SampleEnergy, InputInv
<1>14. CASE WaitForEnergy
  BY <1>14 DEF WaitForEnergy, InputInv
<1>15. CASE StartSearch
  BY <1>15 DEF StartSearch, InputInv
<1>16. CASE ReadEntry
  BY <1>16 DEF ReadEntry, InputInv
<1>17. CASE Rerank
  BY <1>17 DEF Rerank, InputInv
<1>18. CASE RerankOn
  BY <1>18 DEF RerankOn, InputInv
<1>19. CASE Account
  BY <1>19 DEF Account, InputInv
<1>20. CASE CountMiss
  BY <1>20 DEF CountMiss, InputInv
<1>21. CASE ResetRestarts
  BY <1>21 DEF ResetRestarts, InputInv
<1>22. CASE CountCompleted
  BY <1>22 DEF CountCompleted, InputInv
<1>23. CASE Advance
  BY <1>23 DEF Advance, InputInv
<1>24. CASE Expand
  BY <1>24 DEF Expand, InputInv
<1>25. CASE PowerFail
  BY <1>25 DEF PowerFail, InputInv
<1>26. CASE UNCHANGED vars
  BY <1>26 DEF vars, InputInv
<1> QED
  BY <1>1, <1>2, <1>3, <1>4, <1>5, <1>6, <1>7, <1>8, <1>9, <1>10, <1>11, <1>12,
     <1>13, <1>14, <1>15, <1>16, <1>17, <1>18, <1>19, <1>20, <1>21, <1>22,
     <1>23, <1>24, <1>25, <1>26
  DEF Next, Step

\* A restored page_in_buffer names a page of reranking, the codebook or none,
\* and what is read first is never that page.
LEMMA PageStep == IInv /\ [Next]_vars => PageInv'
<1> SUFFICES ASSUME IInv, [Next]_vars PROVE PageInv'
  OBVIOUS
<1> USE ReplayCountAssumption
    DEF IInv, GoTo, Searching, Accounting, Querying, Ahead, Down,
        inputs, waits, accounts, checkpoint, chip
<1>1. CASE Boot
  BY <1>1 DEF Boot, PageInv
<1>2. CASE FreshStart
  BY <1>2 DEF FreshStart, PageInv
<1>3. CASE RestoreError
  BY <1>3 DEF RestoreError, PageInv
<1>4. CASE Restore
  <2>1. snapshot.at \in {"init", "read_clear", "account", "finished"}
    BY SnapshotShape
  <2> QED
    BY <1>4, <2>1 DEF Restore, PageInv, Restarted
<1>5. CASE Save
  BY <1>5 DEF Save, PageInv, FromRerank, After
<1>6. CASE Mark
  <2>1. snapshot.at \in {"init", "read_clear", "account", "finished"}
    BY SnapshotShape
  <2> QED
    BY <1>6, <2>1 DEF Mark, PageInv
<1>7. CASE InitGraphsearch
  BY <1>7 DEF InitGraphsearch, PageInv, FromRerank, ReadPage
<1>8. CASE NextQuery
  BY <1>8 DEF NextQuery, PageInv
<1>9. CASE ClearPage
  BY <1>9 DEF ClearPage, PageInv
<1>10. CASE ReadQueries
  <2> DEFINE p == QueryPage(PageOf(replay_head))
  <2>1. replay_head \in Queries
    BY <1>10 DEF ReadQueries, ProgressInv, SnapshotInv, TypeOK, Queries
  <2>2. p \in {QueryPage(i) : i \in QueryPages}
    BY <2>1, PlaceOfQuery
  <2>3. page_in_buffer # p
    BY <1>10, PageNames DEF ReadQueries, PageInv
  <2>4. page_in_buffer' = p /\ cache' = p
    BY <1>10, <2>3 DEF ReadQueries, ReadPage
  <2> HIDE DEF p
  <2> QED
    BY <1>10, <2>2, <2>4 DEF ReadQueries, PageInv
<1>11. CASE NotePage
  BY <1>11 DEF NotePage, PageInv
<1>12. CASE CopyVector
  BY <1>12 DEF CopyVector, PageInv
<1>13. CASE SampleEnergy
  BY <1>13 DEF SampleEnergy, PageInv
<1>14. CASE WaitForEnergy
  BY <1>14 DEF WaitForEnergy, PageInv
<1>15. CASE StartSearch
  BY <1>15 DEF StartSearch, PageInv
<1>16. CASE ReadEntry
  <2>1. PICK p \in Candidates : ReadPage(p)
    BY <1>16 DEF ReadEntry
  <2>2. page_in_buffer # p
    BY <1>16, PageNames DEF ReadEntry, PageInv
  <2> QED
    BY <1>16, <2>1, <2>2 DEF ReadEntry, ReadPage, PageInv
<1>17. CASE Rerank
  BY <1>17 DEF Rerank, PageInv, ReadPage
<1>18. CASE RerankOn
  BY <1>18 DEF RerankOn, PageInv, ReadPage
<1>19. CASE Account
  BY <1>19 DEF Account, PageInv
<1>20. CASE CountMiss
  BY <1>20 DEF CountMiss, PageInv
<1>21. CASE ResetRestarts
  BY <1>21 DEF ResetRestarts, PageInv
<1>22. CASE CountCompleted
  BY <1>22 DEF CountCompleted, PageInv
<1>23. CASE Advance
  BY <1>23 DEF Advance, PageInv
<1>24. CASE Expand
  BY <1>24 DEF Expand, PageInv, ReadPage
<1>25. CASE PowerFail
  BY <1>25 DEF PowerFail, PageInv
<1>26. CASE UNCHANGED vars
  BY <1>26 DEF vars, PageInv
<1> QED
  BY <1>1, <1>2, <1>3, <1>4, <1>5, <1>6, <1>7, <1>8, <1>9, <1>10, <1>11, <1>12,
     <1>13, <1>14, <1>15, <1>16, <1>17, <1>18, <1>19, <1>20, <1>21, <1>22,
     <1>23, <1>24, <1>25, <1>26
  DEF Next, Step

\* A restart outside an energy wait uses up a failure that no restart has
\* used before.
LEMMA RestartStep == IInv /\ [Next]_vars => RestartInv'
<1> SUFFICES ASSUME IInv, [Next]_vars PROVE RestartInv'
  OBVIOUS
<1> USE MaxFailuresAssumption
    DEF IInv, GoTo, Searching, Accounting, Querying, Ahead, Down,
        inputs, waits, accounts, checkpoint, chip
<1>1. CASE Boot
  BY <1>1 DEF Boot, RestartInv
<1>2. CASE FreshStart
  BY <1>2 DEF FreshStart, RestartInv
<1>3. CASE RestoreError
  BY <1>3 DEF RestoreError, RestartInv
<1>4. CASE Restore
  <2>1. snapshot.at \in {"init", "read_clear", "account", "finished"}
    BY SnapshotShape
  <2> QED
    BY <1>4, <2>1 DEF Restore, TypeOK, RestartInv, Restarted
<1>5. CASE Save
  BY <1>5 DEF Save, RestartInv, After
<1>6. CASE Mark
  <2>1. snapshot.at \in {"init", "read_clear", "account", "finished"}
    BY SnapshotShape
  <2> QED
    BY <1>6, <2>1 DEF Mark, RestartInv
<1>7. CASE InitGraphsearch
  BY <1>7 DEF InitGraphsearch, RestartInv
<1>8. CASE NextQuery
  BY <1>8 DEF NextQuery, RestartInv
<1>9. CASE ClearPage
  BY <1>9 DEF ClearPage, RestartInv
<1>10. CASE ReadQueries
  BY <1>10 DEF ReadQueries, RestartInv
<1>11. CASE NotePage
  BY <1>11 DEF NotePage, RestartInv
<1>12. CASE CopyVector
  BY <1>12 DEF CopyVector, RestartInv
<1>13. CASE SampleEnergy
  BY <1>13 DEF SampleEnergy, RestartInv
<1>14. CASE WaitForEnergy
  BY <1>14 DEF WaitForEnergy, RestartInv
<1>15. CASE StartSearch
  BY <1>15 DEF StartSearch, RestartInv
<1>16. CASE ReadEntry
  BY <1>16 DEF ReadEntry, RestartInv
<1>17. CASE Rerank
  BY <1>17 DEF Rerank, RestartInv
<1>18. CASE RerankOn
  BY <1>18 DEF RerankOn, RestartInv
<1>19. CASE Account
  BY <1>19 DEF Account, RestartInv
<1>20. CASE CountMiss
  BY <1>20 DEF CountMiss, TypeOK, RestartInv
<1>21. CASE ResetRestarts
  BY <1>21 DEF ResetRestarts, TypeOK, RestartInv
<1>22. CASE CountCompleted
  BY <1>22 DEF CountCompleted, RestartInv
<1>23. CASE Advance
  BY <1>23 DEF Advance, RestartInv
<1>24. CASE Expand
  BY <1>24 DEF Expand, RestartInv
<1>25. CASE PowerFail
  BY <1>25 DEF PowerFail, TypeOK, RestartInv
<1>26. CASE UNCHANGED vars
  BY <1>26 DEF vars, RestartInv
<1> QED
  BY <1>1, <1>2, <1>3, <1>4, <1>5, <1>6, <1>7, <1>8, <1>9, <1>10, <1>11, <1>12,
     <1>13, <1>14, <1>15, <1>16, <1>17, <1>18, <1>19, <1>20, <1>21, <1>22,
     <1>23, <1>24, <1>25, <1>26
  DEF Next, Step

\* An accounting that is repeated was repeated because of a failure or of an
\* energy wait.
LEMMA CountStep == IInv /\ [Next]_vars => CountInv'
<1> SUFFICES ASSUME IInv, [Next]_vars PROVE CountInv'
  OBVIOUS
<1> USE ReplayCountAssumption
    DEF IInv, GoTo, Searching, Accounting, Querying, Ahead, Down,
        inputs, waits, accounts, checkpoint, chip
<1>1. CASE Boot
  BY <1>1 DEF Boot, CountInv, Counted, Resets
<1>2. CASE FreshStart
  BY <1>2 DEF FreshStart, SnapshotInv, CountInv, Counted, Resets
<1>3. CASE RestoreError
  BY <1>3 DEF RestoreError, CountInv, Counted, Resets
<1>4. CASE Restore
  <2>1. snapshot.at \in {"init", "read_clear", "account", "finished"}
    BY SnapshotShape
  <2> QED
    BY <1>4, <2>1 DEF Restore, CountInv, Counted, Resets, Restarted
<1>5. CASE Save
  BY <1>5 DEF Save, CountInv, Counted, Resets, After
<1>6. CASE Mark
  <2>1. snapshot.at \in {"init", "read_clear", "account", "finished"}
    BY SnapshotShape
  <2> QED
    BY <1>6, <2>1 DEF Mark, ProgressInv, CountInv, Counted, Resets
<1>7. CASE InitGraphsearch
  BY <1>7 DEF InitGraphsearch, CountInv, Counted, Resets
<1>8. CASE NextQuery
  BY <1>8 DEF NextQuery, CountInv, Counted, Resets
<1>9. CASE ClearPage
  BY <1>9 DEF ClearPage, CountInv, Counted, Resets
<1>10. CASE ReadQueries
  BY <1>10 DEF ReadQueries, CountInv, Counted, Resets
<1>11. CASE NotePage
  BY <1>11 DEF NotePage, CountInv, Counted, Resets
<1>12. CASE CopyVector
  BY <1>12 DEF CopyVector, CountInv, Counted, Resets
<1>13. CASE SampleEnergy
  BY <1>13 DEF SampleEnergy, CountInv, Counted, Resets
<1>14. CASE WaitForEnergy
  BY <1>14 DEF WaitForEnergy, TypeOK, ProgressInv, CountInv, Counted, Resets
<1>15. CASE StartSearch
  BY <1>15 DEF StartSearch, CountInv, Counted, Resets
<1>16. CASE ReadEntry
  BY <1>16 DEF ReadEntry, CountInv, Counted, Resets
<1>17. CASE Rerank
  BY <1>17 DEF Rerank, CountInv, Counted, Resets
<1>18. CASE RerankOn
  BY <1>18 DEF RerankOn, CountInv, Counted, Resets
<1>19. CASE Account
  BY <1>19 DEF Account, CountInv, Counted, Resets
<1>20. CASE CountMiss
  BY <1>20 DEF CountMiss, TypeOK, CountInv, Counted, Resets
<1>21. CASE ResetRestarts
  BY <1>21 DEF ResetRestarts, CountInv, Counted, Resets
<1>22. CASE CountCompleted
  BY <1>22 DEF CountCompleted, TypeOK, CountInv, Counted, Resets
<1>23. CASE Advance
  BY <1>23 DEF Advance, TypeOK, CountInv, Counted, Resets
<1>24. CASE Expand
  BY <1>24 DEF Expand, CountInv, Counted, Resets
<1>25. CASE PowerFail
  <2>1. Counted' = Counted /\ Resets' = Resets + 1
    BY <1>25 DEF PowerFail, Counted, Resets, TypeOK
  <2>2. Counted \in Nat /\ Resets \in Nat
    BY DEF Counted, Resets, TypeOK
  <2>3. Counted <= snapshot.head + Resets + 1
    BY <2>2 DEF TypeOK, PCs, After, CountInv, ProgressInv
  <2> QED
    BY <1>25, <2>1, <2>2, <2>3 DEF PowerFail, TypeOK, CountInv
<1>26. CASE UNCHANGED vars
  BY <1>26 DEF vars, CountInv, Counted, Resets
<1> QED
  BY <1>1, <1>2, <1>3, <1>4, <1>5, <1>6, <1>7, <1>8, <1>9, <1>10, <1>11, <1>12,
     <1>13, <1>14, <1>15, <1>16, <1>17, <1>18, <1>19, <1>20, <1>21, <1>22,
     <1>23, <1>24, <1>25, <1>26
  DEF Next, Step

\* At the first power-up there is no checkpoint and nothing is counted.
LEMMA InitEstablishes == Init => IInv
<1> SUFFICES ASSUME Init PROVE IInv
  OBVIOUS
<1> USE DEF Init
<1>1. 0 .. (0 - 1) = {} /\ 0 \in 0 .. ReplayCount
  BY ReplayCountAssumption
<1>2. TypeOK
  <2>1. snapshot \in [at : {After[c] : c \in DOMAIN After},
                      head : 0 .. ReplayCount, buffered : Pages]
    BY <1>1, PageNames DEF After
  <2>2. /\ force_wait_counter \in 0 .. (CounterSize - 1)
        /\ failures \in 0 .. MaxFailures /\ restart_count \in 0 .. failures
        /\ query_restart_count \in [Queries -> 0 .. (MaxFailures + 1)]
    BY CounterSizeAssumption, MaxFailuresAssumption
  <2> QED
    BY <1>1, <2>1, <2>2, PageNames DEF TypeOK, PCs
<1>3. SnapshotInv /\ ProgressInv /\ InputInv
  BY <1>1 DEF SnapshotInv, ProgressInv, InputInv, DoneIn, Accounting, Querying,
              Ahead, Searching
<1>4. PageInv /\ RestartInv
  BY MaxFailuresAssumption
  DEF PageInv, RestartInv, Accounting
<1>5. CountInv
  BY DEF CountInv, Counted, Resets, Accounting, Ahead, Querying, Searching, Down
<1> QED
  BY <1>2, <1>3, <1>4, <1>5 DEF IInv

\* The inductive invariant holds of every behaviour.
LEMMA InvHolds == Spec => []IInv
<1>1. Init => IInv
  BY InitEstablishes
<1>2. IInv /\ [Next]_vars => IInv'
  BY TypeStep, SnapshotStep, ProgressStep, InputStep, PageStep, RestartStep,
     CountStep DEF IInv
<1> QED
  BY <1>1, <1>2, PTL DEF Spec

-----------------------------------------------------------------------------
\* Whatever fails and however often, every variable keeps its type: no query
\* index leaves query_restart_count, no count outgrows the failures.
THEOREM TypeCorrect == Spec => []TypeOK
<1>1. IInv => TypeOK
  BY DEF IInv
<1> QED
  BY <1>1, InvHolds, PTL

\* A query is searched with its own vector, although the page of queries, its
\* index and the vector are in FRAM and not in the checkpoint.
THEOREM QueryInputCorrect == Spec => []QueryInputIsCorrect
<1>1. IInv => QueryInputIsCorrect
  BY DEF IInv, InputInv, QueryInputIsCorrect
<1> QED
  BY <1>1, InvHolds, PTL

\* The chip's buffer holds the page that page_in_buffer says wherever data is
\* taken from it, although a restore may leave the two apart.
THEOREM PagesCorrect == Spec => []ReadsTheRightPage
<1>1. IInv => ReadsTheRightPage
  BY DEF IInv, PageInv, ReadsTheRightPage
<1> QED
  BY <1>1, InvHolds, PTL

\* No query is skipped and none is searched again once its answer is part of
\* a checkpoint.
THEOREM AnswersCorrect == Spec => []AnswersEachOnce
<1>1. ASSUME IInv PROVE AnswersEachOnce
  <2>1. replay_head \in Nat /\ snapshot.head \in Nat
    BY <1>1 DEF IInv, TypeOK
  <2>2. pc \in {"loop", "next"} => 0 .. (replay_head - 1) \subseteq answered
    BY <1>1, <2>1
    DEF IInv, SnapshotInv, ProgressInv, DoneIn, Ahead, Accounting
  <2>3. pc \in {"query", "choose"} \union Searching
          => answered = 0 .. (replay_head - 1)
    BY <1>1 DEF IInv, ProgressInv, Ahead, Querying
  <2> QED
    BY <2>1, <2>2, <2>3 DEF AnswersEachOnce
<1> QED
  BY <1>1, InvHolds, PTL

\* Every query behind replay_head is counted, and no more often than there
\* were failures and energy waits to repeat the counting.
THEOREM OutcomesCorrect == Spec => []OutcomesAddUp
<1>1. ASSUME IInv PROVE OutcomesAddUp
  <2>1. Counted \in Nat /\ Resets \in Nat /\ replay_head \in Nat
    BY <1>1 DEF IInv, TypeOK, Counted, Resets
  <2>2. Counted >= replay_head
    BY <1>1 DEF IInv, CountInv
  <2>3. pc = "loop" => Counted <= replay_head + Resets
    BY <1>1 DEF IInv, CountInv, Ahead
  <2>4. replay_head + Resets = replay_head + failures + wait_for_energy_count
    BY <1>1 DEF IInv, TypeOK, Resets
  <2> QED
    BY <2>2, <2>3, <2>4 DEF OutcomesAddUp, Counted
<1> QED
  BY <1>1, InvHolds, PTL

\* Only a power failure makes a miss, an energy wait never.
THEOREM MissesCorrect == Spec => []MissesAreFailures
<1>1. IInv => MissesAreFailures
  BY DEF IInv, RestartInv, MissesAreFailures
<1> QED
  BY <1>1, InvHolds, PTL
=============================================================================
