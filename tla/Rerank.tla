------------------------------- MODULE Rerank -------------------------------
(***************************************************************************)
(* The last part of query(), src/graphsearch/graphsearch.c: the vectors    *)
(* expanded by the search are measured again by rerank_searchlist() of     *)
(* query_ops.c, sorted in place, and the first TOP_K_VALUE of them are the *)
(* answer.  compute_recall() is there to compare it with the ground truth, *)
(* but its one call, in graphsearch_test(), is commented out.  The three   *)
(* RERANK_MODEs and PARTIAL_RERANK_MODE are covered.                       *)
(*                                                                         *)
(* expanded_log and expanded_log_dists are in FRAM and sorted there store  *)
(* by store.  A power failure in between leaves them half sorted, and the  *)
(* query starts over.                                                      *)
(*                                                                         *)
(* A vector read from flash is named by its id, and the arithmetic on it   *)
(* amounts to exact[v]; the distances of its long PQ code to long_pq[v].   *)
(*                                                                         *)
(* A definition announced as a Variant is the following definition with a  *)
(* mistake; nothing uses it.  It is there to show that a property would    *)
(* notice the mistake.                                                     *)
(***************************************************************************)
EXTENDS Integers, Sequences, FiniteSets, SequencesExt

CONSTANTS
  Vectors,        \* vector ids
  Null,           \* no vector: a buffer never filled, or already used up
  Modes,          \* the RERANK_MODEs considered
  TopK,           \* TOP_K_VALUE
  Batch,          \* RERANK_BATCH_B
  MaxExpanded,    \* MAX_EXPANDED_SIZE
  PartialTopN,    \* RERANK_PARTIAL_TOPN, or MaxExpanded without partial mode
  ExactTopK,      \* LONGPQ_EXACT_TOPK
  ExactDistances, \* the distances of the vectors from the queries considered
  LongDistances,  \* and those of their long PQ codes
  MaxFailures     \* bound on the power failures of one behaviour

ASSUME VectorsAssumption == IsFiniteSet(Vectors) /\ Null \notin Vectors
ASSUME ModesAssumption == Modes \subseteq {"lea", "fullvec", "longpq"}
ASSUME SizesAssumption == {TopK, Batch, MaxExpanded} \subseteq Nat \ {0}
\* graphsearch_test() halts if RERANK_PARTIAL_TOPN is less than TOP_K_VALUE.
\* LONGPQ_EXACT_TOPK it compares with MAX_L_SIZE only, and halts at the 30 and
\* 10 of the repository; that it is no less than TOP_K_VALUE is assumed here.
ASSUME TopAssumption == PartialTopN \in Nat /\ PartialTopN >= TopK
                        /\ ExactTopK \in Nat /\ ExactTopK >= TopK
ASSUME RecallAssumption == Cardinality(Vectors) >= TopK
ASSUME DistancesAssumption ==
  /\ ExactDistances \subseteq [Vectors -> Nat]
  /\ LongDistances \subseteq [Vectors -> Nat]
ASSUME MaxFailuresAssumption == MaxFailures \in Nat

VARIABLES
  pc,            \* where query() is
  mode,          \* RERANK_MODE
  exact,         \* the query: its distance to every vector
  long_pq,       \* and to every vector's long PQ code
  found,         \* what the search expanded, in its order
  expanded_log,
  dists,         \* expanded_log_dists
  count,         \* expanded_log_count
  batch,         \* batch_rerank_c
  i, j, key,     \* locals of rerank_searchlist()
  refined,       \* it is at the second measurement of RERANK_MODE_CPU_LONGPQ
  ids,           \* search_result_ids
  distances,     \* search_result_distance_squared
  failures

input == <<mode, exact, long_pq, found>>
log == <<expanded_log, dists, count>>
locals == <<batch, i, j, key, refined>>
result == <<ids, distances>>
vars == <<pc, input, log, locals, result, failures>>

Slots == 1..MaxExpanded
NoKey == [id |-> Null, dist |-> 0]

\* What a search may have expanded; the entry vector at least.  In partial mode
\* the log is kept sorted by the PQ distances: any order stands for those, too.
Found == {s \in UNION {[1..n -> Vectors] : n \in Slots} : IsInjective(s)}

\* The NOINIT arrays hold what an earlier query left: nothing of use.
Init ==
  /\ pc = "idle"
  /\ mode \in Modes
  /\ exact \in ExactDistances
  /\ long_pq \in LongDistances
  /\ found \in Found
  /\ expanded_log = [s \in Slots |-> Null]
  /\ dists = [s \in Slots |-> 0]
  /\ count = 0
  /\ batch = [b \in 1..Batch |-> Null]
  /\ i = 0 /\ j = 0 /\ key = NoKey
  /\ refined = FALSE
  /\ ids = [k \in 1..TopK |-> Null]
  /\ distances = [k \in 1..TopK |-> 0]
  /\ failures = 0

\* query() is called, again after a restart or when the workload comes back to
\* the same vector: init_search_log() empties the log, the search fills it,
\* and the answer is cleared.
Search ==
  /\ pc \in {"idle", "done"}
  /\ pc' = "measure"
  /\ expanded_log' = [s \in Slots |-> IF s <= Len(found)
                                      THEN found[s] ELSE expanded_log[s]]
  /\ count' = Len(found)
  /\ i' = 0
  /\ refined' = FALSE
  /\ ids' = [k \in 1..TopK |-> Null]
  /\ distances' = [k \in 1..TopK |-> 0]
  /\ UNCHANGED <<input, dists, batch, j, key, failures>>

-----------------------------------------------------------------------------
\* How many entries are measured: rerank_count, all of them for their long
\* PQ codes, and exact_count.
ToMeasure ==
  IF refined THEN Min({count, ExactTopK})
  ELSE IF mode = "longpq" THEN count ELSE Min({count, PartialTopN})

\* The distance an entry is measured by.
Measure(v) ==
  IF mode = "longpq" /\ ~refined THEN long_pq[v] ELSE exact[v]

\* RERANK_MODE_CPU_FULLVEC and _CPU_LONGPQ: one entry after the other.
MeasureOne ==
  /\ pc = "measure"
  /\ mode # "lea"
  /\ i < ToMeasure
  /\ dists' = [dists EXCEPT ![i + 1] = Measure(expanded_log[i + 1])]
  /\ i' = i + 1
  /\ UNCHANGED <<pc, input, expanded_log, count, batch, j, key, refined,
                 result, failures>>

\* RERANK_MODE_LEA: the vectors of a batch are read; i stays at its start.
ReadBatch ==
  /\ pc = "measure"
  /\ mode = "lea"
  /\ i < ToMeasure
  /\ pc' = "mac"
  /\ batch' = [b \in 1..Batch |-> IF i + b <= ToMeasure
                                  THEN expanded_log[i + b] ELSE batch[b]]
  /\ UNCHANGED <<input, log, i, j, key, refined, result, failures>>

\* batch_count_this_run
InBatch == Min({Batch, ToMeasure - i})

\* RERANK_MODE_LEA: msp_sub_q15() replaces the vectors of the batch by their
\* differences from the query, msp_mac_q15() turns each into its distance.
MacBatch ==
  /\ pc = "mac"
  /\ pc' = "measure"
  /\ dists' = [s \in Slots |-> IF s \in (i + 1)..(i + InBatch)
                               THEN Measure(batch[s - i]) ELSE dists[s]]
  /\ batch' = [b \in 1..Batch |-> IF b <= InBatch THEN Null ELSE batch[b]]
  /\ i' = i + InBatch
  /\ UNCHANGED <<input, expanded_log, count, j, key, refined, result, failures>>

-----------------------------------------------------------------------------
\* Insertion sort, i and j counted from 0 as in the code: the outer loop
\* takes the next key out.
TakeKey(n) ==
  /\ key' = [id |-> expanded_log[n + 1], dist |-> dists[n + 1]]
  /\ i' = n
  /\ j' = n - 1

\* All is measured: expanded_log_count = rerank_count, and sorting begins.
Measured ==
  /\ pc = "measure"
  /\ i >= ToMeasure
  /\ count' = IF refined THEN ToMeasure ELSE Min({count, PartialTopN})
  /\ IF count' > 1
     THEN pc' = "sort" /\ TakeKey(1)
     ELSE pc' = "sorted" /\ UNCHANGED <<i, j, key>>
  /\ UNCHANGED <<input, expanded_log, dists, batch, refined, result, failures>>

\* Variant: j is tested with > 0.
MustShiftFromOne == j >= 1 /\ dists[j + 1] > key.dist

MustShift == j >= 0 /\ dists[j + 1] > key.dist

\* The inner loop moves one entry up, its id and then its distance.
Shift ==
  /\ pc = "sort"
  /\ MustShift
  /\ expanded_log' = [expanded_log EXCEPT ![j + 2] = expanded_log[j + 1]]
  /\ dists' = [dists EXCEPT ![j + 2] = dists[j + 1]]
  /\ j' = j - 1
  /\ UNCHANGED <<pc, input, count, batch, i, key, refined, result, failures>>

\* Variant: the distance stays behind.
PlaceIdOnly ==
  /\ pc = "sort"
  /\ ~MustShift
  /\ expanded_log' = [expanded_log EXCEPT ![j + 2] = key.id]
  /\ IF i + 1 < count
     THEN pc' = "sort" /\ TakeKey(i + 1)
     ELSE pc' = "sorted" /\ UNCHANGED <<i, j, key>>
  /\ UNCHANGED <<input, dists, count, batch, refined, result, failures>>

\* The key is put down, and the outer loop goes on.
Place ==
  /\ pc = "sort"
  /\ ~MustShift
  /\ expanded_log' = [expanded_log EXCEPT ![j + 2] = key.id]
  /\ dists' = [dists EXCEPT ![j + 2] = key.dist]
  /\ IF i + 1 < count
     THEN pc' = "sort" /\ TakeKey(i + 1)
     ELSE pc' = "sorted" /\ UNCHANGED <<i, j, key>>
  /\ UNCHANGED <<input, count, batch, refined, result, failures>>

\* RERANK_MODE_CPU_LONGPQ: the closest by long PQ code are measured exactly.
Refine ==
  /\ pc = "sorted"
  /\ mode = "longpq"
  /\ ~refined
  /\ refined' = TRUE
  /\ pc' = "measure"
  /\ i' = 0
  /\ UNCHANGED <<input, log, batch, j, key, result, failures>>

\* query(): the first TOP_K_VALUE entries, or as many as there are.
Answer ==
  /\ pc = "sorted"
  /\ mode = "longpq" => refined
  /\ pc' = "done"
  /\ ids' = [k \in 1..TopK |-> IF k <= count THEN expanded_log[k] ELSE ids[k]]
  /\ distances' = [k \in 1..TopK |-> IF k <= count THEN dists[k]
                                                   ELSE distances[k]]
  /\ UNCHANGED <<input, log, locals, failures>>

\* Variant: the query is not started over, but answered from the log.
PowerFailResumes ==
  /\ pc \notin {"idle", "done"}
  /\ failures < MaxFailures
  /\ failures' = failures + 1
  /\ pc' = "sorted"
  /\ UNCHANGED <<input, log, locals, result>>

\* A power failure: what is not in FRAM is gone.
PowerFail ==
  /\ pc \notin {"idle", "done"}
  /\ failures < MaxFailures
  /\ failures' = failures + 1
  /\ pc' = "idle"
  /\ batch' = [b \in 1..Batch |-> Null]
  /\ i' = 0 /\ j' = 0 /\ key' = NoKey
  /\ refined' = FALSE
  /\ UNCHANGED <<input, log, result>>

Step ==
  \/ Search
  \/ MeasureOne \/ ReadBatch \/ MacBatch \/ Measured
  \/ Shift \/ Place
  \/ Refine \/ Answer

Next == Step \/ PowerFail

Spec == Init /\ [][Next]_vars

-----------------------------------------------------------------------------
\* Variant: the inner loop of compute_recall() has no break.
HitsWithoutBreak(gt) ==
  Cardinality({p \in (1..TopK) \X (1..TopK) : distances[p[1]] = gt[p[2]]})

\* compute_recall(), called for a finished answer: how many of its distances
\* are among those of the ground truth, which read_query_gt_distance() brings
\* from flash.
Hits(gt) ==
  Cardinality({r \in 1..TopK : \E g \in 1..TopK : distances[r] = gt[g]})

\* The ground truth: the distances of the nearest of all vectors, ascending,
\* each as often as there are vectors so far away.
GroundTruth ==
  [g \in 1..TopK |->
     CHOOSE d \in {exact[v] : v \in Vectors} :
       /\ Cardinality({v \in Vectors : exact[v] < d}) < g
       /\ Cardinality({v \in Vectors : exact[v] <= d}) >= g]

\* The type of every variable.
TypeOK ==
  /\ pc \in {"idle", "measure", "mac", "sort", "sorted", "done"}
  /\ found \in Found
  /\ expanded_log \in [Slots -> Vectors \union {Null}]
  /\ dists \in [Slots -> Nat]
  /\ count \in 0..MaxExpanded
  /\ batch \in [1..Batch -> Vectors \union {Null}]
  /\ i \in 0..MaxExpanded /\ j \in -1..MaxExpanded
  /\ key \in [id : Vectors \union {Null}, dist : Nat]
  /\ pc = "sort" => key.id # Null
  /\ refined \in BOOLEAN
  /\ ids \in [1..TopK -> Vectors \union {Null}]
  /\ distances \in [1..TopK -> Nat]
  /\ failures \in 0..MaxFailures

\* The entries of the log that take part in the last sort.
Candidates == {found[s] : s \in 1..Min({Len(found), PartialTopN})}

\* While the two arrays are sorted in place no vector is lost and none is
\* there twice, but for the gap where the key was, and every distance is
\* that of its vector, whatever an interrupted query left in the arrays.
\* Every variable keeps its type.
SortLosesNothing ==
  /\ TypeOK
  /\ pc = "sort" =>
       LET rest == (1..count) \ {j + 2}
       IN  /\ Cardinality({expanded_log[s] : s \in rest}) = count - 1
           /\ {expanded_log[s] : s \in rest} \subseteq Candidates \ {key.id}
           /\ key.id \in Candidates /\ key.dist = Measure(key.id)
           /\ \A s \in rest : dists[s] = Measure(expanded_log[s])

\* The answer of a query that returned is what an uninterrupted query would
\* give: the nearest of the candidates in ascending order, each once and
\* with its own distance, behind them nothing.  With RERANK_MODE_CPU_LONGPQ
\* a nearer candidate is only missing if enough others look as near to it by
\* their long PQ codes.
AnswerIsNearest ==
  pc = "done" =>
    LET n == Min({Cardinality(Candidates), TopK})
        given == {ids[k] : k \in 1..n}
        AsNearByCode(v) == {w \in Candidates : long_pq[w] <= long_pq[v]}
    IN  /\ Cardinality(given) = n
        /\ given \subseteq Candidates
        /\ \A k \in 1..n : distances[k] = exact[ids[k]]
        /\ \A k \in 2..n : distances[k - 1] <= distances[k]
        /\ \A v \in Candidates \ given :
             \/ exact[v] >= distances[n]
             \/ mode = "longpq" /\ Cardinality(AsNearByCode(v)) > ExactTopK
        /\ \A k \in (n + 1)..TopK : ids[k] = Null /\ distances[k] = 0

\* The recall of a full answer is the share of it that is as near as the
\* ground truth: equal distances, in the answer or in the ground truth, are
\* neither counted twice nor missed.
RecallCountsTheNearest ==
  pc = "done" /\ count >= TopK =>
    Hits(GroundTruth) =
      Cardinality({r \in 1..TopK : distances[r] <= GroundTruth[TopK]})

=============================================================================
