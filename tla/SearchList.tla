----------------------------- MODULE SearchList -----------------------------
(***************************************************************************)
(* The search of one query, src/graphsearch/query_ops.c and the loop of    *)
(* query() in graphsearch.c: the candidate list, its hash and its two      *)
(* counters, all in FRAM and none of them part of a checkpoint.  A power   *)
(* failure leaves them as they are, and the query starts over on top.      *)
(*                                                                         *)
(* A candidate is named by its vector: add_to_L never allocates two for    *)
(* the same one.  An L1 page read and a distance-table lookup amount to    *)
(* distance[v], and a page of neighbours to graph[v].                      *)
(*                                                                         *)
(* A definition announced as a Variant is the following definition with a  *)
(* mistake; nothing uses it.  It is there to show that a property would    *)
(* notice the mistake.                                                     *)
(***************************************************************************)
EXTENDS Integers, Sequences, SequencesExt, FiniteSets

CONSTANTS
  Vectors,      \* vector ids
  Entry,        \* base_graph_entry_vecID
  Null,         \* NULL
  Degree,       \* MAX_OUT_NEIGHBORS
  Graphs,       \* the base graphs considered
  Distances,    \* the queries considered: their distance to every vector
  ListSizes,    \* workload_table_L
  Capacity,     \* SearchCandidates that search_log and search_log_ext hold
  MaxExpanded   \* MAX_EXPANDED_SIZE

ASSUME VectorsAssumption == IsFiniteSet(Vectors) /\ Entry \in Vectors
ASSUME NullAssumption == Null \notin Vectors
ASSUME DegreeAssumption == Degree \in Nat \ {0}
ASSUME GraphsAssumption == Graphs \subseteq [Vectors -> [1..Degree -> Vectors]]
ASSUME DistancesAssumption == Distances \subseteq [Vectors -> Nat]
ASSUME ListSizesAssumption == ListSizes \subseteq Nat \ {0}
ASSUME LogSizesAssumption == Capacity \in Nat \ {0} /\ MaxExpanded \in Nat \ {0}

VARIABLES
  pc,               \* where query() is
  graph,            \* the neighbour pages in flash
  distance,         \* distance_table and the PQ codes in flash
  current_L_size,
  log_head,         \* candidates allocated, search_log_head and _ext_head
  hash,             \* vectors found through search_log_hash
  list,             \* from search_log_smallest_entry along next
  visited,          \* vectors whose candidate has its visited flag set
  candidate_count,  \* search_log_candidate_count
  visited_count,    \* search_log_visited_count
  sorted_tail,      \* search_log_sorted_tail
  expanded_log,     \* expanded_log[0 .. expanded_log_count - 1]
  p_star,           \* query(): the candidate being expanded
  neighbor          \* query(): index into its neighbours

input == <<graph, distance, current_L_size>>
counts == <<candidate_count, visited_count, sorted_tail>>
vars == <<pc, input, log_head, hash, list, visited, counts, expanded_log,
          p_star, neighbor>>

Init ==
  /\ pc = "idle"
  /\ graph \in Graphs
  /\ distance \in Distances
  /\ current_L_size \in ListSizes
  /\ log_head = 0
  /\ hash = {}
  /\ list = <<>>
  /\ visited = {}
  /\ candidate_count = 0
  /\ visited_count = 0
  /\ sorted_tail = Null
  /\ expanded_log = <<>>
  /\ p_star = Null
  /\ neighbor = 1

\* Variant: search_log_sorted_tail is left over from the query before.
InitSearchLogKeepsTail(d, l) ==
  /\ pc \in {"idle", "done"}
  /\ pc = "idle" => d = distance
  /\ pc' = "entry"
  /\ distance' = d
  /\ current_L_size' = l
  /\ log_head' = 0
  /\ hash' = {}
  /\ list' = <<>>
  /\ candidate_count' = 0
  /\ visited_count' = 0
  /\ expanded_log' = <<>>
  /\ UNCHANGED <<graph, visited, sorted_tail, p_star, neighbor>>

\* query() is called for a query vector, the same one as before after a
\* restart, and an operating point; it builds the distance table and calls
\* init_search_log().  The visited flags belong to the candidates and stay.
InitSearchLog(d, l) ==
  /\ pc \in {"idle", "done"}
  /\ pc = "idle" => d = distance
  /\ pc' = "entry"
  /\ distance' = d
  /\ current_L_size' = l
  /\ log_head' = 0
  /\ hash' = {}
  /\ list' = <<>>
  /\ candidate_count' = 0
  /\ visited_count' = 0
  /\ sorted_tail' = Null
  /\ expanded_log' = <<>>
  /\ UNCHANGED <<graph, visited, p_star, neighbor>>

-----------------------------------------------------------------------------
\* add_to_L: the candidate v would be the (candidate_count + 1)st, and is no
\* better than the last of a list that is full.
Rejected(v) ==
  /\ sorted_tail # Null
  /\ candidate_count + 1 >= current_L_size
  /\ distance[v] >= distance[sorted_tail]

\* How many entries of s stay in front of v: a v that is closer than the
\* head is put in front, any other behind the head and in front of the first
\* entry behind it that is not closer than v.
Before(s, v) ==
  IF s = <<>> \/ distance[v] < distance[s[1]]
  THEN 0
  ELSE CHOOSE i \in 1..Len(s) :
         /\ i = Len(s) \/ distance[s[i + 1]] >= distance[v]
         /\ \A j \in 1..(i - 1) : distance[s[j + 1]] < distance[v]

WithCandidate(v) ==
  IF Rejected(v) THEN list ELSE InsertAt(list, Before(list, v) + 1, v)

\* Variant: the candidate's visited flag is not cleared.
AllocateKeepsFlag(v) ==
  /\ log_head < Capacity
  /\ log_head' = log_head + 1
  /\ hash' = hash \union {v}
  /\ visited' = visited

\* add_to_L: a candidate is allocated, hashed and initialised.
Allocate(v) ==
  /\ log_head < Capacity
  /\ log_head' = log_head + 1
  /\ hash' = hash \union {v}
  /\ visited' = visited \ {v}

\* Variant: the cut entries stay in visited_count.
PruneKeepsVisited(s, count) ==
  \/ /\ count <= current_L_size
     /\ list' = s
     /\ candidate_count' = count
     /\ UNCHANGED <<visited_count, sorted_tail>>
  \/ /\ count > current_L_size
     /\ list' = SubSeq(s, 1, Min({current_L_size, Len(s)}))
     /\ candidate_count' = Len(list')
     /\ sorted_tail' = IF Len(s) >= current_L_size
                       THEN s[current_L_size] ELSE sorted_tail
     /\ visited_count' = visited_count

\* prune_L_lazy() with the test in front of its call: of a list s that the
\* counter takes for longer than current_L_size, the first entries stay.
Prune(s, count) ==
  \/ /\ count <= current_L_size
     /\ list' = s
     /\ candidate_count' = count
     /\ UNCHANGED <<visited_count, sorted_tail>>
  \/ /\ count > current_L_size
     /\ list' = SubSeq(s, 1, Min({current_L_size, Len(s)}))
     /\ candidate_count' = Len(list')
     /\ sorted_tail' = IF Len(s) >= current_L_size
                       THEN s[current_L_size] ELSE sorted_tail
     /\ visited_count' = Cardinality(visited' \intersect Range(list'))

\* query(): add_to_L(entry_vector_id), with no pruning behind it.
AddEntry ==
  /\ pc = "entry"
  /\ pc' = "select"
  /\ Allocate(Entry)
  /\ list' = WithCandidate(Entry)
  /\ candidate_count' = candidate_count + 1
  /\ UNCHANGED <<input, visited_count, sorted_tail, expanded_log, p_star,
                 neighbor>>

-----------------------------------------------------------------------------
Unvisited == {i \in 1..Len(list) : list[i] \notin visited}

\* The loop goes on: its counters differ, and get_closest_unvisited() does
\* not return NULL.
CanExpand == candidate_count > visited_count /\ Unvisited # {}

\* Variant: the walk of the list does not stop at the first one found.
ClosestUnvisitedLast == list[Max(Unvisited)]

\* get_closest_unvisited()
ClosestUnvisited == list[Min(Unvisited)]

\* Variant: the flag is forgotten, only the counter goes up.
MarkVisitedCounts(v) ==
  /\ visited' = visited
  /\ visited_count' = visited_count + 1

MarkVisited(v) ==
  /\ visited' = visited \union {v}
  /\ visited_count' = visited_count + 1

\* Variant: one entry more than expanded_log has room for.
LogHasRoomForOneMore == Len(expanded_log) <= MaxExpanded

LogHasRoom == Len(expanded_log) < MaxExpanded

Expand ==
  /\ pc = "select"
  /\ CanExpand
  /\ LogHasRoom
  /\ pc' = "neighbors"
  /\ p_star' = ClosestUnvisited
  /\ neighbor' = 1
  /\ MarkVisited(p_star')
  /\ expanded_log' = Append(expanded_log, p_star')
  /\ UNCHANGED <<input, log_head, hash, list, candidate_count, sorted_tail>>

\* SET_BREAKPOINT(BP_ERROR): the program stops until the next power cycle.
ExpandedLogFull ==
  /\ pc = "select"
  /\ CanExpand
  /\ ~LogHasRoom
  /\ pc' = "halted"
  /\ p_star' = ClosestUnvisited
  /\ MarkVisited(p_star')
  /\ UNCHANGED <<input, log_head, hash, list, candidate_count, sorted_tail,
                 expanded_log, neighbor>>

Finish ==
  /\ pc = "select"
  /\ ~CanExpand
  /\ pc' = "done"
  /\ UNCHANGED <<input, log_head, hash, list, visited, counts, expanded_log,
                 p_star, neighbor>>

\* Variant: the index does not move.
NextNeighborStays ==
  /\ pc' = "neighbors"
  /\ neighbor' = neighbor
  /\ UNCHANGED <<input, expanded_log, p_star>>

\* Variant: i <= MAX_OUT_NEIGHBORS.
NextNeighborTooFar ==
  /\ pc' = IF neighbor <= Degree THEN "neighbors" ELSE "select"
  /\ neighbor' = IF neighbor <= Degree THEN neighbor + 1 ELSE 1
  /\ UNCHANGED <<input, expanded_log, p_star>>

NextNeighbor ==
  /\ pc' = IF neighbor < Degree THEN "neighbors" ELSE "select"
  /\ neighbor' = IF neighbor < Degree THEN neighbor + 1 ELSE 1
  /\ UNCHANGED <<input, expanded_log, p_star>>

\* has_candidate(): the vector is known, though perhaps long pruned.
Duplicate(v) ==
  /\ pc = "neighbors"
  /\ v \in hash
  /\ Prune(list, candidate_count)
  /\ NextNeighbor
  /\ UNCHANGED <<log_head, hash, visited>>

Add(v) ==
  /\ pc = "neighbors"
  /\ v \notin hash
  /\ Allocate(v)
  /\ Prune(WithCandidate(v), candidate_count + 1)
  /\ NextNeighbor

SearchLogFull(v) ==
  /\ pc = "neighbors"
  /\ v \notin hash
  /\ log_head = Capacity
  /\ pc' = "halted"
  /\ UNCHANGED <<input, log_head, hash, list, visited, counts, expanded_log,
                 p_star, neighbor>>

\* The next restart resumes before the call of query(); the local variables
\* are gone.
PowerFail ==
  /\ pc # "idle"
  /\ pc' = "idle"
  /\ p_star' = Null
  /\ neighbor' = 1
  /\ UNCHANGED <<input, log_head, hash, list, visited, counts, expanded_log>>

LookAt(v) == Duplicate(v) \/ Add(v) \/ SearchLogFull(v)

Step ==
  \/ \E d \in Distances, l \in ListSizes : InitSearchLog(d, l)
  \/ AddEntry
  \/ Expand \/ ExpandedLogFull \/ Finish
  \/ p_star # Null /\ LookAt(graph[p_star][neighbor])

Next == Step \/ PowerFail

\* The processor runs as long as it has power.
Spec == Init /\ [][Next]_vars /\ WF_vars(Step)

-----------------------------------------------------------------------------
\* The type of every variable; the two logs stay inside their arrays.
TypeOK ==
  /\ pc \in {"idle", "entry", "select", "neighbors", "done", "halted"}
  /\ graph \in Graphs
  /\ distance \in Distances
  /\ current_L_size \in ListSizes
  /\ log_head \in 0..Capacity
  /\ hash \subseteq Vectors
  /\ list \in Seq(Vectors)
  /\ visited \subseteq Vectors
  /\ candidate_count \in Nat
  /\ visited_count \in Nat
  /\ sorted_tail \in Vectors \union {Null}
  /\ expanded_log \in Seq(Vectors) /\ Len(expanded_log) <= MaxExpanded
  /\ p_star \in Vectors \union {Null}
  /\ neighbor \in 1..Degree

Searching == pc \in {"select", "neighbors", "done"}

\* The two counters that decide whether query() goes on are those of the
\* list, although an insertion counts a candidate it then rejects and a cut
\* drops visited entries together with unvisited ones.
CountsMatchList ==
  Searching =>
    /\ candidate_count = Len(list)
    /\ visited_count = Cardinality(visited \intersect Range(list))

\* No vector seen in this query, and none of an interrupted one before it,
\* is wrongly in or out of the list: it is sorted, holds no vector twice,
\* and a seen vector is only missing if the list is full of closer ones.
ListIsBestOfSeen ==
  Searching =>
    /\ \A i, j \in 1..Len(list) :
         i < j => list[i] # list[j] /\ distance[list[i]] <= distance[list[j]]
    /\ Len(list) <= current_L_size
    /\ Range(list) \subseteq hash
    /\ \A v \in hash \ Range(list) :
         Len(list) = current_L_size /\ distance[v] >= distance[list[Len(list)]]

\* When query() stops looking, every vector it has seen has been expanded or
\* is no closer than a whole list of vectors that have been, and it has seen
\* the neighbours of all of those: nothing closer was left unexplored.
SearchConverged ==
  pc = "done" =>
    /\ Range(list) \subseteq Range(expanded_log)
    /\ \A v \in Range(expanded_log) : Range(graph[v]) \subseteq hash
    /\ \A v \in hash \ Range(expanded_log), w \in Range(list) :
         Len(list) = current_L_size /\ distance[w] <= distance[v]

\* A vector is expanded, and its neighbour page read, once in a query at
\* most, even if it left the list and was met again.
ExpandedOnce ==
  Searching => \A i, j \in 1..Len(expanded_log) :
                 expanded_log[i] = expanded_log[j] => i = j

\* The promise: a best-first search with a beam of current_L_size.
Abstract == INSTANCE BestFirstSearch WITH
  Vectors <- Vectors,
  Entry <- Entry,
  searching <- pc \in {"select", "neighbors"},
  graph <- graph,
  distance <- distance,
  beam <- current_L_size,
  seen <- hash,
  kept <- Range(list),
  expanded <- Range(expanded_log)

\* Every behaviour of the linked list, hash and counters is one of the
\* best-first search.
ImplementsBestFirst == Abstract!Spec

\* If the supply fails finitely often, query() returns again and again, or
\* the program stops for good because a log was too small.
QueriesEnd ==
  <>[][~PowerFail]_vars => []<>(pc \in {"done", "halted"})

=============================================================================
