-------------------------- MODULE BestFirstSearch --------------------------
(***************************************************************************)
(* What one query of the index promises: a best-first search of a graph    *)
(* with a beam of the L closest vectors seen so far.  It says neither how  *)
(* the beam is kept nor in which order the neighbours of a vector are      *)
(* looked at, and a query given up half-way leaves no trace in the next.   *)
(***************************************************************************)
EXTENDS Integers, FiniteSets

CONSTANTS
  Vectors,     \* the vectors of the index
  Entry        \* where every search starts

VARIABLES
  searching,   \* a query is being answered
  graph,       \* graph[v]: the neighbours of v
  distance,    \* distance[v]: how far v is from the query vector
  beam,        \* how many vectors are kept
  seen,        \* vectors met in this query
  kept,        \* the beam: the closest of them
  expanded     \* vectors whose neighbours have been followed

vars == <<searching, graph, distance, beam, seen, kept, expanded>>

Farthest(S) == {v \in S : \A w \in S : distance[w] <= distance[v]}

\* The beams that S, at most one too many, may shrink to.
Best(S) == IF Cardinality(S) <= beam THEN {S}
                                     ELSE {S \ {v} : v \in Farthest(S)}

Neighbours(v) == {graph[v][i] : i \in DOMAIN graph[v]}

Init == searching = FALSE

Start ==
  /\ searching' = TRUE
  /\ seen' = {Entry}
  /\ kept' = {Entry}
  /\ expanded' = {}
  /\ graph' = graph

\* The closest vector of the beam that has not been expanded, once the
\* neighbours of all that have been are known.
Expand(v) ==
  /\ searching
  /\ \A w \in expanded : Neighbours(w) \subseteq seen
  /\ v \in kept \ expanded
  /\ \A w \in kept \ expanded : distance[v] <= distance[w]
  /\ expanded' = expanded \union {v}
  /\ UNCHANGED <<searching, graph, distance, beam, seen, kept>>

See(v) ==
  /\ searching
  /\ v \notin seen
  /\ \E w \in expanded : v \in Neighbours(w)
  /\ seen' = seen \union {v}
  /\ kept' \in Best(kept \union {v})
  /\ UNCHANGED <<searching, graph, distance, beam, expanded>>

\* The answer is ready: there is nothing left to expand.
Finish ==
  /\ searching
  /\ \A w \in expanded : Neighbours(w) \subseteq seen
  /\ kept \subseteq expanded
  /\ searching' = FALSE
  /\ UNCHANGED <<graph, distance, beam, seen, kept, expanded>>

\* A power failure, or no room left to note what was seen.
GiveUp ==
  /\ searching
  /\ searching' = FALSE
  /\ graph' = graph

\* Between two queries only the graph is of interest.
Rest == ~searching /\ ~searching' /\ graph' = graph

Next ==
  \/ Start
  \/ \E v \in Vectors : Expand(v)
  \/ \E v \in Vectors : See(v)
  \/ Finish
  \/ GiveUp
  \/ Rest

Spec == Init /\ [][Next]_vars
=============================================================================
