---------------------------- MODULE RerankProofs ----------------------------
(***************************************************************************)
(* What holds of the reranking of one query for any number of vectors,     *)
(* any distances with or without ties, every size of batch, log and        *)
(* answer, and any number of power failures.                               *)
(*                                                                         *)
(* The sort is seen as one array of pairs with a gap in it.  What it may   *)
(* not lose is said of the slots that are no gap, so that the steps only   *)
(* need to know how a set of slots changes when an entry moves.            *)
(***************************************************************************)
EXTENDS Rerank, SequenceTheorems, FiniteSetTheorems, NaturalsInduction,
        WellFoundedInduction, TLAPS

\* The candidates are the first of those that the search expanded.
Kept == Min({Len(found), PartialTopN})

\* How many entries the sort is about.
Sorting == IF refined THEN Min({Kept, ExactTopK}) ELSE Kept

\* No vector is twice in these slots of a log.
Distinct(vectors, slots) ==
  \A s, t \in slots : vectors[s] = vectors[t] => s = t

Entries(vectors, slots) == {vectors[s] : s \in slots}

\* Each distance is that of its vector.
Fits(slots) == \A s \in slots : dists[s] = Measure(expanded_log[s])

Ascending(slots) == \A s, t \in slots : s < t => dists[s] <= dists[t]

\* What the sort is about: every candidate, or the nearest by their codes.
Chosen(S) ==
  /\ S \subseteq Candidates
  /\ ~refined => S = Candidates
  /\ \A v \in Candidates \ S, w \in S : long_pq[w] <= long_pq[v]

\* The query, and that only one mode measures twice.
InputInv ==
  /\ mode \in Modes /\ exact \in ExactDistances /\ long_pq \in LongDistances
  /\ refined => mode = "longpq"

\* At the first measurement the log is as the search left it, at the second
\* as the first sort did.
MeasureInv ==
  pc \in {"measure", "mac"} =>
    /\ ~refined => /\ count = Len(found)
                   /\ \A s \in 1..count : expanded_log[s] = found[s]
    /\ refined => /\ count = Kept
                  /\ Distinct(expanded_log, 1..count)
                  /\ Entries(expanded_log, 1..count) = Candidates
                  /\ \A s, t \in 1..count :
                       s < t => long_pq[expanded_log[s]]
                                  <= long_pq[expanded_log[t]]
    /\ i <= ToMeasure
    /\ Fits(1..i)

\* The vectors read for a batch are those of the entries to be measured next.
BatchInv ==
  pc = "mac" =>
    /\ mode = "lea" /\ i < ToMeasure
    /\ \A b \in 1..InBatch : batch[b] = expanded_log[i + b]

\* The slot that the key was taken from, as the inner loop moves it down.
Gap == j + 2

\* The entries and the key together are what is sorted, up to i in order; the
\* key is nearer than everything that was moved out of its way.
SortInv ==
  pc = "sort" =>
    /\ count = Sorting
    /\ i \in 1..(count - 1) /\ j \in -1..(i - 1)
    /\ Distinct(expanded_log, (1..count) \ {Gap})
    /\ key.id \notin Entries(expanded_log, (1..count) \ {Gap})
    /\ Chosen(Entries(expanded_log, (1..count) \ {Gap}) \union {key.id})
    /\ Fits((1..count) \ {Gap}) /\ key.dist = Measure(key.id)
    /\ Ascending((1..(i + 1)) \ {Gap})
    /\ \A s \in (Gap + 1)..(i + 1) : key.dist < dists[s]

\* What a finished sort leaves.
SortedInv ==
  pc \in {"sorted", "done"} =>
    /\ count = Sorting
    /\ Distinct(expanded_log, 1..count)
    /\ Chosen(Entries(expanded_log, 1..count))
    /\ Fits(1..count) /\ Ascending(1..count)

\* The answer is empty while a query runs, and the head of the log behind it.
AnswerInv ==
  /\ pc \in {"measure", "mac", "sort", "sorted"} =>
       \A k \in 1..TopK : ids[k] = Null /\ distances[k] = 0
  /\ pc = "done" =>
       /\ mode = "longpq" => refined
       /\ \A k \in 1..TopK :
            /\ ids[k] = IF k <= count THEN expanded_log[k] ELSE Null
            /\ distances[k] = IF k <= count THEN dists[k] ELSE 0

\* The inductive invariant.
IInv == /\ TypeOK /\ InputInv /\ MeasureInv /\ BatchInv /\ SortInv
        /\ SortedInv /\ AnswerInv

-----------------------------------------------------------------------------
\* A set of naturals that is not empty has a least element.
LEMMA LeastElement ==
  ASSUME NEW T \in SUBSET Nat, T # {}
  PROVE  \E m \in T : \A n \in T : m <= n
<1> DEFINE R == OpToRel(<, Nat)
<1>1. \E m \in T : \A n \in T : <<n, m>> \notin R
  <2>1. IsWellFoundedOn(R, Nat)
    BY NatLessThanWellFounded
  <2> HIDE DEF R
  <2> QED
    BY <2>1, WFMin
<1>2. \A m, n \in Nat : <<n, m>> \in R <=> n < m
  BY DEF OpToRel
<1> HIDE DEF R
<1>3. PICK m \in T : \A n \in T : <<n, m>> \notin R
  BY <1>1
<1>4. \A n \in T : ~(n < m)
  BY <1>2, <1>3
<1> QED
  BY <1>4

\* The counts of query() are the lesser of two.
LEMMA MinOfTwo ==
  ASSUME NEW a \in Nat, NEW b \in Nat
  PROVE  Min({a, b}) = IF a <= b THEN a ELSE b
<1>1. Min({a, b}) \in {a, b} /\ \A n \in {a, b} : Min({a, b}) <= n
  BY LeastElement DEF Min
<1> QED
  BY <1>1

\* Slots with no vector twice hold as many vectors as they are.
LEMMA DistinctCardinality ==
  ASSUME NEW vectors, NEW S, IsFiniteSet(S), Distinct(vectors, S)
  PROVE  /\ IsFiniteSet(Entries(vectors, S))
         /\ Cardinality(Entries(vectors, S)) = Cardinality(S)
<1> DEFINE f == [s \in S |-> vectors[s]]
<1>1. f \in Bijection(S, Entries(vectors, S))
  <2>1. f \in [S -> Entries(vectors, S)]
    BY DEF Entries
  <2>2. IsInjective(f)
    BY DEF Distinct, IsInjective
  <2>3. \A v \in Entries(vectors, S) : \E s \in S : f[s] = v
    BY DEF Entries
  <2> QED
    BY <2>1, <2>2, <2>3 DEF Bijection, Injection, Surjection
<1>2. ExistsBijection(S, Entries(vectors, S))
  BY <1>1 DEF ExistsBijection
<1> QED
  BY <1>2, FS_Bijection

\* An entry that is taken out leaves a gap, and the rest without it.
LEMMA TakenOut ==
  ASSUME NEW vectors, NEW S, NEW g \in S, Distinct(vectors, S)
  PROVE  /\ Distinct(vectors, S \ {g})
         /\ vectors[g] \notin Entries(vectors, S \ {g})
         /\ Entries(vectors, S \ {g}) \union {vectors[g]} = Entries(vectors, S)
BY DEF Distinct, Entries

\* An entry that is put into the gap closes it.
LEMMA PutDown ==
  ASSUME NEW vectors, NEW S, NEW g \in S, NEW new, NEW v,
         Distinct(vectors, S \ {g}), v \notin Entries(vectors, S \ {g}),
         new[g] = v, \A s \in S \ {g} : new[s] = vectors[s]
  PROVE  /\ Distinct(new, S)
         /\ Entries(new, S) = Entries(vectors, S \ {g}) \union {v}
<1>1. \A s, t \in S : new[s] = new[t] => s = t
  BY DEF Distinct, Entries
<1>2. ASSUME NEW s \in S PROVE new[s] \in Entries(vectors, S \ {g}) \union {v}
  BY DEF Entries
<1>3. ASSUME NEW w \in Entries(vectors, S \ {g}) \union {v}
      PROVE  \E s \in S : w = new[s]
  BY DEF Entries
<1> QED
  BY <1>1, <1>2, <1>3 DEF Distinct, Entries

\* An entry that moves into the gap leaves one where it was.
LEMMA MovedUp ==
  ASSUME NEW vectors, NEW S, NEW g \in S, NEW h \in S \ {g}, NEW new,
         Distinct(vectors, S \ {g}),
         new[g] = vectors[h], \A s \in S \ {g} : new[s] = vectors[s]
  PROVE  /\ Distinct(new, S \ {h})
         /\ Entries(new, S \ {h}) = Entries(vectors, S \ {g})
<1>1. \A s, t \in S \ {h} : new[s] = new[t] => s = t
  BY DEF Distinct
<1>2. ASSUME NEW s \in S \ {h} PROVE \E t \in S \ {g} : new[s] = vectors[t]
  <2>1. CASE s = g
    BY <2>1
  <2>2. CASE s # g
    BY <2>2
  <2> QED
    BY <2>1, <2>2
<1>3. ASSUME NEW t \in S \ {g} PROVE \E s \in S \ {h} : new[s] = vectors[t]
  <2>1. CASE t = h
    BY <2>1
  <2>2. CASE t # h
    BY <2>2
  <2> QED
    BY <2>1, <2>2
<1> QED
  BY <1>1, <1>2, <1>3 DEF Distinct, Entries

-----------------------------------------------------------------------------

\* The sorts of the query and of the sizes that follow from it.
LEMMA Numbers ==
  ASSUME TypeOK, InputInv
  PROVE  /\ {TopK, Batch, MaxExpanded, ExactTopK, PartialTopN}
              \subseteq Nat \ {0}
         /\ TopK <= ExactTopK /\ TopK <= PartialTopN
         /\ exact \in [Vectors -> Nat] /\ long_pq \in [Vectors -> Nat]
         /\ \A v \in Vectors : Measure(v) \in Nat
         /\ Len(found) \in 1..MaxExpanded
         /\ \A s \in 1..Len(found) : found[s] \in Vectors
         /\ Distinct(found, 1..Len(found))
         /\ Kept = IF Len(found) <= PartialTopN THEN Len(found) ELSE PartialTopN
         /\ Kept \in 1..Len(found)
         /\ Sorting = IF refined /\ ExactTopK < Kept THEN ExactTopK ELSE Kept
         /\ Sorting \in 1..Kept
<1>1. /\ {TopK, Batch, MaxExpanded, ExactTopK, PartialTopN} \subseteq Nat \ {0}
      /\ TopK <= ExactTopK /\ TopK <= PartialTopN
  BY SizesAssumption, TopAssumption
<1>2. exact \in [Vectors -> Nat] /\ long_pq \in [Vectors -> Nat]
  BY DistancesAssumption DEF InputInv
<1>3. \A v \in Vectors : Measure(v) \in Nat
  BY <1>2 DEF Measure
<1>4. PICK n \in Slots : found \in [1..n -> Vectors] /\ IsInjective(found)
  BY DEF TypeOK, Found
<1>5. Len(found) = n /\ n \in 1..MaxExpanded /\ found \in Seq(Vectors)
  <2>1. n \in Nat
    BY <1>4, <1>1 DEF Slots
  <2>2. found = [s \in 1..n |-> found[s]]
    BY <1>4
  <2>3. found \in Seq(Vectors)
    BY <1>4, <2>1, <2>2, IsASeq
  <2>4. DOMAIN found = 1..n /\ DOMAIN found = 1..Len(found)
        /\ Len(found) \in Nat
    BY <1>4, <2>3, LenProperties
  <2>5. Len(found) = n
    BY <2>1, <2>4
  <2> QED
    BY <1>4, <2>3, <2>5 DEF Slots
<1>6. /\ \A s \in 1..Len(found) : found[s] \in Vectors
      /\ Distinct(found, 1..Len(found))
  BY <1>4, <1>5 DEF Distinct, IsInjective
<1>7. /\ Kept = IF Len(found) <= PartialTopN THEN Len(found) ELSE PartialTopN
      /\ Kept \in 1..Len(found)
  BY <1>1, <1>5, MinOfTwo DEF Kept
<1>8. /\ Sorting = IF refined /\ ExactTopK < Kept THEN ExactTopK ELSE Kept
      /\ Sorting \in 1..Kept
  <2>1. Kept \in Nat /\ ExactTopK \in Nat
    BY <1>1, <1>5, <1>7
  <2>2. Min({Kept, ExactTopK}) = IF Kept <= ExactTopK THEN Kept ELSE ExactTopK
    BY <2>1, MinOfTwo
  <2>3. CASE refined
    <3>1. Sorting = Min({Kept, ExactTopK})
      BY <2>3 DEF Sorting
    <3> QED
      BY <1>1, <1>5, <1>7, <2>1, <2>2, <2>3, <3>1
  <2>4. CASE ~refined
    BY <1>5, <1>7, <2>4 DEF Sorting
  <2> QED
    BY <2>3, <2>4
<1> QED
  BY <1>1, <1>2, <1>3, <1>5, <1>6, <1>7, <1>8

\* The candidates, one for each slot that is kept.
LEMMA CandidatesAreKept ==
  ASSUME TypeOK, InputInv
  PROVE  /\ Candidates = Entries(found, 1..Kept)
         /\ Distinct(found, 1..Kept)
         /\ Candidates \subseteq Vectors
         /\ IsFiniteSet(Candidates) /\ Cardinality(Candidates) = Kept
<1>1. /\ Kept \in 1..Len(found) /\ Len(found) \in Nat
      /\ \A s \in 1..Len(found) : found[s] \in Vectors
      /\ Distinct(found, 1..Len(found))
  BY Numbers
<1>2. 1..Kept \subseteq 1..Len(found)
  BY <1>1
<1>3. Candidates = Entries(found, 1..Kept)
  BY DEF Candidates, Entries, Kept
<1>4. Distinct(found, 1..Kept) /\ Candidates \subseteq Vectors
  BY <1>1, <1>2, <1>3 DEF Distinct, Entries
<1>5. IsFiniteSet(1..Kept) /\ Cardinality(1..Kept) = Kept
  BY <1>1, FS_Interval
<1> QED
  BY <1>3, <1>4, <1>5, DistinctCardinality

\* What is measured are entries, and no fewer than will be sorted.
LEMMA MeasureNumbers ==
  ASSUME IInv, pc \in {"measure", "mac"}
  PROVE  /\ count \in 1..MaxExpanded
         /\ ToMeasure \in 1..count
         /\ IF refined THEN count = Kept /\ ToMeasure = Sorting
            ELSE count = Len(found) /\ ToMeasure >= Kept
         /\ \A s \in 1..count : expanded_log[s] \in Vectors
         /\ i \in 0..ToMeasure
<1>1. TypeOK /\ InputInv /\ MeasureInv
  BY DEF IInv
<1>2. /\ {ExactTopK, PartialTopN, MaxExpanded} \subseteq Nat \ {0}
      /\ Len(found) \in 1..MaxExpanded
      /\ \A s \in 1..Len(found) : found[s] \in Vectors
      /\ Kept = IF Len(found) <= PartialTopN THEN Len(found) ELSE PartialTopN
      /\ Kept \in 1..Len(found)
      /\ Sorting = IF refined /\ ExactTopK < Kept THEN ExactTopK ELSE Kept
  BY <1>1, Numbers
<1>3. count \in Nat /\ i \in Nat
  BY <1>1, <1>2 DEF TypeOK
<1>4. /\ Min({count, ExactTopK})
           = IF count <= ExactTopK THEN count ELSE ExactTopK
      /\ Min({count, PartialTopN})
           = IF count <= PartialTopN THEN count ELSE PartialTopN
  BY <1>2, <1>3, MinOfTwo
<1>5. CASE refined
  <2>1. count = Kept /\ Entries(expanded_log, 1..count) = Candidates
        /\ i <= ToMeasure
    BY <1>1, <1>5 DEF MeasureInv
  <2>2. ToMeasure = Sorting
    <3>1. ToMeasure = Min({count, ExactTopK})
      BY <1>5 DEF ToMeasure
    <3> QED
      BY <1>2, <1>4, <1>5, <2>1, <3>1
  <2>3. \A s \in 1..count : expanded_log[s] \in Vectors
    BY <1>1, <2>1, CandidatesAreKept DEF Entries
  <2>4. Kept \in 1..MaxExpanded /\ Sorting \in 1..Kept
    BY <1>1, <1>2, Numbers
  <2> QED
    BY <1>3, <1>5, <2>1, <2>2, <2>3, <2>4
<1>6. CASE ~refined
  <2>1. count = Len(found) /\ \A s \in 1..count : expanded_log[s] = found[s]
        /\ i <= ToMeasure
    BY <1>1, <1>6 DEF MeasureInv
  <2>2. ToMeasure = IF mode = "longpq" THEN count ELSE Min({count, PartialTopN})
    BY <1>6 DEF ToMeasure
  <2>3. ToMeasure \in 1..count /\ ToMeasure >= Kept
    BY <1>2, <1>4, <2>1, <2>2
  <2> QED
    BY <1>2, <1>3, <1>6, <2>1, <2>3
<1> QED
  BY <1>5, <1>6

\* The log that is measured does not change on the way.
LEMMA LogStays ==
  ASSUME MeasureInv, pc \in {"measure", "mac"},
         UNCHANGED <<found, long_pq, expanded_log, count, refined>>,
         i' <= ToMeasure', Fits(1..i)'
  PROVE  MeasureInv'
<1>1. Kept' = Kept /\ Candidates' = Candidates
  BY DEF Kept, Candidates
<1>2. CASE refined
  BY <1>1, <1>2 DEF MeasureInv, Distinct, Entries
<1>3. CASE ~refined
  BY <1>1, <1>3 DEF MeasureInv
<1> QED
  BY <1>2, <1>3

-----------------------------------------------------------------------------
\* Nothing is measured, and nothing said of what the arrays hold.
LEMMA InitEstablishes == Init => IInv
<1> SUFFICES ASSUME Init PROVE IInv
  OBVIOUS
<1>1. MaxFailures \in Nat /\ MaxExpanded \in Nat \ {0}
  BY MaxFailuresAssumption, SizesAssumption
<1>2. TypeOK
  <2>1. /\ 0 \in 0..MaxExpanded /\ 0 \in -1..MaxExpanded
        /\ 0 \in 0..MaxFailures
    BY <1>1
  <2>2. /\ expanded_log \in [Slots -> Vectors \union {Null}]
        /\ dists \in [Slots -> Nat]
        /\ batch \in [1..Batch -> Vectors \union {Null}]
        /\ ids \in [1..TopK -> Vectors \union {Null}]
        /\ distances \in [1..TopK -> Nat]
        /\ key \in [id : Vectors \union {Null}, dist : Nat]
    BY DEF Init, NoKey
  <2> QED
    BY <2>1, <2>2 DEF Init, TypeOK
<1>3. InputInv
  BY DEF Init, InputInv
<1> QED
  BY <1>2, <1>3
  DEF Init, IInv, MeasureInv, BatchInv, SortInv, SortedInv, AnswerInv

\* The log is what the search left in it.
LEMMA SearchStep ==
  ASSUME IInv, Search
  PROVE  IInv'
<1> USE DEF Search, input
<1>1. TypeOK /\ InputInv
  BY DEF IInv
<1>2. /\ Len(found) \in 1..MaxExpanded /\ MaxExpanded \in Nat
      /\ TopK \in Nat
      /\ \A s \in 1..Len(found) : found[s] \in Vectors
  BY <1>1, Numbers
<1>3. \A s \in 1..Len(found) : expanded_log'[s] = found[s]
  BY <1>2 DEF Slots
<1>4. TypeOK'
  <2>1. expanded_log' \in [Slots -> Vectors \union {Null}]
    BY <1>1, <1>2 DEF TypeOK, Slots
  <2>2. /\ ids' \in [1..TopK -> Vectors \union {Null}]
        /\ distances' \in [1..TopK -> Nat]
    OBVIOUS
  <2>3. count' \in 0..MaxExpanded /\ i' \in 0..MaxExpanded
    BY <1>2
  <2> QED
    BY <1>1, <2>1, <2>2, <2>3 DEF TypeOK
<1>5. InputInv'
  BY <1>1 DEF InputInv
<1>6. MeasureInv'
  <2>1. /\ count' = Len(found')
        /\ \A s \in 1..count' : expanded_log'[s] = found'[s]
    BY <1>3
  <2>2. ToMeasure' \in Nat
    <3>1. count' \in Nat /\ PartialTopN \in Nat
      BY <1>1, <1>2, Numbers
    <3>2. Min({count', PartialTopN}) \in Nat
      BY <3>1, MinOfTwo
    <3> QED
      BY <3>1, <3>2 DEF ToMeasure
  <2> QED
    BY <2>1, <2>2 DEF MeasureInv, Fits
<1>7. AnswerInv'
  BY DEF AnswerInv
<1> QED
  BY <1>4, <1>5, <1>6, <1>7 DEF IInv, BatchInv, SortInv, SortedInv

\* One entry more has its distance.
LEMMA MeasureOneStep ==
  ASSUME IInv, MeasureOne
  PROVE  IInv'
<1> USE DEF MeasureOne, input, result
<1>1. TypeOK /\ InputInv /\ MeasureInv
  BY DEF IInv
<1>2. /\ count \in 1..MaxExpanded /\ ToMeasure \in 1..count
      /\ \A s \in 1..count : expanded_log[s] \in Vectors
      /\ i \in 0..ToMeasure
  BY MeasureNumbers
<1>3. /\ i + 1 \in 1..ToMeasure /\ i + 1 \in 1..count /\ i + 1 \in Slots
      /\ MaxExpanded \in Nat
  BY <1>1, <1>2, Numbers DEF Slots
<1>4. Measure(expanded_log[i + 1]) \in Nat
  BY <1>1, <1>2, <1>3, Numbers
<1>5. /\ dists' \in [Slots -> Nat]
      /\ dists'[i + 1] = Measure(expanded_log[i + 1])
      /\ \A s \in 1..i : dists'[s] = dists[s]
  BY <1>1, <1>2, <1>3, <1>4 DEF TypeOK, Slots
<1>6. TypeOK'
  BY <1>1, <1>2, <1>3, <1>5 DEF TypeOK
<1>7. InputInv'
  BY <1>1 DEF InputInv
<1>8. MeasureInv'
  <2>1. ToMeasure' = ToMeasure
    BY DEF ToMeasure
  <2>2. i' <= ToMeasure'
    BY <1>2, <1>3, <2>1
  <2>3. Fits(1..i)
    BY <1>1 DEF MeasureInv
  <2>4. ASSUME NEW s \in 1..i' PROVE dists'[s] = Measure(expanded_log[s])
    <3>1. s = i + 1 \/ s \in 1..i
      BY <1>2, <1>3
    <3> QED
      BY <1>5, <2>3, <3>1 DEF Fits
  <2>5. Fits(1..i)'
    BY <2>4 DEF Fits, Measure
  <2>6. /\ pc = "measure"
        /\ UNCHANGED <<long_pq, found, expanded_log, count, refined>>
    OBVIOUS
  <2> QED
    BY <1>1, <2>2, <2>5, <2>6, LogStays
<1>9. AnswerInv'
  BY DEF IInv, AnswerInv
<1> QED
  BY <1>6, <1>7, <1>8, <1>9 DEF IInv, BatchInv, SortInv, SortedInv

\* How many entries a batch takes.
LEMMA BatchNumbers ==
  ASSUME IInv, pc \in {"measure", "mac"}, i < ToMeasure
  PROVE  /\ InBatch \in 1..Batch /\ i + InBatch \in (i + 1)..ToMeasure
         /\ \A b \in 1..Batch : i + b <= ToMeasure <=> b <= InBatch
<1>1. /\ count \in 1..MaxExpanded /\ ToMeasure \in 1..count
      /\ i \in 0..ToMeasure
  BY MeasureNumbers
<1>2. Batch \in Nat \ {0} /\ MaxExpanded \in Nat
  BY Numbers DEF IInv
<1>3. ToMeasure \in Nat /\ i \in Nat /\ ToMeasure - i \in Nat \ {0}
  BY <1>1, <1>2
<1>4. InBatch = IF Batch <= ToMeasure - i THEN Batch ELSE ToMeasure - i
  BY <1>2, <1>3, MinOfTwo DEF InBatch
<1> QED
  BY <1>2, <1>3, <1>4

\* The batch is filled, in RAM.
LEMMA ReadBatchStep ==
  ASSUME IInv, ReadBatch
  PROVE  IInv'
<1> USE DEF ReadBatch, input, log, result
<1>1. TypeOK /\ InputInv /\ MeasureInv
  BY DEF IInv
<1>2. /\ count \in 1..MaxExpanded /\ ToMeasure \in 1..count
      /\ \A s \in 1..count : expanded_log[s] \in Vectors
      /\ i \in 0..ToMeasure
  BY MeasureNumbers
<1>3. /\ InBatch \in 1..Batch
      /\ \A b \in 1..Batch : i + b <= ToMeasure <=> b <= InBatch
  BY BatchNumbers
<1>4. Batch \in Nat /\ MaxExpanded \in Nat
  BY <1>1, Numbers
<1>5. \A b \in 1..Batch : i + b <= ToMeasure => i + b \in 1..count
  BY <1>2, <1>4
<1>6. batch' \in [1..Batch -> Vectors \union {Null}]
  BY <1>1, <1>2, <1>5 DEF TypeOK
<1>7. TypeOK'
  BY <1>1, <1>6 DEF TypeOK
<1>8. InputInv' /\ AnswerInv'
  BY <1>1 DEF IInv, InputInv, AnswerInv
<1>9. UNCHANGED <<mode, exact, long_pq, found, expanded_log, count, refined,
                  dists, i>>
  OBVIOUS
<1>10. MeasureInv'
  <2>1. i' <= ToMeasure'
    BY <1>2, <1>9 DEF ToMeasure
  <2>2. Fits(1..i)'
    BY <1>1, <1>9 DEF MeasureInv, Fits, Measure
  <2> QED
    BY <1>1, <1>9, <2>1, <2>2, LogStays
<1>11. BatchInv'
  <2>1. ToMeasure' = ToMeasure /\ InBatch' = InBatch
    BY <1>9 DEF ToMeasure, InBatch
  <2>2. \A b \in 1..InBatch : batch'[b] = expanded_log[i + b]
    BY <1>3, <1>4
  <2> QED
    BY <1>9, <2>1, <2>2 DEF BatchInv
<1> QED
  BY <1>7, <1>8, <1>10, <1>11 DEF IInv, SortInv, SortedInv

\* Each vector of the batch gives the distance of its entry.
LEMMA MacBatchStep ==
  ASSUME IInv, MacBatch
  PROVE  IInv'
<1> USE DEF MacBatch, input, result
<1>1. TypeOK /\ InputInv /\ MeasureInv /\ BatchInv
  BY DEF IInv
<1>2. /\ count \in 1..MaxExpanded /\ ToMeasure \in 1..count
      /\ \A s \in 1..count : expanded_log[s] \in Vectors
      /\ i \in 0..ToMeasure
  BY MeasureNumbers
<1>3. /\ i < ToMeasure
      /\ \A b \in 1..InBatch : batch[b] = expanded_log[i + b]
  BY <1>1 DEF BatchInv
<1>4. InBatch \in 1..Batch /\ i + InBatch \in (i + 1)..ToMeasure
  BY <1>3, BatchNumbers
<1>5. Batch \in Nat /\ MaxExpanded \in Nat
  BY <1>1, Numbers
<1>6. /\ i' = i + InBatch /\ i' \in (i + 1)..ToMeasure
      /\ i' \in 0..MaxExpanded
  BY <1>2, <1>4, <1>5
<1>7. ASSUME NEW s \in (i + 1)..i'
      PROVE  /\ s \in 1..count
             /\ Measure(batch[s - i]) = Measure(expanded_log[s])
             /\ Measure(batch[s - i]) \in Nat
  <2>1. s \in 1..count /\ s - i \in 1..InBatch /\ i + (s - i) = s
    BY <1>2, <1>4, <1>5, <1>6
  <2>2. batch[s - i] = expanded_log[s]
    BY <1>3, <2>1
  <2> QED
    BY <1>1, <1>2, <2>1, <2>2, Numbers
<1>8. /\ dists' \in [Slots -> Nat]
      /\ \A s \in (i + 1)..i' : dists'[s] = Measure(expanded_log[s])
      /\ \A s \in 1..i : dists'[s] = dists[s]
  <2>1. \A s \in (i + 1)..i' : s \in Slots
    BY <1>2, <1>5, <1>7 DEF Slots
  <2>2. \A s \in 1..i : s \in Slots /\ s \notin (i + 1)..i'
    BY <1>2, <1>5 DEF Slots
  <2> QED
    BY <1>1, <1>6, <1>7, <2>1, <2>2 DEF TypeOK
<1>9. TypeOK'
  <2>1. batch' \in [1..Batch -> Vectors \union {Null}]
    BY <1>1 DEF TypeOK
  <2> QED
    BY <1>1, <1>6, <1>8, <2>1 DEF TypeOK
<1>10. InputInv' /\ AnswerInv'
  BY <1>1 DEF IInv, InputInv, AnswerInv
<1>11. MeasureInv'
  <2>1. ToMeasure' = ToMeasure
    BY DEF ToMeasure
  <2>2. i' <= ToMeasure'
    BY <1>2, <1>6, <2>1
  <2>3. Fits(1..i)
    BY <1>1 DEF MeasureInv
  <2>4. ASSUME NEW s \in 1..i' PROVE dists'[s] = Measure(expanded_log[s])
    <3>1. s \in (i + 1)..i' \/ s \in 1..i
      BY <1>2, <1>6
    <3> QED
      BY <1>8, <2>3, <3>1 DEF Fits
  <2>5. Fits(1..i)'
    BY <2>4 DEF Fits, Measure
  <2>6. /\ pc = "mac"
        /\ UNCHANGED <<long_pq, found, expanded_log, count, refined>>
    OBVIOUS
  <2> QED
    BY <1>1, <2>2, <2>5, <2>6, LogStays
<1> QED
  BY <1>9, <1>10, <1>11 DEF IInv, BatchInv, SortInv, SortedInv

-----------------------------------------------------------------------------
\* Behind n entries in order the sort takes the next key, or is over.
LEMMA NextKey ==
  ASSUME NEW n \in Nat, n \in 1..count', count' \in Nat, count' = Sorting',
         Distinct(expanded_log', 1..count'),
         Chosen(Entries(expanded_log, 1..count))',
         Fits(1..count)', Ascending(1..n)',
         \/ /\ n < count' /\ pc' = "sort" /\ i' = n /\ j' = n - 1
            /\ key' = [id |-> expanded_log'[n + 1], dist |-> dists'[n + 1]]
         \/ n = count' /\ pc' = "sorted"
  PROVE  SortInv' /\ SortedInv'
<1>1. CASE n < count' /\ pc' = "sort"
  <2>1. /\ i' = n /\ j' = n - 1 /\ Gap' = n + 1
        /\ key'.id = expanded_log'[n + 1] /\ key'.dist = dists'[n + 1]
    BY <1>1 DEF Gap
  <2>2. n + 1 \in 1..count'
    BY <1>1
  <2>3. /\ Distinct(expanded_log', (1..count') \ {n + 1})
        /\ expanded_log'[n + 1]
             \notin Entries(expanded_log', (1..count') \ {n + 1})
        /\ Entries(expanded_log', (1..count') \ {n + 1})
             \union {expanded_log'[n + 1]} = Entries(expanded_log', 1..count')
    BY <2>2, TakenOut
  <2>4. /\ Fits((1..count) \ {n + 1})'
        /\ dists'[n + 1] = Measure(expanded_log[n + 1])'
    BY <2>2 DEF Fits
  <2>5. (1..(i' + 1)) \ {n + 1} = 1..n
    BY <2>1
  <2>6. Ascending((1..(i + 1)) \ {Gap})'
    BY <2>1, <2>5 DEF Ascending
  <2>7. (Gap' + 1)..(i' + 1) = {}
    BY <2>1
  <2>8. i' \in 1..(count' - 1) /\ j' \in -1..(i' - 1)
    <3>1. \A c \in Nat : n \in 1..c /\ n < c => n \in 1..(c - 1)
      OBVIOUS
    <3>2. n - 1 \in -1..(n - 1)
      OBVIOUS
    <3> QED
      BY <1>1, <2>1, <3>1, <3>2
  <2>9. Chosen(Entries(expanded_log, (1..count) \ {Gap}) \union {key.id})'
    BY <2>1, <2>3
  <2>10. Distinct(expanded_log, (1..count) \ {Gap})'
    BY <2>1, <2>3 DEF Distinct
  <2>11. (key.id \notin Entries(expanded_log, (1..count) \ {Gap}))'
    BY <2>1, <2>3
  <2>12. (Fits((1..count) \ {Gap}) /\ key.dist = Measure(key.id))'
    BY <2>1, <2>4 DEF Fits, Measure
  <2> QED
    BY <1>1, <2>6, <2>7, <2>8, <2>9, <2>10, <2>11, <2>12 DEF SortInv, SortedInv
<1>2. CASE n = count' /\ pc' = "sorted"
  BY <1>2 DEF SortInv, SortedInv, Ascending
<1> QED
  BY <1>1, <1>2

\* The first sort is about the candidates, the second about the nearest of
\* them by their codes.
LEMMA SortBegins ==
  ASSUME IInv, Measured
  PROVE  /\ count' = Sorting /\ count' \in 1..count
         /\ Distinct(expanded_log, 1..count')
         /\ Chosen(Entries(expanded_log, 1..count'))
         /\ Fits(1..count')
<1>1. TypeOK /\ InputInv /\ MeasureInv /\ pc = "measure" /\ i >= ToMeasure
  BY DEF IInv, Measured
<1>2. /\ count \in 1..MaxExpanded /\ ToMeasure \in 1..count
      /\ IF refined THEN count = Kept /\ ToMeasure = Sorting
         ELSE count = Len(found) /\ ToMeasure >= Kept
      /\ i \in 0..ToMeasure /\ MaxExpanded \in Nat
  BY <1>1, MeasureNumbers, Numbers
<1>3. i = ToMeasure /\ Fits(1..ToMeasure)
  BY <1>1, <1>2 DEF MeasureInv
<1>4. /\ Kept = IF Len(found) <= PartialTopN THEN Len(found) ELSE PartialTopN
      /\ Kept \in 1..Len(found) /\ PartialTopN \in Nat
      /\ Sorting = IF refined /\ ExactTopK < Kept THEN ExactTopK ELSE Kept
      /\ Sorting \in 1..Kept
      /\ long_pq \in [Vectors -> Nat]
  BY <1>1, Numbers
<1>5. CASE refined
  <2>1. count' = Sorting /\ count' \in 1..count
    BY <1>2, <1>4, <1>5 DEF Measured
  <2>2. /\ Distinct(expanded_log, 1..count)
        /\ Entries(expanded_log, 1..count) = Candidates
        /\ \A s, t \in 1..count :
             s < t => long_pq[expanded_log[s]] <= long_pq[expanded_log[t]]
    BY <1>1, <1>5 DEF MeasureInv
  <2>3. 1..count' \subseteq 1..count
    BY <1>2, <2>1
  <2>4. Distinct(expanded_log, 1..count')
    BY <2>2, <2>3 DEF Distinct
  <2>5. Entries(expanded_log, 1..count') \subseteq Candidates
    BY <2>2, <2>3 DEF Entries
  <2>6. ASSUME NEW v \in Candidates \ Entries(expanded_log, 1..count'),
               NEW w \in Entries(expanded_log, 1..count')
        PROVE  long_pq[w] <= long_pq[v]
    <3>1. PICK t \in 1..count : v = expanded_log[t]
      BY <2>2 DEF Entries
    <3>2. PICK s \in 1..count' : w = expanded_log[s]
      BY DEF Entries
    <3>3. t \notin 1..count'
      BY <3>1 DEF Entries
    <3>4. s < t /\ s \in 1..count
      BY <1>2, <2>1, <3>1, <3>2, <3>3
    <3> QED
      BY <2>2, <3>1, <3>2, <3>4
  <2>7. Chosen(Entries(expanded_log, 1..count'))
    BY <1>5, <2>5, <2>6 DEF Chosen
  <2>8. Fits(1..count')
    BY <1>2, <1>3, <1>5, <2>1
  <2> QED
    BY <2>1, <2>4, <2>7, <2>8
<1>6. CASE ~refined
  <2>1. count = Len(found) /\ \A s \in 1..count : expanded_log[s] = found[s]
    BY <1>1, <1>6 DEF MeasureInv
  <2>2. Min({count, PartialTopN}) = Kept
    BY <2>1 DEF Kept
  <2>3. count' = Sorting /\ count' = Kept /\ count' \in 1..count
    BY <1>4, <1>6, <2>1, <2>2 DEF Measured
  <2>4. \A s \in 1..count' : expanded_log[s] = found[s]
    BY <1>2, <2>1, <2>3
  <2>5. Entries(expanded_log, 1..count') = Candidates
    BY <1>1, <2>3, <2>4, CandidatesAreKept DEF Entries
  <2>6. Distinct(expanded_log, 1..count')
    BY <1>1, <2>3, <2>4, CandidatesAreKept DEF Distinct
  <2>7. Chosen(Entries(expanded_log, 1..count'))
    BY <2>5 DEF Chosen
  <2>8. 1..count' \subseteq 1..ToMeasure
    BY <1>2, <1>6, <2>3
  <2>9. Fits(1..count')
    BY <1>3, <2>8 DEF Fits
  <2> QED
    BY <2>3, <2>6, <2>7, <2>9
<1> QED
  BY <1>5, <1>6

\* With that, sorting begins, or there is nothing to sort.
LEMMA MeasuredStep ==
  ASSUME IInv, Measured
  PROVE  IInv'
<1> USE DEF Measured, input, result, TakeKey
<1>1. TypeOK /\ InputInv
  BY DEF IInv
<1>2. /\ count \in 1..MaxExpanded /\ MaxExpanded \in Nat
      /\ \A s \in 1..count : expanded_log[s] \in Vectors
  BY <1>1, MeasureNumbers, Numbers
<1>3. /\ count' = Sorting /\ count' \in 1..count
      /\ Distinct(expanded_log, 1..count')
      /\ Chosen(Entries(expanded_log, 1..count'))
      /\ Fits(1..count')
  BY SortBegins
<1>4. UNCHANGED <<mode, exact, long_pq, found, expanded_log, dists, batch,
                  refined, ids, distances, failures>>
  OBVIOUS
<1>5. /\ Sorting' = Sorting /\ Candidates' = Candidates
      /\ \A v : Measure(v)' = Measure(v)
      /\ refined' <=> refined
  BY <1>4 DEF Sorting, Kept, Candidates, Measure
<1>6. \/ /\ 1 < count' /\ pc' = "sort" /\ i' = 1 /\ j' = 0
         /\ key' = [id |-> expanded_log[2], dist |-> dists[2]]
      \/ 1 = count' /\ pc' = "sorted" /\ UNCHANGED <<i, j, key>>
  BY <1>2, <1>3
<1>7. SortInv' /\ SortedInv'
  <2>1. Distinct(expanded_log', 1..count')
    BY <1>3, <1>4
  <2>2. Chosen(Entries(expanded_log, 1..count))'
    BY <1>3, <1>4, <1>5 DEF Chosen
  <2>3. Fits(1..count)'
    BY <1>3, <1>4, <1>5 DEF Fits
  <2>4. Ascending(1..1)'
    BY DEF Ascending
  <2>5. 1 \in 1..count' /\ count' \in Nat
    BY <1>2, <1>3
  <2> QED
    BY <1>3, <1>4, <1>5, <1>6, <2>1, <2>2, <2>3, <2>4, <2>5, NextKey
<1>8. TypeOK'
  <2>1. count' \in 0..MaxExpanded
    BY <1>2, <1>3
  <2>2. CASE 1 < count' /\ pc' = "sort"
    <3>1. 2 \in 1..count /\ 2 \in Slots /\ 1 \in 0..MaxExpanded
          /\ 0 \in -1..MaxExpanded
      BY <1>2, <1>3, <2>2 DEF Slots
    <3>2. expanded_log[2] \in Vectors /\ expanded_log[2] # Null
      BY <1>2, <3>1, VectorsAssumption
    <3>3. dists[2] \in Nat
      BY <1>1, <3>1 DEF TypeOK
    <3> QED
      BY <1>1, <1>4, <1>6, <2>1, <2>2, <3>1, <3>2, <3>3 DEF TypeOK
  <2>3. CASE 1 = count' /\ pc' = "sorted" /\ UNCHANGED <<i, j, key>>
    BY <1>1, <1>4, <2>1, <2>3 DEF TypeOK
  <2> QED
    BY <1>6, <2>2, <2>3
<1>9. InputInv' /\ AnswerInv'
  BY <1>1, <1>4, <1>6 DEF IInv, InputInv, AnswerInv
<1> QED
  BY <1>6, <1>7, <1>8, <1>9 DEF IInv, MeasureInv, BatchInv

\* The sort, spelled out.
LEMMA SortNumbers ==
  ASSUME IInv, pc = "sort"
  PROVE  /\ count \in 1..MaxExpanded /\ count = Sorting /\ MaxExpanded \in Nat
         /\ i \in 1..(count - 1) /\ j \in -1..(i - 1)
         /\ Gap \in 1..(i + 1) /\ Gap \in 1..count /\ Gap \in Slots
         /\ key.id \in Vectors /\ key.dist \in Nat
         /\ \A s \in (1..count) \ {Gap} :
              expanded_log[s] \in Vectors /\ s \in Slots /\ dists[s] \in Nat
<1>1. TypeOK /\ InputInv /\ SortInv
  BY DEF IInv
<1>2. /\ count = Sorting /\ i \in 1..(count - 1) /\ j \in -1..(i - 1)
      /\ Chosen(Entries(expanded_log, (1..count) \ {Gap}) \union {key.id})
  BY <1>1 DEF SortInv
<1>3. count \in 0..MaxExpanded /\ MaxExpanded \in Nat
  BY <1>1, Numbers DEF TypeOK
<1>4. count \in 1..MaxExpanded /\ Gap \in 1..(i + 1) /\ Gap \in 1..count
  BY <1>2, <1>3 DEF Gap
<1>5. 1..count \subseteq Slots
  BY <1>3 DEF Slots
<1>6. Candidates \subseteq Vectors
  BY <1>1, CandidatesAreKept
<1>7. \A s \in (1..count) \ {Gap} : expanded_log[s] \in Vectors
  BY <1>2, <1>6 DEF Chosen, Entries
<1>8. key.id \in Vectors
  BY <1>2, <1>6 DEF Chosen
<1>9. key.dist \in Nat /\ \A s \in Slots : dists[s] \in Nat
  BY <1>1 DEF TypeOK
<1> QED
  BY <1>2, <1>3, <1>4, <1>5, <1>7, <1>8, <1>9

\* The entry in front of the gap moves into it.
LEMMA ShiftStep ==
  ASSUME IInv, Shift
  PROVE  IInv'
<1> USE DEF Shift, input, result
<1>1. TypeOK /\ InputInv /\ SortInv
  BY DEF IInv
<1>2. /\ count \in 1..MaxExpanded /\ count = Sorting /\ MaxExpanded \in Nat
      /\ i \in 1..(count - 1) /\ j \in -1..(i - 1)
      /\ Gap \in 1..(i + 1) /\ Gap \in 1..count /\ Gap \in Slots
      /\ key.id \in Vectors /\ key.dist \in Nat
      /\ \A s \in (1..count) \ {Gap} :
           expanded_log[s] \in Vectors /\ s \in Slots /\ dists[s] \in Nat
  BY SortNumbers
<1> DEFINE h == j + 1
<1>3. j >= 0 /\ dists[h] > key.dist
  BY DEF MustShift
<1>4. /\ h \in (1..count) \ {Gap} /\ h \in (1..(i + 1)) \ {Gap} /\ h \in Slots
      /\ Gap = h + 1 /\ Gap' = h /\ j' = j - 1
  BY <1>2, <1>3 DEF Gap
<1>5. /\ expanded_log' = [expanded_log EXCEPT ![Gap] = expanded_log[h]]
      /\ dists' = [dists EXCEPT ![Gap] = dists[h]]
  BY DEF Gap
<1> HIDE DEF h
<1>6. /\ expanded_log' \in [Slots -> Vectors \union {Null}]
      /\ expanded_log'[Gap] = expanded_log[h]
      /\ \A s \in (1..count) \ {Gap} : expanded_log'[s] = expanded_log[s]
  BY <1>1, <1>2, <1>4, <1>5 DEF TypeOK
<1>7. /\ dists' \in [Slots -> Nat]
      /\ dists'[Gap] = dists[h]
      /\ \A s \in (1..count) \ {Gap} : dists'[s] = dists[s]
  BY <1>1, <1>2, <1>4, <1>5 DEF TypeOK
<1>8. UNCHANGED <<pc, mode, exact, long_pq, found, count, batch, i, key,
                  refined, ids, distances, failures>>
  OBVIOUS
<1>9. /\ Sorting' = Sorting /\ Candidates' = Candidates
      /\ \A v : Measure(v)' = Measure(v)
      /\ refined' <=> refined
  BY <1>8 DEF Sorting, Kept, Candidates, Measure
<1>10. /\ Distinct(expanded_log, (1..count) \ {Gap})
       /\ key.id \notin Entries(expanded_log, (1..count) \ {Gap})
       /\ Chosen(Entries(expanded_log, (1..count) \ {Gap}) \union {key.id})
       /\ Fits((1..count) \ {Gap}) /\ key.dist = Measure(key.id)
       /\ Ascending((1..(i + 1)) \ {Gap})
       /\ \A s \in (Gap + 1)..(i + 1) : key.dist < dists[s]
  BY <1>1 DEF SortInv
<1>11. /\ Distinct(expanded_log', (1..count) \ {h})
       /\ Entries(expanded_log', (1..count) \ {h})
            = Entries(expanded_log, (1..count) \ {Gap})
  <2> DEFINE S == 1..count
             new == expanded_log'
             g == Gap
  <2>1. /\ g \in S /\ h \in S \ {g}
        /\ new[g] = expanded_log[h]
        /\ \A s \in S \ {g} : new[s] = expanded_log[s]
        /\ Distinct(expanded_log, S \ {g})
    BY <1>2, <1>4, <1>6, <1>10
  <2> HIDE DEF S, new, g
  <2>2. /\ Distinct(new, S \ {h})
        /\ Entries(new, S \ {h}) = Entries(expanded_log, S \ {g})
    BY ONLY <2>1, MovedUp
  <2> QED
    BY <2>2 DEF S, new, g
<1>12. SortInv'
  <2>1. (Distinct(expanded_log, (1..count) \ {Gap}))'
    BY <1>4, <1>8, <1>11 DEF Distinct
  <2>2. (key.id \notin Entries(expanded_log, (1..count) \ {Gap}))'
    BY <1>4, <1>8, <1>10, <1>11
  <2>3. Chosen(Entries(expanded_log, (1..count) \ {Gap}) \union {key.id})'
    BY <1>4, <1>8, <1>9, <1>10, <1>11 DEF Chosen
  <2>4. ASSUME NEW s \in (1..count) \ {h}
        PROVE  dists'[s] = Measure(expanded_log'[s])
    <3>1. CASE s = Gap
      BY <1>4, <1>6, <1>7, <1>10, <3>1 DEF Fits
    <3>2. CASE s # Gap
      BY <1>6, <1>7, <1>10, <3>2 DEF Fits
    <3> QED
      BY <3>1, <3>2
  <2>5. Fits((1..count) \ {Gap})'
    BY <1>4, <1>8, <1>9, <2>4 DEF Fits
  <2>6. key'.dist = Measure(key.id)'
    BY <1>8, <1>9, <1>10
  <2>7. 1..(i + 1) \subseteq 1..count
    BY <1>2
  <2>8. ASSUME NEW s \in (1..(i + 1)) \ {h}, NEW t \in (1..(i + 1)) \ {h}, s < t
        PROVE  dists'[s] <= dists'[t]
    <3>1. CASE s = Gap
      <4>1. t # Gap /\ h < t
        BY <1>2, <1>4, <2>8, <3>1
      <4> QED
        BY <1>4, <1>7, <1>10, <2>7, <3>1, <4>1 DEF Ascending
    <3>2. CASE s # Gap /\ t = Gap
      <4>1. s < h
        BY <1>2, <1>4, <2>8, <3>2
      <4> QED
        BY <1>4, <1>7, <1>10, <2>7, <3>2, <4>1 DEF Ascending
    <3>3. CASE s # Gap /\ t # Gap
      BY <1>7, <1>10, <2>7, <2>8, <3>3 DEF Ascending
    <3> QED
      BY <3>1, <3>2, <3>3
  <2>9. Ascending((1..(i + 1)) \ {Gap})'
    BY <1>4, <1>8, <2>8 DEF Ascending
  <2>10. ASSUME NEW s \in (h + 1)..(i + 1) PROVE key.dist < dists'[s]
    <3>1. CASE s = Gap
      BY <1>3, <1>7, <3>1 DEF h
    <3>2. CASE s # Gap
      <4>1. s \in (Gap + 1)..(i + 1) /\ s \in (1..count) \ {Gap}
        BY <1>2, <1>4, <3>2
      <4> QED
        BY <1>7, <1>10, <4>1
    <3> QED
      BY <3>1, <3>2
  <2>11. \A s \in (Gap' + 1)..(i' + 1) : key'.dist < dists'[s]
    BY <1>4, <1>8, <2>10
  <2>12. j' \in -1..(i' - 1)
    BY <1>2, <1>3, <1>4, <1>8
  <2> QED
    BY <1>2, <1>8, <1>9, <2>1, <2>2, <2>3, <2>5, <2>6, <2>9, <2>11, <2>12
    DEF SortInv
<1>13. TypeOK'
  <2>1. j' \in -1..MaxExpanded
    BY <1>2, <1>3, <1>4
  <2> QED
    BY <1>1, <1>6, <1>7, <1>8, <2>1 DEF TypeOK
<1>14. InputInv' /\ AnswerInv'
  BY <1>1, <1>8 DEF IInv, InputInv, AnswerInv
<1> QED
  BY <1>8, <1>12, <1>13, <1>14 DEF IInv, MeasureInv, BatchInv, SortedInv

\* The key closes the gap, at its place in the order.
LEMMA PlaceStep ==
  ASSUME IInv, Place
  PROVE  IInv'
<1> USE DEF Place, input, result, TakeKey
<1>1. TypeOK /\ InputInv /\ SortInv
  BY DEF IInv
<1>2. /\ count \in 1..MaxExpanded /\ count = Sorting /\ MaxExpanded \in Nat
      /\ i \in 1..(count - 1) /\ j \in -1..(i - 1)
      /\ Gap \in 1..(i + 1) /\ Gap \in 1..count /\ Gap \in Slots
      /\ key.id \in Vectors /\ key.dist \in Nat
      /\ \A s \in (1..count) \ {Gap} :
           expanded_log[s] \in Vectors /\ s \in Slots /\ dists[s] \in Nat
  BY SortNumbers
<1>3. /\ expanded_log' = [expanded_log EXCEPT ![Gap] = key.id]
      /\ dists' = [dists EXCEPT ![Gap] = key.dist]
  BY DEF Gap
<1>4. /\ expanded_log' \in [Slots -> Vectors \union {Null}]
      /\ expanded_log'[Gap] = key.id
      /\ \A s \in (1..count) \ {Gap} : expanded_log'[s] = expanded_log[s]
  BY <1>1, <1>2, <1>3 DEF TypeOK
<1>5. /\ dists' \in [Slots -> Nat]
      /\ dists'[Gap] = key.dist
      /\ \A s \in (1..count) \ {Gap} : dists'[s] = dists[s]
  BY <1>1, <1>2, <1>3 DEF TypeOK
<1>6. UNCHANGED <<mode, exact, long_pq, found, count, batch, refined, ids,
                  distances, failures>>
  OBVIOUS
<1>7. /\ Sorting' = Sorting /\ Candidates' = Candidates
      /\ \A v : Measure(v)' = Measure(v)
      /\ refined' <=> refined
  BY <1>6 DEF Sorting, Kept, Candidates, Measure
<1>8. /\ Distinct(expanded_log, (1..count) \ {Gap})
      /\ key.id \notin Entries(expanded_log, (1..count) \ {Gap})
      /\ Chosen(Entries(expanded_log, (1..count) \ {Gap}) \union {key.id})
      /\ Fits((1..count) \ {Gap}) /\ key.dist = Measure(key.id)
      /\ Ascending((1..(i + 1)) \ {Gap})
      /\ \A s \in (Gap + 1)..(i + 1) : key.dist < dists[s]
  BY <1>1 DEF SortInv
<1>9. /\ Distinct(expanded_log', 1..count)
      /\ Entries(expanded_log', 1..count)
           = Entries(expanded_log, (1..count) \ {Gap}) \union {key.id}
  <2> DEFINE S == 1..count
             new == expanded_log'
             g == Gap
             v == key.id
  <2>1. /\ g \in S /\ new[g] = v
        /\ \A s \in S \ {g} : new[s] = expanded_log[s]
        /\ Distinct(expanded_log, S \ {g})
        /\ v \notin Entries(expanded_log, S \ {g})
    BY <1>2, <1>4, <1>8
  <2> HIDE DEF S, new, g, v
  <2>2. /\ Distinct(new, S)
        /\ Entries(new, S) = Entries(expanded_log, S \ {g}) \union {v}
    BY ONLY <2>1, PutDown
  <2> QED
    BY <2>2 DEF S, new, g, v
<1>10. Chosen(Entries(expanded_log, 1..count))'
  BY <1>6, <1>7, <1>8, <1>9 DEF Chosen
<1>11. ASSUME NEW s \in 1..count PROVE dists'[s] = Measure(expanded_log'[s])
  <2>1. CASE s = Gap
    BY <1>4, <1>5, <1>8, <2>1
  <2>2. CASE s # Gap
    BY <1>4, <1>5, <1>8, <2>2 DEF Fits
  <2> QED
    BY <2>1, <2>2
<1>12. Fits(1..count)'
  BY <1>6, <1>7, <1>11 DEF Fits
<1>13. 1..(i + 1) \subseteq 1..count
  BY <1>2
<1>14. ASSUME NEW s \in 1..(i + 1), NEW t \in 1..(i + 1), s < t
       PROVE  dists'[s] <= dists'[t]
  <2>1. CASE s = Gap
    <3>1. t \in (Gap + 1)..(i + 1) /\ t \in (1..count) \ {Gap}
      BY <1>2, <1>13, <1>14, <2>1
    <3> QED
      BY <1>2, <1>5, <1>8, <2>1, <3>1
  <2>2. CASE t = Gap
    <3>1. /\ j >= 0 /\ j + 1 \in (1..(i + 1)) \ {Gap}
          /\ s \in (1..(i + 1)) \ {Gap}
          /\ s < j + 1 \/ s = j + 1
      BY <1>2, <1>14, <2>2 DEF Gap
    <3>2. ~(dists[j + 1] > key.dist)
      BY <3>1 DEF MustShift
    <3>3. dists[s] \in Nat /\ dists[j + 1] \in Nat
      BY <1>2, <1>13, <3>1
    <3>4. dists[s] <= dists[j + 1]
      <4>1. CASE s < j + 1
        BY <1>8, <3>1, <4>1 DEF Ascending
      <4>2. CASE s = j + 1
        BY <3>3, <4>2
      <4> QED
        BY <3>1, <4>1, <4>2
    <3>5. dists[s] <= key.dist
      BY <1>2, <3>2, <3>3, <3>4
    <3> QED
      BY <1>5, <1>13, <2>2, <3>1, <3>5
  <2>3. CASE s # Gap /\ t # Gap
    BY <1>5, <1>8, <1>13, <1>14, <2>3 DEF Ascending
  <2> QED
    BY <2>1, <2>2, <2>3
<1>15. PICK n \in Nat : n = i + 1
  BY <1>2
<1>16. Ascending(1..n)'
  BY <1>14, <1>15 DEF Ascending
<1>17. \/ /\ n < count' /\ pc' = "sort" /\ i' = n /\ j' = n - 1
          /\ key' = [id |-> expanded_log'[n + 1], dist |-> dists'[n + 1]]
       \/ n = count' /\ pc' = "sorted" /\ UNCHANGED <<i, j, key>>
  <2>1. CASE i + 1 < count
    <3>1. i + 1 + 1 \in (1..count) \ {Gap} /\ j' = i + 1 - 1
          /\ n + 1 = i + 1 + 1
      BY <1>2, <1>15, <2>1
    <3>2. /\ pc' = "sort" /\ i' = i + 1
          /\ key' = [id |-> expanded_log[i + 1 + 1], dist |-> dists[i + 1 + 1]]
      BY <2>1
    <3>3. /\ expanded_log'[i + 1 + 1] = expanded_log[i + 1 + 1]
          /\ dists'[i + 1 + 1] = dists[i + 1 + 1]
      BY <1>4, <1>5, <3>1
    <3> QED
      BY <1>6, <1>15, <2>1, <3>1, <3>2, <3>3
  <2>2. CASE ~(i + 1 < count)
    <3>1. n = count
      BY <1>2, <1>15, <2>2
    <3> QED
      BY <1>6, <2>2, <3>1
  <2> QED
    BY <2>1, <2>2
<1>18. SortInv' /\ SortedInv'
  <2>1. n \in 1..count' /\ count' \in Nat /\ count' = Sorting'
    BY <1>2, <1>6, <1>7, <1>15
  <2>2. Distinct(expanded_log', 1..count')
    BY <1>6, <1>9
  <2> QED
    BY <1>10, <1>12, <1>16, <1>17, <2>1, <2>2, NextKey
<1>19. TypeOK'
  <2>1. CASE n < count' /\ pc' = "sort"
    <3>1. n + 1 \in 1..count /\ n + 1 \in Slots
          /\ n \in 0..MaxExpanded /\ n - 1 \in -1..MaxExpanded
      BY <1>2, <1>6, <1>15, <2>1 DEF Slots
    <3>2. expanded_log'[n + 1] \in Vectors /\ dists'[n + 1] \in Nat
      BY <1>2, <1>4, <1>5, <3>1
    <3>3. /\ i' = n /\ j' = n - 1
          /\ key' = [id |-> expanded_log'[n + 1], dist |-> dists'[n + 1]]
      BY <1>17, <2>1
    <3>4. key'.id # Null /\ key' \in [id : Vectors \union {Null}, dist : Nat]
      BY <3>2, <3>3, VectorsAssumption
    <3> QED
      BY <1>1, <1>4, <1>5, <1>6, <2>1, <3>1, <3>3, <3>4 DEF TypeOK
  <2>2. CASE pc' = "sorted" /\ UNCHANGED <<i, j, key>>
    BY <1>1, <1>4, <1>5, <1>6, <2>2 DEF TypeOK
  <2> QED
    BY <1>17, <2>1, <2>2
<1>20. InputInv' /\ AnswerInv'
  BY <1>1, <1>6, <1>17 DEF IInv, InputInv, AnswerInv
<1> QED
  BY <1>17, <1>18, <1>19, <1>20 DEF IInv, MeasureInv, BatchInv

\* The candidates are in the order of their codes when they are measured anew.
LEMMA RefineStep ==
  ASSUME IInv, Refine
  PROVE  IInv'
<1> USE DEF Refine, input, log, result
<1>1. TypeOK /\ InputInv /\ SortedInv
  BY DEF IInv
<1>2. /\ pc = "sorted" /\ mode = "longpq" /\ ~refined
      /\ refined' /\ pc' = "measure" /\ i' = 0
      /\ UNCHANGED <<mode, exact, long_pq, found, expanded_log, dists, count,
                     batch, j, key, ids, distances, failures>>
  BY DEF TypeOK
<1>3. Kept' = Kept /\ Candidates' = Candidates
  BY <1>2 DEF Kept, Candidates
<1>4. /\ {MaxExpanded, ExactTopK} \subseteq Nat \ {0} /\ Len(found) \in Nat
      /\ Kept \in 1..Len(found)
  BY <1>1, Numbers
<1>5. TypeOK'
  BY <1>1, <1>2, <1>4 DEF TypeOK
<1>6. InputInv' /\ AnswerInv'
  BY <1>1, <1>2 DEF IInv, InputInv, AnswerInv
<1>7. /\ count = Kept
      /\ Distinct(expanded_log, 1..count)
      /\ Entries(expanded_log, 1..count) = Candidates
      /\ Fits(1..count) /\ Ascending(1..count)
  BY <1>1, <1>2 DEF SortedInv, Sorting, Chosen
<1>8. ASSUME NEW s \in 1..count, NEW t \in 1..count, s < t
      PROVE  long_pq[expanded_log[s]] <= long_pq[expanded_log[t]]
  <2>1. /\ dists[s] = long_pq[expanded_log[s]]
        /\ dists[t] = long_pq[expanded_log[t]]
    BY <1>2, <1>7 DEF Fits, Measure
  <2> QED
    BY <1>7, <1>8, <2>1 DEF Ascending
<1>9. MeasureInv'
  <2>1. ToMeasure' = Min({count, ExactTopK})
    BY <1>2 DEF ToMeasure
  <2>2. 0 <= ToMeasure'
    BY <1>4, <1>7, <2>1, MinOfTwo
  <2>3. Fits(1..i)'
    BY <1>2 DEF Fits
  <2>4. /\ Distinct(expanded_log', 1..count')
        /\ Entries(expanded_log', 1..count') = Candidates'
        /\ count' = Kept'
    BY <1>2, <1>3, <1>7
  <2>5. \A s, t \in 1..count' :
          s < t => long_pq'[expanded_log'[s]] <= long_pq'[expanded_log'[t]]
    BY <1>2, <1>8
  <2> QED
    BY <1>2, <2>2, <2>3, <2>4, <2>5 DEF MeasureInv, Distinct, Entries
<1> QED
  BY <1>2, <1>5, <1>6, <1>9 DEF IInv, BatchInv, SortInv, SortedInv

\* The answer is copied from the head of the log.
LEMMA AnswerStep ==
  ASSUME IInv, Answer
  PROVE  IInv'
<1> USE DEF Answer, input, log, locals
<1>1. TypeOK /\ InputInv /\ SortedInv /\ AnswerInv
  BY DEF IInv
<1>2. /\ pc = "sorted" /\ pc' = "done" /\ mode = "longpq" => refined
      /\ UNCHANGED <<mode, exact, long_pq, found, expanded_log, dists, count,
                     batch, i, j, key, refined, failures>>
  OBVIOUS
<1>3. /\ Sorting' = Sorting /\ Candidates' = Candidates
      /\ \A v : Measure(v)' = Measure(v)
      /\ refined' <=> refined
  BY <1>2 DEF Sorting, Kept, Candidates, Measure
<1>4. /\ count \in Nat /\ MaxExpanded \in Nat /\ TopK \in Nat
      /\ count <= MaxExpanded
  BY <1>1, Numbers DEF TypeOK
<1>5. ASSUME NEW k \in 1..TopK, k <= count
      PROVE  k \in Slots
  BY <1>4, <1>5 DEF Slots
<1>6. TypeOK'
  <2>1. ids' \in [1..TopK -> Vectors \union {Null}]
    BY <1>1, <1>5 DEF TypeOK
  <2>2. distances' \in [1..TopK -> Nat]
    BY <1>1, <1>5 DEF TypeOK
  <2> QED
    BY <1>1, <1>2, <2>1, <2>2 DEF TypeOK
<1>7. InputInv'
  BY <1>1, <1>2 DEF InputInv
<1>8. SortedInv'
  <2>1. /\ count = Sorting
        /\ Distinct(expanded_log, 1..count)
        /\ Chosen(Entries(expanded_log, 1..count))
        /\ Fits(1..count) /\ Ascending(1..count)
    BY <1>1, <1>2 DEF SortedInv
  <2>2. Chosen(Entries(expanded_log, 1..count))'
    BY <1>2, <1>3, <2>1 DEF Chosen, Entries
  <2>3. Fits(1..count)' /\ Ascending(1..count)'
    BY <1>2, <1>3, <2>1 DEF Fits, Ascending
  <2>4. (Distinct(expanded_log, 1..count))'
    BY <1>2, <2>1 DEF Distinct
  <2> QED
    BY <1>2, <1>3, <2>1, <2>2, <2>3, <2>4 DEF SortedInv
<1>9. AnswerInv'
  <2>1. ASSUME NEW k \in 1..TopK
        PROVE  /\ ids'[k] = IF k <= count THEN expanded_log[k] ELSE Null
               /\ distances'[k] = IF k <= count THEN dists[k] ELSE 0
    BY <1>1, <1>2, <2>1 DEF AnswerInv
  <2> QED
    BY <1>2, <1>3, <2>1 DEF AnswerInv
<1> QED
  BY <1>2, <1>6, <1>7, <1>8, <1>9 DEF IInv, MeasureInv, BatchInv, SortInv

\* A query that was broken off leaves nothing that counts.
LEMMA PowerFailStep ==
  ASSUME IInv, PowerFail
  PROVE  IInv'
<1> USE DEF PowerFail, input, log, result
<1>1. TypeOK /\ InputInv
  BY DEF IInv
<1>2. /\ MaxExpanded \in Nat /\ MaxFailures \in Nat
      /\ failures' \in 0..MaxFailures
  BY <1>1, MaxFailuresAssumption, Numbers DEF TypeOK
<1>3. TypeOK'
  <2>1. 0 \in 0..MaxExpanded /\ 0 \in -1..MaxExpanded
    BY <1>2
  <2>2. /\ batch' \in [1..Batch -> Vectors \union {Null}]
        /\ key' \in [id : Vectors \union {Null}, dist : Nat]
    BY DEF NoKey
  <2> QED
    BY <1>1, <1>2, <2>1, <2>2 DEF TypeOK
<1>4. InputInv'
  BY <1>1 DEF InputInv
<1> QED
  BY <1>3, <1>4
  DEF IInv, MeasureInv, BatchInv, SortInv, SortedInv, AnswerInv

\* The invariant only speaks of the variables.
LEMMA StutterStep ==
  ASSUME IInv, UNCHANGED vars
  PROVE  IInv'
<1>1. UNCHANGED <<pc, mode, exact, long_pq, found, expanded_log, dists, count,
                  batch, i, j, key, refined, ids, distances, failures>>
  BY DEF vars, input, log, locals, result
<1>2. /\ Sorting' = Sorting /\ Kept' = Kept /\ Candidates' = Candidates
      /\ \A v : Measure(v)' = Measure(v)
      /\ refined' <=> refined
  BY <1>1 DEF Sorting, Kept, Candidates, Measure
<1>3. ToMeasure' = ToMeasure /\ InBatch' = InBatch /\ Gap' = Gap
  BY <1>1 DEF ToMeasure, InBatch, Gap
<1>4. \A S : Chosen(S)' <=> Chosen(S)
  BY <1>1, <1>2 DEF Chosen
<1>5. TypeOK' /\ InputInv' /\ AnswerInv'
  BY <1>1 DEF IInv, TypeOK, InputInv, AnswerInv
<1>6. MeasureInv'
  BY <1>1, <1>2, <1>3 DEF IInv, MeasureInv, Fits
<1>7. BatchInv'
  BY <1>1, <1>3 DEF IInv, BatchInv
<1>8. SortInv'
  BY <1>1, <1>2, <1>3, <1>4 DEF IInv, SortInv, Fits, Ascending
<1>9. SortedInv'
  BY <1>1, <1>2, <1>4 DEF IInv, SortedInv, Fits, Ascending
<1> QED
  BY <1>5, <1>6, <1>7, <1>8, <1>9 DEF IInv

\* The inductive invariant holds in every state.
THEOREM InvHolds == Spec => []IInv
<1>1. Init => IInv
  BY InitEstablishes
<1>2. IInv /\ [Next]_vars => IInv'
  BY SearchStep, MeasureOneStep, ReadBatchStep, MacBatchStep, MeasuredStep,
     ShiftStep, PlaceStep, RefineStep, AnswerStep, PowerFailStep, StutterStep
  DEF Next, Step
<1> QED
  BY <1>1, <1>2, PTL DEF Spec

-----------------------------------------------------------------------------
\* While the arrays are sorted in place no vector is lost, none is there twice
\* and every distance stays with its vector, for logs of every length and
\* whatever an interrupted query left in them.
THEOREM SortCorrect == Spec => []SortLosesNothing
<1>1. ASSUME IInv, pc = "sort"
      PROVE  LET rest == (1..count) \ {j + 2}
             IN  /\ Cardinality({expanded_log[s] : s \in rest}) = count - 1
                 /\ {expanded_log[s] : s \in rest}
                      \subseteq Candidates \ {key.id}
                 /\ key.id \in Candidates /\ key.dist = Measure(key.id)
                 /\ \A s \in rest : dists[s] = Measure(expanded_log[s])
  <2> DEFINE rest == (1..count) \ {Gap}
  <2>1. /\ Distinct(expanded_log, rest)
        /\ key.id \notin Entries(expanded_log, rest)
        /\ Chosen(Entries(expanded_log, rest) \union {key.id})
        /\ Fits(rest) /\ key.dist = Measure(key.id)
    BY <1>1 DEF IInv, SortInv
  <2>2. count \in 1..MaxExpanded /\ Gap \in 1..count /\ MaxExpanded \in Nat
    BY <1>1, SortNumbers
  <2>3. IsFiniteSet(rest) /\ Cardinality(rest) = count - 1
    <3>1. IsFiniteSet(1..count) /\ Cardinality(1..count) = count
      BY <2>2, FS_Interval
    <3> QED
      BY <2>2, <3>1, FS_RemoveElement
  <2>4. Cardinality(Entries(expanded_log, rest)) = count - 1
    BY <2>1, <2>3, DistinctCardinality
  <2>5. /\ Entries(expanded_log, rest) \subseteq Candidates
        /\ key.id \in Candidates
    BY <2>1 DEF Chosen
  <2>6. /\ Cardinality({expanded_log[s] : s \in rest}) = count - 1
        /\ {expanded_log[s] : s \in rest} \subseteq Candidates \ {key.id}
        /\ \A s \in rest : dists[s] = Measure(expanded_log[s])
    BY <2>1, <2>4, <2>5 DEF Entries, Fits
  <2> QED
    BY <2>1, <2>5, <2>6 DEF Gap
<1>2. IInv => SortLosesNothing
  BY <1>1 DEF IInv, SortLosesNothing
<1> QED
  BY <1>2, InvHolds, PTL

\* Of a query that returned, the answer is the head of what was sorted.
LEMMA AnswerNumbers ==
  ASSUME IInv, pc = "done"
  PROVE  /\ count = Sorting /\ count \in 1..Kept /\ Kept \in Nat
         /\ TopK \in Nat \ {0} /\ ExactTopK \in Nat
         /\ Min({Cardinality(Candidates), TopK})
              = IF count <= TopK THEN count ELSE TopK
         /\ Min({Cardinality(Candidates), TopK}) \in 1..TopK
         /\ Min({Cardinality(Candidates), TopK}) \in 1..count
         /\ \A s \in 1..count :
              /\ expanded_log[s] \in Candidates /\ expanded_log[s] \in Vectors
              /\ dists[s] = exact[expanded_log[s]] /\ dists[s] \in Nat
         /\ Kept # count => mode = "longpq" /\ count = ExactTopK
<1>1. TypeOK /\ InputInv /\ SortedInv /\ AnswerInv
  BY DEF IInv
<1>2. /\ count = Sorting
      /\ Chosen(Entries(expanded_log, 1..count)) /\ Fits(1..count)
      /\ mode = "longpq" => refined
  BY <1>1 DEF SortedInv, AnswerInv
<1>3. /\ {TopK, ExactTopK} \subseteq Nat \ {0} /\ TopK <= ExactTopK
      /\ exact \in [Vectors -> Nat]
      /\ Len(found) \in Nat /\ Kept \in 1..Len(found)
      /\ Sorting = IF refined /\ ExactTopK < Kept THEN ExactTopK ELSE Kept
      /\ Sorting \in 1..Kept
      /\ refined => mode = "longpq"
  <2>1. Len(found) \in 1..MaxExpanded /\ MaxExpanded \in Nat
    BY <1>1, Numbers
  <2>2. refined => mode = "longpq"
    BY <1>1 DEF InputInv
  <2> QED
    BY <1>1, <2>1, <2>2, Numbers
<1>4. /\ Candidates \subseteq Vectors /\ Cardinality(Candidates) = Kept
      /\ Kept \in Nat
  BY <1>1, <1>3, CandidatesAreKept
<1>5. Min({Cardinality(Candidates), TopK}) = IF Kept <= TopK THEN Kept ELSE TopK
  BY <1>3, <1>4, MinOfTwo
<1>6. Kept # count => count = ExactTopK /\ mode = "longpq" /\ ExactTopK < Kept
  BY <1>2, <1>3
<1>7. /\ Min({Cardinality(Candidates), TopK})
           = IF count <= TopK THEN count ELSE TopK
      /\ Min({Cardinality(Candidates), TopK}) \in 1..TopK
      /\ Min({Cardinality(Candidates), TopK}) \in 1..count
  <2>1. CASE Kept = count
    BY <1>2, <1>3, <1>4, <1>5, <2>1
  <2>2. CASE Kept # count
    BY <1>2, <1>3, <1>4, <1>5, <1>6, <2>2
  <2> QED
    BY <2>1, <2>2
<1>8. ASSUME NEW s \in 1..count
      PROVE  /\ expanded_log[s] \in Candidates /\ expanded_log[s] \in Vectors
             /\ dists[s] = exact[expanded_log[s]] /\ dists[s] \in Nat
  <2>1. expanded_log[s] \in Candidates /\ expanded_log[s] \in Vectors
    BY <1>2, <1>4 DEF Chosen, Entries
  <2>2. dists[s] = exact[expanded_log[s]]
    BY <1>2 DEF Fits, Measure
  <2> QED
    BY <1>3, <2>1, <2>2
<1> QED
  BY <1>2, <1>3, <1>4, <1>6, <1>7, <1>8

\* A query that returns gives the nearest of its candidates, in order, each
\* once and with its own distance, whatever the sizes of its batches, and how
\* often it was begun before.
THEOREM AnswerCorrect == Spec => []AnswerIsNearest
<1>1. ASSUME IInv, pc = "done"
      PROVE  LET n == Min({Cardinality(Candidates), TopK})
                 given == {ids[k] : k \in 1..n}
                 AsNearByCode(v) ==
                   {w \in Candidates : long_pq[w] <= long_pq[v]}
             IN  /\ Cardinality(given) = n
                 /\ given \subseteq Candidates
                 /\ \A k \in 1..n : distances[k] = exact[ids[k]]
                 /\ \A k \in 2..n : distances[k - 1] <= distances[k]
                 /\ \A v \in Candidates \ given :
                      \/ exact[v] >= distances[n]
                      \/ /\ mode = "longpq"
                         /\ Cardinality(AsNearByCode(v)) > ExactTopK
                 /\ \A k \in (n + 1)..TopK : ids[k] = Null /\ distances[k] = 0
  <2> DEFINE n == Min({Cardinality(Candidates), TopK})
             given == {ids[k] : k \in 1..n}
             AsNearByCode(v) == {w \in Candidates : long_pq[w] <= long_pq[v]}
             left == Entries(expanded_log, 1..count)
  <2>1. /\ count \in 1..Kept /\ Kept \in Nat
        /\ TopK \in Nat \ {0} /\ ExactTopK \in Nat
        /\ n = IF count <= TopK THEN count ELSE TopK
        /\ n \in 1..TopK /\ n \in 1..count
        /\ \A s \in 1..count :
             /\ expanded_log[s] \in Candidates /\ expanded_log[s] \in Vectors
             /\ dists[s] = exact[expanded_log[s]] /\ dists[s] \in Nat
        /\ Kept # count => mode = "longpq" /\ count = ExactTopK
    BY <1>1, AnswerNumbers
  <2>2. /\ Distinct(expanded_log, 1..count) /\ Chosen(left)
        /\ Ascending(1..count)
        /\ \A k \in 1..TopK :
             /\ ids[k] = IF k <= count THEN expanded_log[k] ELSE Null
             /\ distances[k] = IF k <= count THEN dists[k] ELSE 0
    BY <1>1 DEF IInv, SortedInv, AnswerInv
  <2>3. /\ IsFiniteSet(Candidates) /\ Cardinality(Candidates) = Kept
        /\ Candidates \subseteq Vectors /\ long_pq \in [Vectors -> Nat]
        /\ exact \in [Vectors -> Nat]
    BY <1>1, CandidatesAreKept, Numbers DEF IInv
  <2> HIDE DEF n
  <2>4. 1..n \subseteq 1..count /\ 1..n \subseteq 1..TopK /\ n \in Nat
    BY <2>1
  <2>5. ASSUME NEW k \in 1..n
        PROVE  ids[k] = expanded_log[k] /\ distances[k] = dists[k]
    <3>1. k \in 1..TopK /\ k <= count
      BY <2>1, <2>4
    <3> QED
      BY <2>2, <3>1
  <2>6. given = Entries(expanded_log, 1..n)
    BY <2>5 DEF Entries
  <2>7. Cardinality(given) = n /\ given \subseteq Candidates
    <3>1. Distinct(expanded_log, 1..n)
      BY <2>2, <2>4 DEF Distinct
    <3>2. IsFiniteSet(1..n) /\ Cardinality(1..n) = n
      <4>1. n \in Int /\ 1 \in Int /\ n >= 1
        BY <2>1
      <4> QED
        BY ONLY <4>1, FS_Interval
    <3>3. Cardinality(given) = n
      BY <2>6, <3>1, <3>2, DistinctCardinality
    <3>4. given \subseteq Candidates
      BY <2>1, <2>4, <2>6 DEF Entries
    <3> QED
      BY <3>3, <3>4
  <2>8. \A k \in 1..n : distances[k] = exact[ids[k]]
    BY <2>1, <2>4, <2>5
  <2>9. ASSUME NEW k \in 2..n PROVE distances[k - 1] <= distances[k]
    <3>1. /\ k \in 1..n /\ k - 1 \in 1..n /\ k - 1 < k
          /\ k \in 1..count /\ k - 1 \in 1..count
      BY <2>1, <2>4
    <3> QED
      BY <2>2, <2>5, <3>1 DEF Ascending
  <2>10. ASSUME NEW v \in Candidates \ given
         PROVE  \/ exact[v] >= distances[n]
                \/ mode = "longpq" /\ Cardinality(AsNearByCode(v)) > ExactTopK
    <3>1. CASE v \in left
      <4>1. PICK s \in 1..count : v = expanded_log[s]
        BY <3>1 DEF Entries
      <4>2. s \notin 1..n
        BY <2>6, <4>1 DEF Entries
      <4>3. n < s /\ n \in 1..count /\ n \in 1..n
        BY <2>1, <4>1, <4>2
      <4>4. /\ dists[n] <= dists[s] /\ dists[s] = exact[v]
            /\ distances[n] = dists[n]
        BY <2>1, <2>2, <2>5, <4>1, <4>3 DEF Ascending
      <4>5. dists[n] \in Nat /\ exact[v] \in Nat
        BY <2>1, <2>3, <4>3
      <4> QED
        BY <4>4, <4>5
    <3>2. CASE v \notin left
      <4>1. IsFiniteSet(1..count) /\ Cardinality(1..count) = count
        BY <2>1, FS_Interval
      <4>2. IsFiniteSet(left) /\ Cardinality(left) = count
        BY <2>2, <4>1, DistinctCardinality
      <4>3. left \subseteq Candidates /\ left # Candidates
        BY <2>2, <3>2 DEF Chosen
      <4>4. count # Kept
        BY <2>3, <4>2, <4>3, FS_Subset
      <4>5. left \union {v} \subseteq AsNearByCode(v)
        <5>1. \A w \in left : long_pq[w] <= long_pq[v]
          BY <2>2, <3>2 DEF Chosen
        <5>2. long_pq[v] <= long_pq[v]
          BY <2>3
        <5> QED
          BY <4>3, <5>1, <5>2
      <4>6. /\ IsFiniteSet(left \union {v})
            /\ Cardinality(left \union {v}) = count + 1
        BY <3>2, <4>2, FS_AddElement
      <4>7. /\ IsFiniteSet(AsNearByCode(v))
            /\ Cardinality(AsNearByCode(v)) \in Nat
            /\ Cardinality(AsNearByCode(v)) >= count + 1
        <5>1. AsNearByCode(v) \subseteq Candidates
          OBVIOUS
        <5>2. IsFiniteSet(AsNearByCode(v))
          BY <2>3, <5>1, FS_Subset
        <5> HIDE DEF AsNearByCode, left
        <5>3. /\ Cardinality(AsNearByCode(v)) \in Nat
              /\ Cardinality(left \union {v}) <= Cardinality(AsNearByCode(v))
          BY <4>5, <5>2, FS_Subset, FS_CardinalityType
        <5> QED
          BY <2>1, <4>6, <5>2, <5>3
      <4> HIDE DEF AsNearByCode
      <4> QED
        BY <2>1, <4>4, <4>7
    <3> QED
      BY <3>1, <3>2
  <2>11. ASSUME NEW k \in (n + 1)..TopK PROVE ids[k] = Null /\ distances[k] = 0
    <3>1. k \in 1..TopK /\ ~(k <= count)
      BY <2>1
    <3> QED
      BY <2>2, <3>1
  <2> QED
    BY <2>7, <2>8, <2>9, <2>10, <2>11 DEF n
<1>2. IInv => AnswerIsNearest
  BY <1>1 DEF AnswerIsNearest
<1> QED
  BY <1>2, InvHolds, PTL

-----------------------------------------------------------------------------
\* Of vectors that are not all gone, one is as far as any.
LEMMA Farthest ==
  ASSUME NEW S, S \subseteq Vectors, S # {}, exact \in [Vectors -> Nat]
  PROVE  \E v \in S : \A w \in S : exact[w] <= exact[v]
<1> DEFINE UpTo(v) == {w \in S : exact[w] <= exact[v]}
           Beyond(v) == Cardinality(S) - Cardinality(UpTo(v))
           T == {Beyond(v) : v \in S}
<1>1. IsFiniteSet(S) /\ Cardinality(S) \in Nat
  BY VectorsAssumption, FS_Subset, FS_CardinalityType
<1>2. ASSUME NEW v \in S
      PROVE  /\ IsFiniteSet(UpTo(v)) /\ Cardinality(UpTo(v)) \in Nat
             /\ Cardinality(UpTo(v)) <= Cardinality(S)
  <2>1. UpTo(v) \subseteq S
    OBVIOUS
  <2> HIDE DEF UpTo
  <2> QED
    BY <1>1, <2>1, FS_Subset, FS_CardinalityType
<1>3. T \subseteq Nat /\ T # {}
  <2> HIDE DEF UpTo
  <2> QED
    BY <1>1, <1>2
<1>4. PICK v \in S : \A u \in S : Beyond(v) <= Beyond(u)
  <2>1. PICK m \in T : \A n \in T : m <= n
    BY <1>3, LeastElement
  <2> HIDE DEF Beyond
  <2> QED
    BY <2>1
<1>5. ASSUME NEW u \in S, ~(exact[u] <= exact[v]) PROVE FALSE
  <2>1. exact[u] \in Nat /\ exact[v] \in Nat /\ exact[v] < exact[u]
    BY <1>5
  <2>2. UpTo(v) \subseteq UpTo(u)
    <3>1. \A w \in S : exact[w] \in Nat
      OBVIOUS
    <3> QED
      BY <2>1, <3>1
  <2>3. u \in UpTo(u) /\ u \notin UpTo(v)
    BY <2>1
  <2> HIDE DEF UpTo
  <2>4. Cardinality(UpTo(v)) < Cardinality(UpTo(u))
    <3>1. Cardinality(UpTo(v)) # Cardinality(UpTo(u))
      BY <1>2, <2>2, <2>3, FS_Subset
    <3>2. Cardinality(UpTo(v)) <= Cardinality(UpTo(u))
      BY <1>2, <2>2, FS_Subset
    <3> QED
      BY <1>2, <3>1, <3>2
  <2>5. Beyond(u) < Beyond(v)
    BY <1>1, <1>2, <2>4
  <2>6. Beyond(v) <= Beyond(u)
    BY <1>4
  <2> QED
    BY <1>1, <1>2, <2>5, <2>6
<1> QED
  BY <1>5

\* How many vectors are nearer than a distance, and as near.
Nearer(d) == {v \in Vectors : exact[v] < d}
AsNear(d) == {v \in Vectors : exact[v] <= d}

\* Farther distances have more vectors in front of them.
LEMMA NearerNumbers ==
  ASSUME exact \in [Vectors -> Nat], NEW d \in Nat, NEW e \in Nat
  PROVE  /\ Cardinality(Nearer(d)) \in Nat /\ Cardinality(AsNear(d)) \in Nat
         /\ d < e => Cardinality(AsNear(d)) <= Cardinality(Nearer(e))
         /\ d <= e => Cardinality(Nearer(d)) <= Cardinality(Nearer(e))
         /\ \A v \in Vectors :
              exact[v] = d => Cardinality(Nearer(d)) < Cardinality(AsNear(d))
<1>1. \A v \in Vectors : exact[v] \in Nat
  OBVIOUS
<1>2. /\ \A x \in Nat :
           Nearer(x) \subseteq Vectors /\ AsNear(x) \subseteq Vectors
      /\ d < e => AsNear(d) \subseteq Nearer(e)
      /\ d <= e => Nearer(d) \subseteq Nearer(e)
      /\ Nearer(d) \subseteq AsNear(d)
      /\ \A v \in Vectors : exact[v] = d => v \in AsNear(d) \ Nearer(d)
  BY <1>1 DEF Nearer, AsNear
<1>3. \A S \in SUBSET Vectors : IsFiniteSet(S) /\ Cardinality(S) \in Nat
  BY VectorsAssumption, FS_Subset, FS_CardinalityType
<1>4. \A S \in SUBSET Vectors, R \in SUBSET Vectors :
        R \subseteq S => /\ Cardinality(R) <= Cardinality(S)
                         /\ Cardinality(R) = Cardinality(S) => R = S
  BY <1>3, FS_Subset
<1>5. ASSUME NEW v \in Vectors, exact[v] = d
      PROVE  Cardinality(Nearer(d)) < Cardinality(AsNear(d))
  <2>1. Nearer(d) # AsNear(d)
    BY <1>2, <1>5
  <2> QED
    BY <1>2, <1>3, <1>4, <2>1
<1> QED
  BY <1>2, <1>3, <1>4, <1>5

\* The ground truth is well defined, however many vectors tie.
LEMMA GroundTruthExists ==
  ASSUME TypeOK, InputInv, NEW g \in 1..TopK
  PROVE  /\ GroundTruth[g] \in Nat
         /\ Cardinality(Nearer(GroundTruth[g])) < g
         /\ Cardinality(AsNear(GroundTruth[g])) >= g
<1> DEFINE D == {exact[v] : v \in Vectors}
           Enough == {d \in D : Cardinality(AsNear(d)) >= g}
           P(d) == /\ Cardinality(Nearer(d)) < g
                   /\ Cardinality(AsNear(d)) >= g
<1>1. /\ exact \in [Vectors -> Nat] /\ TopK \in Nat \ {0}
      /\ D \subseteq Nat /\ g \in Nat \ {0} /\ g <= TopK
  BY Numbers
<1>2. IsFiniteSet(Vectors) /\ Cardinality(Vectors) \in Nat
      /\ Cardinality(Vectors) >= g
  BY <1>1, VectorsAssumption, RecallAssumption, FS_CardinalityType
<1>3. \A d \in Nat : /\ Cardinality(Nearer(d)) \in Nat
                     /\ Cardinality(AsNear(d)) \in Nat
  BY <1>1, NearerNumbers
<1>4. Enough \subseteq Nat /\ Enough # {}
  <2>1. Vectors # {}
    BY <1>1, <1>2, FS_EmptySet
  <2>2. PICK v \in Vectors : \A w \in Vectors : exact[w] <= exact[v]
    BY <1>1, <2>1, Farthest
  <2>3. AsNear(exact[v]) = Vectors
    BY <2>2 DEF AsNear
  <2> QED
    BY <1>1, <1>2, <2>3
<1>5. PICK d \in Enough : \A e \in Enough : d <= e
  BY <1>4, LeastElement
<1>6. Cardinality(Nearer(d)) < g
  <2>1. CASE Nearer(d) = {}
    BY <1>1, <2>1, FS_EmptySet
  <2>2. CASE Nearer(d) # {}
    <3>1. Nearer(d) \subseteq Vectors
      BY DEF Nearer
    <3>2. PICK v \in Nearer(d) : \A w \in Nearer(d) : exact[w] <= exact[v]
      BY <1>1, <2>2, <3>1, Farthest
    <3>3. exact[v] \in D /\ exact[v] < d /\ exact[v] \in Nat /\ d \in Nat
      BY <1>1, <1>4, <3>1 DEF Nearer
    <3>4. exact[v] \notin Enough
      BY <1>5, <3>3
    <3>5. Cardinality(AsNear(exact[v])) < g
      BY <1>1, <1>3, <3>3, <3>4
    <3>6. Nearer(d) = AsNear(exact[v])
      BY <1>1, <3>2, <3>3 DEF Nearer, AsNear
    <3> QED
      BY <3>5, <3>6
  <2> QED
    BY <2>1, <2>2
<1>7. d \in D /\ P(d)
  BY <1>6
<1>8. GroundTruth[g] = CHOOSE x \in D : P(x)
  BY DEF GroundTruth, Nearer, AsNear
<1> HIDE DEF D, P
<1>9. GroundTruth[g] \in D /\ P(GroundTruth[g])
  BY <1>7, <1>8
<1> QED
  BY <1>1, <1>9 DEF P

\* The recall of a full answer is the share of it that is as near as the
\* ground truth, for any number of vectors that tie.
THEOREM RecallCorrect == Spec => []RecallCountsTheNearest
<1>1. ASSUME IInv, pc = "done", count >= TopK
      PROVE  Hits(GroundTruth) =
               Cardinality({r \in 1..TopK : distances[r] <= GroundTruth[TopK]})
  <2>1. /\ TopK \in Nat \ {0} /\ count \in Nat
        /\ \A s \in 1..count :
             /\ expanded_log[s] \in Vectors
             /\ dists[s] = exact[expanded_log[s]] /\ dists[s] \in Nat
    BY <1>1, AnswerNumbers
  <2>2. exact \in [Vectors -> Nat]
    BY <1>1, Numbers DEF IInv
  <2>3. \A g \in 1..TopK : /\ GroundTruth[g] \in Nat
                           /\ Cardinality(Nearer(GroundTruth[g])) < g
                           /\ Cardinality(AsNear(GroundTruth[g])) >= g
    BY <1>1, GroundTruthExists DEF IInv
  <2>4. TopK \in 1..TopK /\ GroundTruth[TopK] \in Nat
    BY <2>1, <2>3
  <2>5. ASSUME NEW r \in 1..TopK
        PROVE  (\E g \in 1..TopK : distances[r] = GroundTruth[g])
                 <=> distances[r] <= GroundTruth[TopK]
    <3>1. r \in 1..count /\ r <= count
      BY <1>1, <2>1
    <3>2. distances[r] = dists[r]
      BY <1>1, <3>1 DEF IInv, AnswerInv
    <3> DEFINE d == distances[r]
    <3>3. d \in Nat /\ \E v \in Vectors : exact[v] = d
      BY <2>1, <3>1, <3>2
    <3> HIDE DEF d
    <3>4. ASSUME NEW g \in 1..TopK, d = GroundTruth[g]
          PROVE  d <= GroundTruth[TopK]
      <4>1. ~(GroundTruth[TopK] < GroundTruth[g])
        <5> DEFINE a == GroundTruth[TopK]
                   b == GroundTruth[g]
        <5>1. /\ a \in Nat /\ b \in Nat
              /\ Cardinality(AsNear(a)) >= TopK /\ Cardinality(Nearer(b)) < g
          BY <2>3, <2>4
        <5> HIDE DEF a, b
        <5>2. /\ Cardinality(AsNear(a)) \in Nat
              /\ Cardinality(Nearer(b)) \in Nat
              /\ a < b => Cardinality(AsNear(a)) <= Cardinality(Nearer(b))
          BY <2>2, <5>1, NearerNumbers
        <5>3. ~(a < b)
          BY <2>1, <5>1, <5>2
        <5> QED
          BY <5>3 DEF a, b
      <4> QED
        BY <2>3, <2>4, <3>4, <4>1
    <3>5. ASSUME d <= GroundTruth[TopK]
          PROVE  \E g \in 1..TopK : d = GroundTruth[g]
      <4> DEFINE c == Cardinality(Nearer(d))
                 g == c + 1
      <4>1. c \in Nat /\ c < TopK
        <5> DEFINE a == GroundTruth[TopK]
        <5>1. a \in Nat /\ Cardinality(Nearer(a)) < TopK /\ d <= a
          BY <2>3, <2>4, <3>5
        <5> HIDE DEF a
        <5>2. /\ Cardinality(Nearer(a)) \in Nat /\ c \in Nat
              /\ c <= Cardinality(Nearer(a))
          BY <2>2, <3>3, <5>1, NearerNumbers
        <5> HIDE DEF c
        <5> QED
          BY <2>1, <5>1, <5>2
      <4>2. Cardinality(AsNear(d)) \in Nat /\ c < Cardinality(AsNear(d))
        BY <2>2, <3>3, NearerNumbers
      <4> HIDE DEF c
      <4>3. g \in 1..TopK
        BY <2>1, <4>1
      <4> DEFINE b == GroundTruth[g]
      <4>4. /\ b \in Nat /\ Cardinality(Nearer(b)) < g
            /\ Cardinality(AsNear(b)) >= g
        BY <2>3, <4>3
      <4> HIDE DEF b
      <4>5. /\ Cardinality(Nearer(b)) \in Nat /\ Cardinality(AsNear(b)) \in Nat
            /\ d < b => Cardinality(AsNear(d)) <= Cardinality(Nearer(b))
            /\ b < d => Cardinality(AsNear(b)) <= c
        BY <2>2, <3>3, <4>4, NearerNumbers DEF c
      <4>6. d = b
        BY <3>3, <4>1, <4>2, <4>4, <4>5
      <4> QED
        BY <4>3, <4>6 DEF b
    <3> QED
      BY <3>4, <3>5 DEF d
  <2>6. {r \in 1..TopK : \E g \in 1..TopK : distances[r] = GroundTruth[g]}
          = {r \in 1..TopK : distances[r] <= GroundTruth[TopK]}
    BY <2>5
  <2> QED
    BY <2>6 DEF Hits
<1>2. IInv => RecallCountsTheNearest
  BY <1>1 DEF RecallCountsTheNearest
<1> QED
  BY <1>2, InvHolds, PTL

=============================================================================
