---------------------------- MODULE SearchProofs ----------------------------
(***************************************************************************)
(* What holds of the search of one query for every graph, every list size  *)
(* and every number of vectors: that it is a best-first search and, behind *)
(* that, what is kept of it when the reads of the codes are overlapped.    *)
(*                                                                         *)
(* The list is looked at as a whole: Ordered(list), and what add_to_L()    *)
(* and the cut behind it make of it, is all that the steps need to know.   *)
(* The places that the code finds by walking the list, the one of an       *)
(* insertion and the first unvisited entry, are least elements of sets of  *)
(* indices; that those exist takes the place of an induction.              *)
(***************************************************************************)
EXTENDS OverlapSearch, SequenceTheorems, FiniteSetTheorems, TLAPS

\* No vector twice, and none behind one that is farther.
Ordered(s) ==
  \A i, j \in 1..Len(s) :
    i < j => s[i] # s[j] /\ distance[s[i]] <= distance[s[j]]

\* add_to_L() of the entry vector finds everything reset.
EntryInv ==
  pc = "entry" =>
    /\ log_head = 0 /\ hash = {} /\ list = <<>> /\ expanded_log = <<>>
    /\ candidate_count = 0 /\ visited_count = 0 /\ sorted_tail = Null

\* A tail is set when the list is cut, and from then on the list is full and
\* the tail its last entry.
TailInv ==
  Searching /\ sorted_tail # Null =>
    Len(list) = current_L_size /\ sorted_tail = list[current_L_size]

\* Of the vectors met in this query those are flagged that were expanded, each
\* once; flags of other vectors are left over from earlier queries.
VisitedInv ==
  Searching => /\ Range(expanded_log) = visited \intersect hash
               /\ ExpandedOnce

\* The neighbours of an expanded vector have been met, but for those of p_star
\* that query() has not come to.
NeighborInv ==
  /\ pc = "neighbors" => p_star \in Range(expanded_log)
  /\ Searching =>
       \A v \in Range(expanded_log), i \in 1..Degree :
         \/ graph[v][i] \in hash
         \/ pc = "neighbors" /\ v = p_star /\ i >= neighbor

\* query() stops when every entry of the list is flagged.
DoneInv == pc = "done" => Range(list) \subseteq visited

IInv == /\ TypeOK /\ EntryInv /\ CountsMatchList /\ ListIsBestOfSeen
        /\ TailInv /\ VisitedInv /\ NeighborInv /\ DoneInv

-----------------------------------------------------------------------------
\* A set of naturals that is not empty has a least element.
LEMMA LeastElement ==
  ASSUME NEW T \in SUBSET Nat, T # {}
  PROVE  \E m \in T : \A n \in T : m <= n
<1> DEFINE R == OpToRel(<, Nat)
<1>1. \E m \in T : \A n \in T : <<n, m>> \notin R
  <2>1. IsWellFoundedOn(R, Nat)
    BY NatLessThanWellFounded
  <2> HIDE DEF R
  <2> QED
    BY <2>1, WFMin
<1>2. \A m, n \in Nat : <<n, m>> \in R <=> n < m
  BY DEF OpToRel
<1> HIDE DEF R
<1>3. PICK m \in T : \A n \in T : <<n, m>> \notin R
  BY <1>1
<1>4. \A n \in T : ~(n < m)
  BY <1>2, <1>3
<1> QED
  BY <1>4

\* The place of the first of them, as the walk of the list finds it.
LEMMA MinIsLeast ==
  ASSUME NEW T \in SUBSET Nat, T # {}
  PROVE  Min(T) \in T /\ \A n \in T : Min(T) <= n
BY LeastElement DEF Min

\* How many entries a cut leaves.
LEMMA MinOfTwo ==
  ASSUME NEW a \in Nat, NEW b \in Nat
  PROVE  Min({a, b}) = IF a <= b THEN a ELSE b
<1>1. Min({a, b}) \in {a, b} /\ \A n \in {a, b} : Min({a, b}) <= n
  BY MinIsLeast
<1> QED
  BY <1>1

\* Where a vector is inserted: behind everything closer, in front of the rest.
LEMMA PlaceOfCandidate ==
  ASSUME NEW s \in Seq(Vectors), NEW v \in Vectors,
         distance \in [Vectors -> Nat], Ordered(s)
  PROVE  /\ Before(s, v) \in 0..Len(s)
         /\ \A j \in 1..Before(s, v) : distance[s[j]] <= distance[v]
         /\ \A j \in (Before(s, v) + 1)..Len(s) : distance[v] <= distance[s[j]]
<1> DEFINE d(i) == distance[s[i]]
<1>0. /\ \A i \in 1..Len(s) : d(i) \in Nat
      /\ \A i, j \in 1..Len(s) : i <= j => d(i) <= d(j)
      /\ distance[v] \in Nat /\ Len(s) \in Nat
  BY ElementOfSeq, LenProperties DEF Ordered
<1>1. CASE s = <<>> \/ distance[v] < distance[s[1]]
  <2>1. Before(s, v) = 0
    BY <1>1 DEF Before
  <2>2. \A j \in 1..Len(s) : distance[v] <= d(j)
    BY <1>0, <1>1
  <2> QED
    BY <2>1, <2>2, <1>0
<1>2. CASE ~(s = <<>> \/ distance[v] < distance[s[1]])
  <2> DEFINE T == {i \in 1..Len(s) : i = Len(s) \/ d(i + 1) >= distance[v]}
             P(i) == /\ i = Len(s) \/ d(i + 1) >= distance[v]
                     /\ \A j \in 1..(i - 1) : d(j + 1) < distance[v]
  <2>1. Len(s) \in T /\ T \in SUBSET Nat
    BY <1>2, <1>0, EmptySeq
  <2>2. PICK m \in T : \A n \in T : m <= n
    BY <2>1, LeastElement
  <2>3. P(m) /\ m \in 1..Len(s)
    <3>1. m \in 1..Len(s) /\ (m = Len(s) \/ d(m + 1) >= distance[v])
      BY <2>2
    <3>2. ASSUME NEW j \in 1..(m - 1) PROVE d(j + 1) < distance[v]
      <4>1. j \in 1..Len(s) /\ j + 1 \in 1..Len(s) /\ ~(m <= j)
        BY <3>1, <1>0
      <4>2. j \notin T
        BY <4>1, <2>2
      <4>3. ~(d(j + 1) >= distance[v])
        BY <4>1, <4>2
      <4>4. d(j + 1) \in Nat
        BY <4>1, <1>0
      <4> HIDE DEF d
      <4> QED
        BY <4>3, <4>4, <1>0
    <3> QED
      BY <3>1, <3>2
  <2>4. Before(s, v) = CHOOSE i \in 1..Len(s) : P(i)
    BY <1>2 DEF Before
  <2>5. Before(s, v) \in 1..Len(s) /\ P(Before(s, v))
    BY <2>3, <2>4
  <2> DEFINE k == Before(s, v)
  <2>6. \A j \in 1..k : d(j) <= distance[v]
    <3> SUFFICES ASSUME NEW j \in 1..k PROVE d(j) <= distance[v]
      OBVIOUS
    <3> HIDE DEF d
    <3>1. CASE j = 1
      BY <1>2, <1>0, <3>1, <2>5 DEF d
    <3>2. CASE j > 1
      <4>1. j - 1 \in 1..(k - 1)
        BY <2>5, <3>2, <1>0
      <4>2. d((j - 1) + 1) < distance[v]
        BY <4>1, <2>5
      <4>3. (j - 1) + 1 = j /\ j \in 1..Len(s)
        BY <2>5, <1>0
      <4> QED
        BY <4>2, <4>3, <1>0
    <3> QED
      BY <3>1, <3>2, <2>5, <1>0
  <2>7. \A j \in (k + 1)..Len(s) : distance[v] <= d(j)
    <3> SUFFICES ASSUME NEW j \in (k + 1)..Len(s) PROVE distance[v] <= d(j)
      OBVIOUS
    <3> HIDE DEF d, k
    <3>1. /\ k \in 1..Len(s) /\ k + 1 \in 1..Len(s) /\ j \in 1..Len(s)
          /\ k + 1 <= j
      BY <2>5, <1>0 DEF k
    <3>2. d(k + 1) >= distance[v]
      BY <2>5, <3>1, <1>0 DEF k
    <3>3. d(k + 1) <= d(j)
      BY <3>1, <1>0
    <3> QED
      BY <3>1, <3>2, <3>3, <1>0
  <2> QED
    BY <2>5, <2>6, <2>7, <1>0
<1> QED
  BY <1>1, <1>2

\* What InsertAt makes of a sequence.
LEMMA Inserted ==
  ASSUME NEW s \in Seq(Vectors), NEW v \in Vectors, NEW k \in 0..Len(s)
  PROVE  LET t == InsertAt(s, k + 1, v)
         IN  /\ t \in Seq(Vectors) /\ Len(t) = Len(s) + 1
             /\ \A i \in 1..Len(t) :
                  t[i] = IF i <= k THEN s[i]
                         ELSE IF i = k + 1 THEN v ELSE s[i - 1]
             /\ Range(t) = Range(s) \union {v}
<1> DEFINE t == InsertAt(s, k + 1, v)
           a == SubSeq(s, 1, k)
           b == SubSeq(s, k + 1, Len(s))
<1>1. Len(s) \in Nat /\ \A i \in 1..Len(s) : s[i] \in Vectors
  BY ElementOfSeq, LenProperties
<1>2. a \in Seq(Vectors) /\ Len(a) = k /\ \A i \in 1..k : a[i] = s[i]
  <2>1. \A i \in 1..k : s[i] \in Vectors
    BY <1>1
  <2> QED
    BY <1>1, <2>1, SubSeqProperties
<1>3. /\ b \in Seq(Vectors) /\ Len(b) = Len(s) - k
      /\ \A i \in 1..(Len(s) - k) : b[i] = s[k + i]
  <2>1. \A i \in (k + 1)..Len(s) : s[i] \in Vectors
    BY <1>1
  <2> QED
    BY <1>1, <2>1, SubSeqProperties
<1>4. t = (a \o <<v>>) \o b
  <2>1. (k + 1) - 1 = k
    BY <1>1
  <2>2. t = SubSeq(s, 1, (k + 1) - 1) \o <<v>> \o b
    BY DEF InsertAt
  <2> QED
    BY <2>1, <2>2
<1> HIDE DEF a, b, t
<1>5. <<v>> \in Seq(Vectors) /\ Len(<<v>>) = 1 /\ <<v>>[1] = v
  OBVIOUS
<1>6. /\ a \o <<v>> \in Seq(Vectors) /\ Len(a \o <<v>>) = k + 1
      /\ \A i \in 1..(k + 1) : (a \o <<v>>)[i] = IF i <= k THEN a[i] ELSE v
  BY <1>2, <1>5, ConcatProperties
<1>7. /\ t \in Seq(Vectors) /\ Len(t) = Len(s) + 1
      /\ \A i \in 1..Len(t) : t[i] = IF i <= k + 1 THEN (a \o <<v>>)[i]
                                                   ELSE b[i - (k + 1)]
  <2> DEFINE u == a \o <<v>>
  <2>1. u \in Seq(Vectors) /\ Len(u) = k + 1
    BY <1>6
  <2> HIDE DEF u
  <2>2. /\ u \o b \in Seq(Vectors) /\ Len(u \o b) = Len(u) + Len(b)
        /\ \A i \in 1..(Len(u) + Len(b)) :
             (u \o b)[i] = IF i <= Len(u) THEN u[i] ELSE b[i - Len(u)]
    BY <1>3, <2>1, ConcatProperties
  <2>3. Len(u) + Len(b) = Len(s) + 1
    BY <1>1, <1>3, <2>1
  <2>4. t = u \o b
    BY <1>4 DEF u
  <2>5. \A i \in 1..Len(t) :
          t[i] = IF i <= k + 1 THEN u[i] ELSE b[i - (k + 1)]
    BY <2>1, <2>2, <2>3, <2>4
  <2> QED
    BY <2>2, <2>3, <2>4, <2>5 DEF u
<1>8. \A i \in 1..Len(t) : t[i] = IF i <= k THEN s[i]
                                 ELSE IF i = k + 1 THEN v ELSE s[i - 1]
  <2> SUFFICES ASSUME NEW i \in 1..Len(t)
               PROVE  t[i] = IF i <= k THEN s[i]
                             ELSE IF i = k + 1 THEN v ELSE s[i - 1]
    OBVIOUS
  <2>1. CASE i <= k + 1
    BY <2>1, <1>1, <1>2, <1>6, <1>7
  <2>2. CASE i > k + 1
    <3>1. i - (k + 1) \in 1..(Len(s) - k) /\ k + (i - (k + 1)) = i - 1
      BY <2>2, <1>1, <1>7
    <3> QED
      <4>1. t[i] = b[i - (k + 1)]
        BY <2>2, <1>7
      <4>2. b[i - (k + 1)] = s[k + (i - (k + 1))]
        BY <3>1, <1>3
      <4>3. ~(i <= k) /\ i # k + 1
        BY <2>2
      <4> QED
        BY <3>1, <4>1, <4>2, <4>3
  <2> QED
    BY <2>1, <2>2, <1>7, <1>1
<1>9. Range(t) = Range(s) \union {v}
  <2>1. /\ Range(s) = {s[i] : i \in 1..Len(s)}
        /\ Range(t) = {t[i] : i \in 1..Len(t)}
    BY <1>7, RangeEquality
  <2>2. \A i \in 1..Len(s) : \E j \in 1..Len(t) : t[j] = s[i]
    <3> SUFFICES ASSUME NEW i \in 1..Len(s)
                 PROVE  \E j \in 1..Len(t) : t[j] = s[i]
      OBVIOUS
    <3>1. CASE i <= k
      <4>1. i \in 1..Len(t)
        BY <1>1, <1>7
      <4> QED
        BY <3>1, <4>1, <1>8
    <3>2. CASE i > k
      <4>1. /\ i + 1 \in 1..Len(t) /\ ~(i + 1 <= k) /\ i + 1 # k + 1
            /\ (i + 1) - 1 = i
        BY <3>2, <1>1, <1>7
      <4>2. t[i + 1] = s[(i + 1) - 1]
        BY <4>1, <1>8
      <4> QED
        BY <4>1, <4>2
    <3> QED
      BY <3>1, <3>2, <1>1
  <2>3. k + 1 \in 1..Len(t) /\ t[k + 1] = v
    BY <1>1, <1>7, <1>8
  <2>4. \A j \in 1..Len(t) : t[j] = v \/ \E i \in 1..Len(s) : t[j] = s[i]
    BY <1>1, <1>7, <1>8
  <2> QED
    BY <2>1, <2>2, <2>3, <2>4
<1> QED
  BY <1>7, <1>8, <1>9 DEF t

\* Inserting a new vector where Before() says keeps the list ordered.
LEMMA InsertKeepsOrder ==
  ASSUME NEW s \in Seq(Vectors), NEW v \in Vectors \ Range(s),
         distance \in [Vectors -> Nat], Ordered(s)
  PROVE  LET t == InsertAt(s, Before(s, v) + 1, v)
         IN  /\ t \in Seq(Vectors) /\ Len(t) = Len(s) + 1
             /\ Range(t) = Range(s) \union {v}
             /\ Ordered(t)
<1> DEFINE k == Before(s, v)
           t == InsertAt(s, k + 1, v)
<1>1. /\ k \in 0..Len(s)
      /\ \A j \in 1..k : distance[s[j]] <= distance[v]
      /\ \A j \in (k + 1)..Len(s) : distance[v] <= distance[s[j]]
  BY PlaceOfCandidate
<1> HIDE DEF k
<1>3. /\ t \in Seq(Vectors) /\ Len(t) = Len(s) + 1
      /\ \A i \in 1..Len(t) : t[i] = IF i <= k THEN s[i]
                                    ELSE IF i = k + 1 THEN v ELSE s[i - 1]
      /\ Range(t) = Range(s) \union {v}
  BY <1>1, Inserted
<1> HIDE DEF t
<1>4. Len(s) \in Nat /\ k \in Nat /\ \A j \in 1..Len(s) : s[j] # v
  BY <1>1, LenProperties, RangeEquality
<1>5. ASSUME NEW i \in 1..Len(t), NEW j \in 1..Len(t), i < j
      PROVE  t[i] # t[j] /\ distance[t[i]] <= distance[t[j]]
  <2>0. /\ i \in Nat /\ j \in Nat /\ 1 <= i /\ i < j /\ j <= Len(s) + 1
        /\ k <= Len(s)
    BY <1>1, <1>3, <1>4, <1>5
  <2>1. CASE j <= k
    <3>1. i <= k /\ i \in 1..Len(s) /\ j \in 1..Len(s)
      BY <2>0, <1>4, <2>1
    <3>2. t[i] = s[i] /\ t[j] = s[j]
      BY <1>3, <2>1, <3>1
    <3> QED
      BY <3>1, <3>2, <2>0 DEF Ordered
  <2>2. CASE j = k + 1
    <3>1. i <= k /\ ~(j <= k) /\ i \in 1..k /\ i \in 1..Len(s)
      BY <2>0, <1>4, <2>2
    <3>2. t[i] = s[i] /\ t[j] = v
      BY <1>3, <2>2, <3>1
    <3> QED
      BY <3>1, <3>2, <1>1, <1>4
  <2>3. CASE j > k + 1 /\ i = k + 1
    <3>1. /\ ~(i <= k) /\ ~(j <= k) /\ j # k + 1
          /\ j - 1 \in (k + 1)..Len(s) /\ j - 1 \in 1..Len(s)
      BY <2>0, <1>4, <2>3
    <3>2. t[i] = v /\ t[j] = s[j - 1]
      BY <1>3, <2>3, <3>1
    <3> QED
      BY <3>1, <3>2, <1>1, <1>4
  <2>4. CASE j > k + 1 /\ i <= k
    <3>1. /\ ~(j <= k) /\ j # k + 1
          /\ i \in 1..Len(s) /\ j - 1 \in 1..Len(s) /\ i < j - 1
      BY <2>0, <1>4, <2>4
    <3>2. t[i] = s[i] /\ t[j] = s[j - 1]
      BY <1>3, <2>4, <3>1
    <3> QED
      BY <3>1, <3>2 DEF Ordered
  <2>5. CASE i > k + 1
    <3>1. /\ ~(i <= k) /\ i # k + 1 /\ ~(j <= k) /\ j # k + 1
          /\ i - 1 \in 1..Len(s) /\ j - 1 \in 1..Len(s) /\ i - 1 < j - 1
      BY <2>0, <1>4, <2>5
    <3>2. t[i] = s[i - 1] /\ t[j] = s[j - 1]
      BY <1>3, <3>1
    <3> QED
      BY <3>1, <3>2 DEF Ordered
  <2> QED
    BY <2>0, <2>1, <2>2, <2>3, <2>4, <2>5, <1>4
<1>6. Ordered(t)
  BY <1>5 DEF Ordered
<1> QED
  BY <1>3, <1>6 DEF k, t

\* The first entries of an ordered list.
LEMMA CutKeepsOrder ==
  ASSUME NEW t \in Seq(Vectors), Ordered(t), NEW n \in 0..Len(t),
         NEW u, u = SubSeq(t, 1, n)
  PROVE  /\ u \in Seq(Vectors) /\ Len(u) = n
         /\ \A i \in 1..n : u[i] = t[i]
         /\ Range(u) = {t[i] : i \in 1..n}
         /\ Ordered(u)
<1>1. Len(t) \in Nat /\ \A i \in 1..Len(t) : t[i] \in Vectors
  BY ElementOfSeq, LenProperties
<1>2. u \in Seq(Vectors) /\ Len(u) = n /\ \A i \in 1..n : u[i] = t[i]
  <2>1. \A i \in 1..n : t[i] \in Vectors
    BY <1>1
  <2> QED
    BY <1>1, <2>1, SubSeqProperties
<1>3. Range(u) = {t[i] : i \in 1..n}
  <2>1. u \in Seq(Vectors) /\ Len(u) = n
    BY <1>2
  <2>2. Range(u) = {u[i] : i \in 1..Len(u)}
    BY ONLY <2>1, RangeEquality
  <2> QED
    BY <1>2, <2>2
<1>4. Ordered(u)
  <2>1. \A i \in 1..n : i \in 1..Len(t)
    BY <1>1
  <2> QED
    BY <1>2, <2>1 DEF Ordered
<1> QED
  BY <1>2, <1>3, <1>4

\* An ordered list holds as many vectors as it has entries.
LEMMA OrderedCardinality ==
  ASSUME NEW s \in Seq(Vectors), Ordered(s)
  PROVE  IsFiniteSet(Range(s)) /\ Cardinality(Range(s)) = Len(s)
<1>1. /\ Len(s) \in Nat /\ s \in [1..Len(s) -> Vectors]
      /\ Range(s) = {s[i] : i \in 1..Len(s)}
  BY LenProperties, RangeEquality
<1>2. \A i, j \in 1..Len(s) : s[i] = s[j] => i = j
  BY <1>1 DEF Ordered
<1>3. s \in Bijection(1..Len(s), Range(s))
  BY <1>1, <1>2 DEF Bijection, Injection, Surjection, IsInjective
<1>4. ExistsBijection(1..Len(s), Range(s))
  BY <1>3 DEF ExistsBijection
<1> QED
  BY <1>1, <1>4, FS_NatBijection, FS_CountingElements

\* No entry of an ordered list is farther than its last.
LEMMA LastIsFarthest ==
  ASSUME NEW s \in Seq(Vectors), Ordered(s), distance \in [Vectors -> Nat],
         NEW w \in Range(s)
  PROVE  /\ s[Len(s)] \in Range(s)
         /\ distance[w] <= distance[s[Len(s)]]
<1>1. Len(s) \in Nat /\ Range(s) = {s[i] : i \in 1..Len(s)}
  BY LenProperties, RangeEquality
<1>2. PICK i \in 1..Len(s) : w = s[i]
  BY <1>1
<1>3. Len(s) \in 1..Len(s) /\ (i = Len(s) \/ i < Len(s))
  BY <1>1, <1>2
<1>4. distance[w] \in Nat
  BY RangeOfSeq
<1>5. distance[w] <= distance[w]
  BY <1>4
<1> QED
  BY <1>1, <1>2, <1>3, <1>5 DEF Ordered

-----------------------------------------------------------------------------
\* What a query works on.
LEMMA InputTypes ==
  ASSUME TypeOK
  PROVE  /\ graph \in [Vectors -> [1..Degree -> Vectors]]
         /\ distance \in [Vectors -> Nat]
         /\ current_L_size \in Nat \ {0}
         /\ list \in Seq(Vectors) /\ Len(list) \in Nat
         /\ Range(list) = {list[i] : i \in 1..Len(list)}
         /\ Range(list) \subseteq Vectors
BY GraphsAssumption, DistancesAssumption, ListSizesAssumption, LenProperties,
   RangeEquality, RangeOfSeq
DEF TypeOK

\* The list with a new candidate: v is in it, unless the list is full of
\* vectors that are no farther, and the list may be one too long.
LEMMA CandidateAdded ==
  ASSUME IInv, Searching, NEW v \in Vectors \ hash
  PROVE  LET s == WithCandidate(v)
         IN  /\ s \in Seq(Vectors) /\ Ordered(s)
             /\ \/ /\ Len(s) = Len(list) + 1
                   /\ Range(s) = Range(list) \union {v}
                \/ /\ Len(list) = current_L_size
                   /\ s = list
                   /\ \A w \in Range(list) : distance[w] <= distance[v]
<1> DEFINE s == WithCandidate(v)
<1>1. Ordered(list) /\ Range(list) \subseteq hash /\ Len(list) <= current_L_size
  BY DEF IInv, ListIsBestOfSeen, Ordered
<1>2. CASE Rejected(v)
  <2>1. s = list
    BY <1>2 DEF WithCandidate
  <2>2. /\ Len(list) = current_L_size
        /\ distance[v] >= distance[list[current_L_size]]
    BY <1>2 DEF Rejected, IInv, TailInv
  <2>3. \A w \in Range(list) : distance[w] <= distance[v]
    <3> SUFFICES ASSUME NEW w \in Range(list)
                 PROVE  distance[w] <= distance[v]
      OBVIOUS
    <3> DEFINE last == list[Len(list)]
    <3>1. last \in Range(list) /\ distance[w] <= distance[last]
      BY <1>1, InputTypes, LastIsFarthest DEF IInv
    <3>2. /\ distance[v] \in Nat /\ distance[w] \in Nat
          /\ distance[last] \in Nat
      BY <3>1, InputTypes DEF IInv
    <3>3. distance[v] >= distance[last]
      BY <2>2
    <3> HIDE DEF last
    <3> QED
      BY <3>1, <3>2, <3>3
  <2> QED
    BY <2>1, <2>2, <2>3, <1>1, InputTypes DEF IInv
<1>3. CASE ~Rejected(v)
  <2>1. s = InsertAt(list, Before(list, v) + 1, v)
    BY <1>3 DEF WithCandidate
  <2>2. v \in Vectors \ Range(list)
    BY <1>1
  <2>3. distance \in [Vectors -> Nat] /\ list \in Seq(Vectors)
    BY InputTypes DEF IInv
  <2> DEFINE t == InsertAt(list, Before(list, v) + 1, v)
  <2>4. /\ t \in Seq(Vectors) /\ Len(t) = Len(list) + 1
        /\ Range(t) = Range(list) \union {v}
        /\ Ordered(t)
    BY <2>2, <2>3, <1>1, InsertKeepsOrder
  <2> HIDE DEF t
  <2>5. s = t
    BY <2>1 DEF t
  <2> QED
    BY <2>4, <2>5
<1> QED
  BY <1>2, <1>3

\* add_to_L() and the cut behind it: the list keeps all that it should, or it
\* is full and the one left out is a farthest.
LEMMA CandidateKept ==
  ASSUME IInv, Searching, NEW v \in Vectors \ hash, Allocate(v),
         Prune(WithCandidate(v), candidate_count + 1)
  PROVE  /\ list' \in Seq(Vectors)
         /\ Ordered(list')
         /\ candidate_count' = Len(list')
         /\ \/ /\ Len(list) < current_L_size
               /\ Len(list') = Len(list) + 1
               /\ Range(list') = Range(list) \union {v}
               /\ UNCHANGED <<visited_count, sorted_tail>>
            \/ /\ Len(list) = current_L_size
               /\ Len(list') = current_L_size
               /\ \E x \in Range(list) \union {v} :
                    /\ Range(list') = (Range(list) \union {v}) \ {x}
                    /\ \A w \in Range(list) \union {v} :
                         distance[w] <= distance[x]
               /\ sorted_tail' = list'[current_L_size]
               /\ visited_count' = Cardinality(visited' \intersect Range(list'))
<1> DEFINE s == WithCandidate(v)
           L == current_L_size
<1>1. /\ s \in Seq(Vectors) /\ Ordered(s)
      /\ \/ /\ Len(s) = Len(list) + 1
            /\ Range(s) = Range(list) \union {v}
         \/ /\ Len(list) = L
            /\ s = list
            /\ \A w \in Range(list) : distance[w] <= distance[v]
  BY CandidateAdded
<1>2. /\ candidate_count = Len(list) /\ Len(list) <= L
      /\ Len(list) \in Nat /\ L \in Nat \ {0} /\ v \notin Range(list)
      /\ v \in Vectors /\ Range(list) \subseteq Vectors
      /\ distance \in [Vectors -> Nat]
  BY InputTypes DEF IInv, CountsMatchList, ListIsBestOfSeen
<1>3. Prune(s, candidate_count + 1)
  OBVIOUS
<1> HIDE DEF s, L
<1>4. CASE Len(list) < L
  <2>1. Len(s) = Len(list) + 1 /\ Range(s) = Range(list) \union {v}
    BY <1>1, <1>2, <1>4
  <2>2. /\ list' = s /\ candidate_count' = candidate_count + 1
        /\ UNCHANGED <<visited_count, sorted_tail>>
    BY <1>2, <1>3, <1>4 DEF Prune, L
  <2> QED
    BY <1>1, <1>2, <1>4, <2>1, <2>2 DEF L
<1>5. CASE Len(list) = L
  <2> DEFINE u == SubSeq(s, 1, L)
  <2>1. Len(s) \in {L, L + 1} /\ L \in 0..Len(s) /\ L \in 1..Len(s)
    BY <1>1, <1>2, <1>5
  <2>2. Min({L, Len(s)}) = L
    <3>1. Len(s) \in Nat /\ L \in Nat /\ L <= Len(s)
      BY <2>1, <1>2
    <3> QED
      BY <3>1, MinOfTwo
  <2>3. /\ list' = u /\ candidate_count' = Len(list') /\ sorted_tail' = s[L]
        /\ visited_count' = Cardinality(visited' \intersect Range(list'))
    <3>1. ~(candidate_count + 1 <= L) /\ Len(s) >= L
      BY <1>2, <1>5, <2>1
    <3>2. /\ list' = SubSeq(s, 1, Min({L, Len(s)}))
          /\ candidate_count' = Len(list')
          /\ sorted_tail' = IF Len(s) >= L THEN s[L] ELSE sorted_tail
          /\ visited_count' = Cardinality(visited' \intersect Range(list'))
      BY <1>3, <3>1 DEF Prune, L
    <3> QED
      BY <2>2, <3>1, <3>2
  <2>4. /\ u \in Seq(Vectors) /\ Len(u) = L /\ Ordered(u)
        /\ \A i \in 1..L : u[i] = s[i]
        /\ Range(u) = {s[i] : i \in 1..L}
    BY <1>1, <2>1, CutKeepsOrder
  <2>5. \E x \in Range(list) \union {v} :
          /\ Range(u) = (Range(list) \union {v}) \ {x}
          /\ \A w \in Range(list) \union {v} : distance[w] <= distance[x]
    <3>1. CASE s = list /\ \A w \in Range(list) : distance[w] <= distance[v]
      <4>1. Range(u) = Range(list)
        BY <1>5, <2>4, <3>1, InputTypes DEF IInv
      <4>2. distance[v] <= distance[v]
        BY <1>2
      <4> QED
        BY <4>1, <4>2, <3>1, <1>2
    <3>2. CASE Len(s) = Len(list) + 1 /\ Range(s) = Range(list) \union {v}
      <4> DEFINE x == s[L + 1]
      <4>1. Range(s) = {s[i] : i \in 1..(L + 1)} /\ Len(s) = L + 1
        BY <1>1, <1>5, <3>2, RangeEquality
      <4>2. \A i \in 1..L : s[i] # x /\ distance[s[i]] <= distance[x]
        BY <1>1, <1>2, <4>1 DEF Ordered
      <4>3. 1..(L + 1) = (1..L) \union {L + 1}
        BY <1>2
      <4>4. Range(s) = Range(u) \union {x} /\ x \notin Range(u)
        BY <4>1, <4>2, <4>3, <2>4
      <4>5. \A w \in Range(u) : distance[w] <= distance[x]
        BY <2>4, <4>2
      <4>6. x \in Range(list) \union {v} /\ distance[x] <= distance[x]
        BY <4>4, <3>2, <1>2
      <4> HIDE DEF x
      <4> QED
        BY <4>4, <4>5, <4>6, <3>2
    <3> QED
      BY <1>1, <3>1, <3>2
  <2>6. s[L] = u[L]
    BY <2>1, <2>4, <1>2
  <2> HIDE DEF u
  <2> QED
    BY <1>5, <2>3, <2>4, <2>5, <2>6 DEF L
<1> QED
  BY <1>2, <1>4, <1>5

-----------------------------------------------------------------------------
\* At power-up the list is empty and no query is running.
LEMMA InitEstablishes == Init => IInv
<1> SUFFICES ASSUME Init PROVE IInv
  OBVIOUS
<1> USE DEF Init
<1>1. TypeOK
  BY DegreeAssumption, LogSizesAssumption, EmptySeq, NullAssumption
  DEF TypeOK
<1>2. /\ EntryInv /\ CountsMatchList /\ ListIsBestOfSeen
      /\ TailInv /\ VisitedInv /\ NeighborInv /\ DoneInv
  BY DEF EntryInv, CountsMatchList, ListIsBestOfSeen, TailInv, VisitedInv,
         NeighborInv, DoneInv, Searching
<1> QED
  BY <1>1, <1>2 DEF IInv

\* The vector that query() looks at next.
LEMMA NeighborType ==
  ASSUME IInv, pc = "neighbors"
  PROVE  /\ p_star \in Vectors /\ neighbor \in 1..Degree
         /\ graph[p_star][neighbor] \in Vectors
<1>1. p_star \in Range(expanded_log) /\ expanded_log \in Seq(Vectors)
  BY DEF IInv, NeighborInv, TypeOK
<1>2. p_star \in Vectors
  BY <1>1, RangeOfSeq
<1> QED
  BY <1>2, InputTypes DEF IInv, TypeOK

\* When query() goes on to the next neighbour, it has met the one before.
LEMMA NextNeighborStep ==
  ASSUME IInv, pc = "neighbors", NextNeighbor,
         hash \subseteq hash', graph[p_star][neighbor] \in hash'
  PROVE  /\ NeighborInv' /\ EntryInv' /\ DoneInv'
         /\ pc' \in {"neighbors", "select"} /\ neighbor' \in 1..Degree
<1>1. neighbor \in 1..Degree /\ Degree \in Nat
  BY NeighborType, DegreeAssumption
<1>2. /\ UNCHANGED <<graph, distance, current_L_size, expanded_log, p_star>>
      /\ \/ neighbor < Degree /\ pc' = "neighbors" /\ neighbor' = neighbor + 1
         \/ neighbor = Degree /\ pc' = "select" /\ neighbor' = 1
  BY <1>1 DEF NextNeighbor, input
<1>3. \A w \in Range(expanded_log), i \in 1..Degree :
        \/ graph[w][i] \in hash
        \/ w = p_star /\ i >= neighbor
  <2>1. NeighborInv /\ pc = "neighbors"
    BY DEF IInv
  <2>2. \A w \in Range(expanded_log), i \in 1..Degree :
          \/ graph[w][i] \in hash
          \/ pc = "neighbors" /\ w = p_star /\ i >= neighbor
    BY <2>1 DEF NeighborInv, Searching
  <2> QED
    BY <2>2, Zenon
<1>4. \A w \in Range(expanded_log), i \in 1..Degree :
        \/ graph[w][i] \in hash'
        \/ w = p_star /\ i >= neighbor + 1
  BY <1>1, <1>3
<1>5. \A w \in Range(expanded_log), i \in 1..Degree :
        \/ graph[w][i] \in hash'
        \/ pc' = "neighbors" /\ w = p_star /\ i >= neighbor'
  BY <1>1, <1>2, <1>4
<1>6. p_star \in Range(expanded_log)
  BY DEF IInv, NeighborInv
<1>7. NeighborInv'
  BY <1>2, <1>5, <1>6 DEF NeighborInv
<1> QED
  BY <1>1, <1>2, <1>7 DEF EntryInv, DoneInv

\* A neighbour that is known: the cut behind it finds nothing to cut.
LEMMA DuplicateStep ==
  ASSUME IInv, NEW v, v = graph[p_star][neighbor], Duplicate(v)
  PROVE  IInv'
<1>1. /\ pc = "neighbors" /\ v \in hash /\ NextNeighbor
      /\ UNCHANGED <<log_head, hash, visited>>
      /\ Prune(list, candidate_count)
  BY DEF Duplicate
<1>2. candidate_count <= current_L_size
  BY <1>1 DEF IInv, CountsMatchList, ListIsBestOfSeen, Searching
<1>3. UNCHANGED <<list, candidate_count, visited_count, sorted_tail>>
  <2>1. candidate_count \in Nat /\ current_L_size \in Nat
    BY InputTypes DEF IInv, TypeOK
  <2>2. ~(candidate_count > current_L_size)
    BY <1>2, <2>1
  <2> QED
    BY <1>1, <2>2 DEF Prune
<1>4. /\ NeighborInv' /\ EntryInv' /\ DoneInv'
      /\ pc' \in {"neighbors", "select"} /\ neighbor' \in 1..Degree
  BY <1>1, NextNeighborStep
<1>5. UNCHANGED <<graph, distance, current_L_size, expanded_log, p_star>>
  BY <1>1 DEF NextNeighbor, input
<1>6. TypeOK'
  BY <1>1, <1>3, <1>4, <1>5 DEF IInv, TypeOK
<1>7. CountsMatchList' /\ ListIsBestOfSeen' /\ TailInv' /\ VisitedInv'
  BY <1>1, <1>3, <1>5
  DEF IInv, CountsMatchList, ListIsBestOfSeen, TailInv, VisitedInv,
      ExpandedOnce, Searching
<1> QED
  BY <1>4, <1>6, <1>7 DEF IInv

\* The one step that changes the list: nothing is lost that should be in it.
LEMMA AddStep ==
  ASSUME IInv, NEW v, v = graph[p_star][neighbor], Add(v)
  PROVE  IInv'
<1>1. /\ pc = "neighbors" /\ v \notin hash /\ Allocate(v) /\ NextNeighbor
      /\ Prune(WithCandidate(v), candidate_count + 1)
      /\ Searching
  BY DEF Add, Searching
<1>2. v \in Vectors \ hash
  BY <1>1, NeighborType
<1>3. /\ log_head' \in 0..Capacity /\ hash' = hash \union {v}
      /\ visited' = visited \ {v}
  BY <1>1, LogSizesAssumption DEF Allocate, IInv, TypeOK
<1>4. UNCHANGED <<graph, distance, current_L_size, expanded_log, p_star>>
  BY <1>1 DEF NextNeighbor, input
<1>5. /\ NeighborInv' /\ EntryInv' /\ DoneInv'
      /\ pc' \in {"neighbors", "select"} /\ neighbor' \in 1..Degree
  BY <1>1, <1>3, NextNeighborStep
<1> DEFINE L == current_L_size
           kept == Range(list)
<1>6. /\ list' \in Seq(Vectors)
      /\ Ordered(list')
      /\ candidate_count' = Len(list')
      /\ \/ /\ Len(list) < L
            /\ Len(list') = Len(list) + 1
            /\ Range(list') = kept \union {v}
            /\ UNCHANGED <<visited_count, sorted_tail>>
         \/ /\ Len(list) = L
            /\ Len(list') = L
            /\ \E x \in kept \union {v} :
                 /\ Range(list') = (kept \union {v}) \ {x}
                 /\ \A w \in kept \union {v} : distance[w] <= distance[x]
            /\ sorted_tail' = list'[L]
            /\ visited_count' = Cardinality(visited' \intersect Range(list'))
  BY <1>1, <1>2, CandidateKept
<1>7. /\ distance \in [Vectors -> Nat] /\ L \in Nat \ {0} /\ Len(list) \in Nat
      /\ kept \subseteq Vectors /\ kept \subseteq hash /\ Len(list) <= L
      /\ visited_count = Cardinality(visited \intersect kept)
      /\ hash \subseteq Vectors /\ visited \subseteq Vectors
  BY <1>1, InputTypes
  DEF IInv, CountsMatchList, ListIsBestOfSeen, Searching, TypeOK
<1> HIDE DEF L, kept
<1>8. visited_count' = Cardinality(visited' \intersect Range(list'))
  <2>1. CASE Len(list) < L
    <3>1. visited' \intersect Range(list') = visited \intersect kept
      BY <1>2, <1>3, <1>6, <1>7, <2>1
    <3> QED
      BY <1>6, <1>7, <2>1, <3>1
  <2> QED
    BY <1>6, <1>7, <2>1
<1>9. Len(list') \in Nat /\ Len(list') <= L /\ Range(list') \subseteq hash'
  BY <1>3, <1>6, <1>7
<1>10. \A w \in hash' \ Range(list') :
         Len(list') = L /\ distance[w] >= distance[list'[Len(list')]]
  <2> SUFFICES ASSUME NEW w \in hash' \ Range(list')
               PROVE  /\ Len(list') = L
                      /\ distance[w] >= distance[list'[Len(list')]]
    OBVIOUS
  <2>1. CASE Len(list) < L
    <3>1. w \in hash \ kept
      BY <1>3, <1>6, <1>7, <2>1
    <3>2. Len(list) = L
      BY <1>1, <3>1 DEF IInv, ListIsBestOfSeen, L, kept
    <3> QED
      BY <3>2, <2>1, <1>7
  <2>2. CASE Len(list) = L
    <3>1. PICK x \in kept \union {v} :
            /\ Range(list') = (kept \union {v}) \ {x}
            /\ \A y \in kept \union {v} : distance[y] <= distance[x]
      BY <1>6, <1>7, <2>2
    <3> DEFINE last == list'[L]
    <3>2. Len(list') = L /\ last \in Range(list') /\ last \in Vectors
      <4>1. Len(list') = L /\ L \in 1..Len(list')
        BY <1>6, <1>7, <2>2
      <4> QED
        BY <4>1, <1>6, ElementOfSeq, RangeEquality
    <3>3. w = x \/ w \in hash \ kept
      BY <1>3, <3>1
    <3>4. distance[last] <= distance[x] /\ x \in Vectors
      BY <3>1, <3>2, <1>2, <1>7
    <3>5. CASE w \in hash \ kept
      <4> DEFINE old == list[Len(list)]
      <4>1. distance[w] >= distance[old]
        BY <1>1, <3>5 DEF IInv, ListIsBestOfSeen, kept
      <4>2. old \in kept /\ old \in Vectors
        <5>1. Len(list) \in 1..Len(list)
          BY <2>2, <1>7
        <5> QED
          BY <5>1, <1>7, InputTypes DEF IInv, kept
      <4>3. last \in kept \/ last = v
        BY <3>1, <3>2
      <4>5. \A y \in kept : distance[y] <= distance[old]
        <5>1. list \in Seq(Vectors) /\ Ordered(list)
          BY <1>1, InputTypes DEF IInv, ListIsBestOfSeen, Ordered
        <5> QED
          BY <5>1, <1>7, LastIsFarthest DEF kept
      <4>6. distance[last] <= distance[old]
        <5>1. CASE x \in kept
          <6>1. distance[x] <= distance[old]
            BY <5>1, <4>5
          <6>2. /\ distance[x] \in Nat /\ distance[old] \in Nat
                /\ distance[last] \in Nat
            BY <1>7, <3>2, <3>4, <4>2
          <6> HIDE DEF old, last
          <6> QED
            BY <6>1, <6>2, <3>4
        <5>2. CASE x \notin kept
          <6>1. last \in kept
            BY <5>2, <4>3, <3>1, <3>2
          <6> QED
            BY <6>1, <4>5
        <5> QED
          BY <5>1, <5>2
      <4>7. /\ distance[w] \in Nat /\ distance[old] \in Nat
            /\ distance[last] \in Nat
        BY <1>7, <3>2, <3>5, <4>2
      <4> HIDE DEF old, last
      <4> QED
        BY <4>1, <4>6, <4>7, <3>2 DEF last
    <3>6. CASE w = x
      <4>1. distance[w] \in Nat /\ distance[last] \in Nat
        BY <1>7, <3>2, <3>4, <3>6
      <4> QED
        BY <3>2, <3>4, <3>6, <4>1
    <3> QED
      BY <3>3, <3>5, <3>6
  <2> QED
    BY <1>7, <2>1, <2>2
<1>11. list' \in Seq(Vectors) /\ Ordered(list')
  BY <1>6
<1>12. ListIsBestOfSeen'
  <2>1. \A i, j \in 1..Len(list') :
          i < j => /\ list'[i] # list'[j]
                   /\ distance'[list'[i]] <= distance'[list'[j]]
    BY <1>11, <1>4 DEF Ordered
  <2>2. Len(list') <= current_L_size' /\ Range(list') \subseteq hash'
    BY <1>4, <1>9 DEF L
  <2>3. \A w \in hash' \ Range(list') :
          /\ Len(list') = current_L_size'
          /\ distance'[w] >= distance'[list'[Len(list')]]
    BY <1>4, <1>10 DEF L
  <2> QED
    BY <2>1, <2>2, <2>3 DEF ListIsBestOfSeen
<1>13. CountsMatchList'
  BY <1>6, <1>8 DEF CountsMatchList
<1>14. TailInv'
  <2>1. CASE Len(list) < L
    <3>1. Len(list) # L
      BY <2>1, <1>7
    <3>2. sorted_tail = Null
      BY <3>1, <1>1 DEF IInv, TailInv, L
    <3>3. sorted_tail' = sorted_tail
      BY <1>6, <3>1
    <3> QED
      BY <3>2, <3>3 DEF TailInv
  <2>2. CASE Len(list) = L
    <3>1. ~(Len(list) < L)
      BY <2>2, <1>7
    <3>2. Len(list') = current_L_size' /\ sorted_tail' = list'[current_L_size']
      BY <1>4, <1>6, <3>1 DEF L
    <3> QED
      BY <3>2 DEF TailInv
  <2> QED
    BY <1>7, <2>1, <2>2
<1>15. VisitedInv'
  <2>1. Range(expanded_log) = visited \intersect hash /\ ExpandedOnce
    BY <1>1 DEF IInv, VisitedInv
  <2>2. visited' \intersect hash' = visited \intersect hash
    BY <1>2, <1>3
  <2>3. Range(expanded_log)' = visited' \intersect hash'
    BY <2>1, <2>2, <1>4
  <2>4. ExpandedOnce'
    BY <2>1, <1>1, <1>4 DEF ExpandedOnce
  <2> QED
    BY <2>3, <2>4 DEF VisitedInv
<1>16. TypeOK'
  <2>1. hash' \subseteq Vectors /\ visited' \subseteq Vectors
    BY <1>2, <1>3, <1>7
  <2>2. candidate_count' \in Nat
    BY <1>6, <1>9
  <2>3. visited_count' \in Nat
    <3>1. IsFiniteSet(visited' \intersect Range(list'))
      BY <2>1, VectorsAssumption, FS_Subset
    <3> QED
      BY <3>1, <1>8, FS_CardinalityType
  <2>4. sorted_tail' \in Vectors \union {Null}
    <3>1. CASE Len(list) < L
      <4>1. sorted_tail' = sorted_tail
        BY <1>6, <1>7, <3>1
      <4> QED
        BY <4>1 DEF IInv, TypeOK
    <3>2. CASE Len(list) = L
      <4>1. L \in 1..Len(list') /\ sorted_tail' = list'[L]
        BY <1>6, <1>7, <3>2
      <4> QED
        BY <4>1, <1>11, ElementOfSeq
    <3> QED
      BY <1>7, <3>1, <3>2
  <2>5. /\ graph' \in Graphs /\ distance' \in Distances
        /\ current_L_size' \in ListSizes
        /\ expanded_log' \in Seq(Vectors) /\ Len(expanded_log') <= MaxExpanded
        /\ p_star' \in Vectors \union {Null}
    BY <1>4 DEF IInv, TypeOK
  <2> QED
    BY <1>3, <1>5, <1>11, <2>1, <2>2, <2>3, <2>4, <2>5 DEF TypeOK
<1> QED
  BY <1>5, <1>12, <1>13, <1>14, <1>15, <1>16 DEF IInv

\* get_closest_unvisited() finds an unvisited entry, and none is closer.
LEMMA ClosestIsFirst ==
  ASSUME list \in Seq(Vectors), Ordered(list), distance \in [Vectors -> Nat],
         Unvisited # {}
  PROVE  /\ ClosestUnvisited \in Range(list) \ visited
         /\ \A w \in Range(list) \ visited :
              distance[ClosestUnvisited] <= distance[w]
<1>1. /\ Len(list) \in Nat /\ Range(list) = {list[i] : i \in 1..Len(list)}
      /\ Range(list) \subseteq Vectors
  BY LenProperties, RangeEquality, RangeOfSeq
<1>2. Unvisited \in SUBSET Nat
  BY <1>1 DEF Unvisited
<1> DEFINE k == Min(Unvisited)
<1>3. k \in Unvisited /\ \A i \in Unvisited : k <= i
  BY <1>2, MinIsLeast
<1> HIDE DEF k
<1>4. k \in 1..Len(list) /\ list[k] \notin visited
  BY <1>3 DEF Unvisited
<1>5. ClosestUnvisited = list[k]
  BY DEF ClosestUnvisited, k
<1>6. list[k] \in Range(list)
  BY <1>1, <1>4
<1>7. \A i \in Unvisited : distance[list[k]] <= distance[list[i]]
  <2> SUFFICES ASSUME NEW i \in Unvisited
               PROVE  distance[list[k]] <= distance[list[i]]
    OBVIOUS
  <2>1. i \in 1..Len(list) /\ k <= i
    BY <1>3 DEF Unvisited
  <2>2. k = i \/ k < i
    BY <1>4, <2>1
  <2>3. distance[list[k]] <= distance[list[k]]
    <3>1. distance[list[k]] \in Nat
      BY <1>1, <1>6
    <3> QED
      BY <3>1
  <2> QED
    BY <1>1, <1>4, <2>1, <2>2, <2>3 DEF Ordered
<1>8. \A w \in Range(list) \ visited : \E i \in Unvisited : w = list[i]
  BY <1>1 DEF Unvisited
<1> QED
  BY <1>4, <1>5, <1>6, <1>7, <1>8

\* It has not been expanded in this query.
LEMMA ExpandChooses ==
  ASSUME IInv, Searching, Unvisited # {}
  PROVE  /\ ClosestUnvisited \in Range(list) \ visited
         /\ ClosestUnvisited \in (hash \ Range(expanded_log)) \intersect Vectors
         /\ \A w \in Range(list) \ visited :
              distance[ClosestUnvisited] <= distance[w]
<1>1. /\ list \in Seq(Vectors) /\ Ordered(list) /\ distance \in [Vectors -> Nat]
      /\ Range(list) \subseteq Vectors /\ Range(list) \subseteq hash
  BY InputTypes DEF IInv, ListIsBestOfSeen, Ordered
<1>2. /\ ClosestUnvisited \in Range(list) \ visited
      /\ \A w \in Range(list) \ visited :
           distance[ClosestUnvisited] <= distance[w]
  BY <1>1, ClosestIsFirst
<1>3. Range(expanded_log) = visited \intersect hash
  BY DEF IInv, VisitedInv
<1> QED
  BY <1>1, <1>2, <1>3

\* The flag and the counter of the candidate that is expanded.
LEMMA VisitedCountsOn ==
  ASSUME visited \subseteq Vectors,
         visited_count = Cardinality(visited \intersect Range(list)),
         NEW p \in (Vectors \intersect Range(list)) \ visited, MarkVisited(p)
  PROVE  /\ visited' = visited \union {p}
         /\ visited' \subseteq Vectors
         /\ visited_count' \in Nat
         /\ visited_count' = Cardinality(visited' \intersect Range(list))
<1> DEFINE flagged == visited \intersect Range(list)
<1>1. visited' = visited \union {p} /\ visited_count' = visited_count + 1
  BY DEF MarkVisited
<1>2. IsFiniteSet(flagged)
  BY VectorsAssumption, FS_Subset
<1>3. p \notin flagged /\ visited' \intersect Range(list) = flagged \union {p}
  BY <1>1
<1>4. visited_count = Cardinality(flagged)
  OBVIOUS
<1> HIDE DEF flagged
<1>5. Cardinality(flagged \union {p}) = Cardinality(flagged) + 1
  BY <1>2, <1>3, FS_AddElement
<1>6. Cardinality(flagged) \in Nat
  BY <1>2, FS_CardinalityType
<1> QED
  BY <1>1, <1>3, <1>4, <1>5, <1>6

\* One more entry of expanded_log.
LEMMA AppendedLog ==
  ASSUME NEW s \in Seq(Vectors), NEW p \in Vectors
  PROVE  Range(Append(s, p)) = Range(s) \union {p}
<1> DEFINE t == Append(s, p)
<1>1. /\ t \in Seq(Vectors) /\ Len(t) = Len(s) + 1
      /\ \A i \in 1..Len(s) : t[i] = s[i]
      /\ t[Len(s) + 1] = p
  BY AppendProperties
<1> HIDE DEF t
<1>2. Range(s) = {s[i] : i \in 1..Len(s)}
  BY RangeEquality
<1>3. Range(t) = {t[i] : i \in 1..(Len(s) + 1)}
  <2>1. Range(t) = {t[i] : i \in 1..Len(t)}
    BY <1>1, RangeEquality
  <2> QED
    BY <1>1, <2>1
<1>4. Range(t) = Range(s) \union {p}
  <2>1. 1..(Len(s) + 1) = (1..Len(s)) \union {Len(s) + 1}
    BY LenProperties
  <2> QED
    BY <1>1, <1>2, <1>3, <2>1
<1> QED
  BY <1>4 DEF t

\* The candidate that is expanded is noted once, and its flag counted.
LEMMA ExpandStep ==
  ASSUME IInv, Expand
  PROVE  IInv'
<1> DEFINE p == ClosestUnvisited
<1>1. /\ pc = "select" /\ Searching /\ Unvisited # {} /\ LogHasRoom
      /\ pc' = "neighbors" /\ p_star' = p /\ neighbor' = 1
      /\ MarkVisited(p)
      /\ expanded_log' = Append(expanded_log, p)
      /\ UNCHANGED <<input, log_head, hash, list, candidate_count, sorted_tail>>
  BY DEF Expand, CanExpand, Searching
<1>2. /\ p \in (hash \ Range(expanded_log)) \intersect Vectors
      /\ p \in Range(list) \ visited
  BY <1>1, ExpandChooses
<1>3. /\ visited' = visited \union {p}
      /\ visited' \subseteq Vectors
      /\ visited_count' \in Nat
      /\ visited_count' = Cardinality(visited' \intersect Range(list))
  <2>1. /\ visited \subseteq Vectors
        /\ visited_count = Cardinality(visited \intersect Range(list))
    BY <1>1 DEF IInv, TypeOK, CountsMatchList
  <2> HIDE DEF p
  <2> QED
    BY <1>1, <1>2, <2>1, VisitedCountsOn
<1> HIDE DEF p
<1>4. expanded_log \in Seq(Vectors) /\ Len(expanded_log) \in Nat
  BY LenProperties DEF IInv, TypeOK
<1> DEFINE n == Len(expanded_log)
<1>5. /\ expanded_log' \in Seq(Vectors) /\ Len(expanded_log') = n + 1
      /\ \A i \in 1..n : expanded_log'[i] = expanded_log[i]
      /\ expanded_log'[n + 1] = p
  BY <1>1, <1>2, <1>4, AppendProperties
<1>6. Range(expanded_log) = {expanded_log[i] : i \in 1..n}
  BY <1>4, RangeEquality
<1>7. 1..(n + 1) = (1..n) \union {n + 1}
  BY <1>4
<1>8. Range(expanded_log') = Range(expanded_log) \union {p}
  BY <1>1, <1>2, <1>4, AppendedLog
<1>9. UNCHANGED <<graph, distance, current_L_size, hash, list, log_head,
                  candidate_count, sorted_tail>>
  BY <1>1 DEF input
<1>10. TypeOK'
  <2>1. Len(expanded_log') <= MaxExpanded
    BY <1>1, <1>4, <1>5, LogSizesAssumption DEF LogHasRoom
  <2>2. neighbor' \in 1..Degree
    BY <1>1, DegreeAssumption
  <2>3. /\ graph \in Graphs /\ distance \in Distances
        /\ current_L_size \in ListSizes /\ log_head \in 0..Capacity
        /\ hash \subseteq Vectors /\ list \in Seq(Vectors)
        /\ candidate_count \in Nat /\ sorted_tail \in Vectors \union {Null}
    BY DEF IInv, TypeOK
  <2> QED
    BY <1>1, <1>2, <1>3, <1>5, <1>9, <2>1, <2>2, <2>3 DEF TypeOK
<1>11. CountsMatchList' /\ ListIsBestOfSeen' /\ TailInv'
  BY <1>1, <1>3, <1>9
  DEF IInv, CountsMatchList, ListIsBestOfSeen, TailInv, Searching
<1>12. VisitedInv'
  <2>1. Range(expanded_log) = visited \intersect hash /\ ExpandedOnce
    BY <1>1 DEF IInv, VisitedInv
  <2>2. Range(expanded_log') = visited' \intersect hash'
    BY <2>1, <1>2, <1>3, <1>8, <1>9
  <2>3. \A i, j \in 1..n : expanded_log[i] = expanded_log[j] => i = j
    BY <2>1, <1>1 DEF ExpandedOnce
  <2>4. \A i \in 1..n : expanded_log[i] # p
    BY <1>2, <1>6
  <2>5. \A i, j \in 1..(n + 1) : expanded_log'[i] = expanded_log'[j] => i = j
    BY <1>5, <1>7, <2>3, <2>4
  <2> QED
    BY <1>5, <2>2, <2>5 DEF VisitedInv, ExpandedOnce
<1>13. NeighborInv'
  <2>1. \A w \in Range(expanded_log), i \in 1..Degree : graph[w][i] \in hash
    BY <1>1 DEF IInv, NeighborInv, Searching
  <2>2. \A i \in 1..Degree : i >= 1
    BY DegreeAssumption
  <2>3. \A w \in Range(expanded_log'), i \in 1..Degree :
          \/ graph[w][i] \in hash
          \/ w = p_star' /\ i >= neighbor'
    BY <2>1, <2>2, <1>1, <1>8
  <2>4. p_star' \in Range(expanded_log')
    BY <1>1, <1>8
  <2> QED
    BY <1>1, <1>9, <2>3, <2>4 DEF NeighborInv
<1>14. EntryInv' /\ DoneInv'
  BY <1>1 DEF EntryInv, DoneInv
<1> QED
  BY <1>10, <1>11, <1>12, <1>13, <1>14 DEF IInv

\* query() returns with every entry of the list flagged, whichever of its two
\* tests ends the loop.
LEMMA AllVisited ==
  ASSUME IInv, Searching, ~CanExpand
  PROVE  Range(list) \subseteq visited
<1>1. /\ list \in Seq(Vectors) /\ Len(list) \in Nat
      /\ Range(list) = {list[i] : i \in 1..Len(list)}
      /\ Ordered(list)
  BY InputTypes DEF IInv, ListIsBestOfSeen, Ordered
<1>2. CASE Unvisited = {}
  BY <1>1, <1>2 DEF Unvisited
<1>3. CASE ~(candidate_count > visited_count)
  <2> DEFINE flagged == visited \intersect Range(list)
  <2>1. /\ candidate_count = Len(list) /\ visited_count = Cardinality(flagged)
        /\ candidate_count \in Nat /\ visited_count \in Nat
    BY DEF IInv, CountsMatchList, TypeOK
  <2>2. IsFiniteSet(Range(list)) /\ Cardinality(Range(list)) = Len(list)
    BY <1>1, OrderedCardinality
  <2>3. flagged \subseteq Range(list)
    OBVIOUS
  <2> HIDE DEF flagged
  <2>4. /\ Cardinality(flagged) <= Cardinality(Range(list))
        /\ Cardinality(flagged) = Cardinality(Range(list))
             => flagged = Range(list)
    BY <2>2, <2>3, FS_Subset
  <2>5. Cardinality(flagged) = Cardinality(Range(list))
    BY <1>3, <2>1, <2>2, <2>4
  <2> QED
    BY <2>4, <2>5 DEF flagged
<1> QED
  BY <1>2, <1>3 DEF CanExpand

\* The end of the loop of query().
LEMMA FinishStep ==
  ASSUME IInv, Finish
  PROVE  IInv'
<1>1. /\ pc = "select" /\ Searching /\ ~CanExpand /\ pc' = "done"
      /\ UNCHANGED <<input, log_head, hash, list, visited, counts,
                     expanded_log, p_star, neighbor>>
  BY DEF Finish, Searching
<1>2. UNCHANGED <<graph, distance, current_L_size, log_head, hash, list,
                  visited, candidate_count, visited_count, sorted_tail,
                  expanded_log, p_star, neighbor>>
  BY <1>1 DEF input, counts
<1>3. DoneInv'
  BY <1>1, <1>2, AllVisited DEF DoneInv
<1>4. TypeOK'
  BY <1>1, <1>2 DEF IInv, TypeOK
<1>5. CountsMatchList' /\ ListIsBestOfSeen' /\ TailInv' /\ VisitedInv'
  BY <1>1, <1>2
  DEF IInv, CountsMatchList, ListIsBestOfSeen, TailInv, VisitedInv,
      ExpandedOnce, Searching
<1>6. NeighborInv' /\ EntryInv'
  BY <1>1, <1>2 DEF IInv, NeighborInv, EntryInv, Searching
<1> QED
  BY <1>3, <1>4, <1>5, <1>6 DEF IInv

\* The entry vector goes into an empty list.
LEMMA EntryAdded ==
  ASSUME EntryInv, AddEntry
  PROVE  /\ hash' = {Entry} /\ list' = <<Entry>> /\ Range(list') = {Entry}
         /\ candidate_count' = 1 /\ visited_count' = 0 /\ sorted_tail' = Null
         /\ visited' = visited \ {Entry} /\ expanded_log' = <<>>
         /\ log_head' \in 0..Capacity /\ pc' = "select"
         /\ UNCHANGED <<graph, distance, current_L_size, p_star, neighbor>>
<1>1. /\ log_head = 0 /\ hash = {} /\ list = <<>> /\ expanded_log = <<>>
      /\ candidate_count = 0 /\ visited_count = 0 /\ sorted_tail = Null
  BY DEF AddEntry, EntryInv
<1>2. list' = WithCandidate(Entry) /\ Allocate(Entry)
  BY DEF AddEntry
<1>3. Before(list, Entry) = 0 /\ ~Rejected(Entry)
  BY <1>1 DEF Before, Rejected
<1>4. list' = <<Entry>>
  <2>1. list' = InsertAt(<<>>, 1, Entry)
    BY <1>1, <1>2, <1>3 DEF WithCandidate
  <2> DEFINE e == SubSeq(<<>>, 1, 0)
             b == SubSeq(<<>>, 1, Len(<<>>))
  <2>2. list' = e \o <<Entry>> \o b
    BY <2>1 DEF InsertAt
  <2>3. e = <<>> /\ b = <<>>
    OBVIOUS
  <2>4. <<>> \o <<Entry>> \o <<>> = <<Entry>>
    OBVIOUS
  <2> HIDE DEF e, b
  <2> QED
    BY <2>2, <2>3, <2>4
<1>5. Range(list') = {Entry}
  <2>1. <<Entry>> \in Seq(Vectors) /\ Len(<<Entry>>) = 1 /\ <<Entry>>[1] = Entry
    BY VectorsAssumption
  <2>2. Range(<<Entry>>) = {<<Entry>>[i] : i \in 1..Len(<<Entry>>)}
    BY <2>1, RangeEquality
  <2> QED
    BY <1>4, <2>1, <2>2
<1>6. /\ hash' = {Entry} /\ visited' = visited \ {Entry}
      /\ log_head' \in 0..Capacity
  BY <1>1, <1>2, LogSizesAssumption DEF Allocate
<1>7. /\ candidate_count' = 1 /\ visited_count' = 0 /\ sorted_tail' = Null
      /\ expanded_log' = <<>> /\ pc' = "select"
      /\ UNCHANGED <<graph, distance, current_L_size, p_star, neighbor>>
  BY <1>1 DEF AddEntry, input
<1> QED
  BY <1>4, <1>5, <1>6, <1>7

\* An empty log holds nothing.
LEMMA NoneInEmpty == Range(<<>>) = {}
<1>1. <<>> \in Seq(Vectors) /\ Len(<<>>) = 0
  OBVIOUS
<1>2. Range(<<>>) = {<<>>[i] : i \in 1..Len(<<>>)}
  BY <1>1, RangeEquality
<1> QED
  BY <1>1, <1>2

\* The entry vector is the whole list, and not flagged.
LEMMA AddEntryStep ==
  ASSUME IInv, AddEntry
  PROVE  IInv'
<1>1. /\ hash' = {Entry} /\ list' = <<Entry>> /\ Range(list') = {Entry}
      /\ candidate_count' = 1 /\ visited_count' = 0 /\ sorted_tail' = Null
      /\ visited' = visited \ {Entry} /\ expanded_log' = <<>>
      /\ log_head' \in 0..Capacity /\ pc' = "select"
      /\ UNCHANGED <<graph, distance, current_L_size, p_star, neighbor>>
  BY EntryAdded DEF IInv
<1>2. Len(list') = 1 /\ list'[1] = Entry /\ Len(expanded_log') = 0
  BY <1>1
<1>3. TypeOK'
  <2>1. /\ graph \in Graphs /\ distance \in Distances
        /\ current_L_size \in ListSizes /\ visited \subseteq Vectors
        /\ p_star \in Vectors \union {Null} /\ neighbor \in 1..Degree
    BY DEF IInv, TypeOK
  <2>2. /\ list' \in Seq(Vectors) /\ hash' \subseteq Vectors
        /\ expanded_log' \in Seq(Vectors) /\ Len(expanded_log') <= MaxExpanded
    BY <1>1, <1>2, VectorsAssumption, LogSizesAssumption
  <2> QED
    BY <1>1, <2>1, <2>2 DEF TypeOK
<1>4. CountsMatchList'
  <2>1. visited' \intersect Range(list') = {}
    BY <1>1
  <2> QED
    BY <1>1, <1>2, <2>1, FS_EmptySet DEF CountsMatchList
<1>5. ListIsBestOfSeen'
  <2>1. current_L_size' \in Nat \ {0}
    BY <1>1, InputTypes DEF IInv
  <2> QED
    BY <1>1, <1>2, <2>1 DEF ListIsBestOfSeen
<1>6. VisitedInv'
  <2>1. Range(expanded_log') = {}
    BY <1>1, NoneInEmpty
  <2>2. visited' \intersect hash' = {}
    BY <1>1
  <2> QED
    BY <1>2, <2>1, <2>2 DEF VisitedInv, ExpandedOnce
<1>7. NeighborInv'
  <2>1. Range(expanded_log') = {}
    BY <1>1, NoneInEmpty
  <2> QED
    BY <1>1, <2>1 DEF NeighborInv
<1>8. TailInv' /\ EntryInv' /\ DoneInv'
  BY <1>1 DEF TailInv, EntryInv, DoneInv
<1> QED
  BY <1>3, <1>4, <1>5, <1>6, <1>7, <1>8 DEF IInv

\* A query starts with everything reset but the flags.
LEMMA InitSearchLogStep ==
  ASSUME IInv, NEW d \in Distances, NEW l \in ListSizes, InitSearchLog(d, l)
  PROVE  IInv'
<1>1. TypeOK'
  BY EmptySeq, LogSizesAssumption DEF IInv, TypeOK, InitSearchLog
<1> QED
  BY <1>1
  DEF InitSearchLog, IInv, EntryInv, CountsMatchList, ListIsBestOfSeen,
      TailInv, VisitedInv, NeighborInv, DoneInv, Searching

\* Nothing is promised of a search that stopped half way but its types.
LEMMA BrokenOff ==
  ASSUME TypeOK', pc' \in {"idle", "halted"}
  PROVE  IInv'
BY DEF IInv, EntryInv, CountsMatchList, ListIsBestOfSeen, TailInv, VisitedInv,
       NeighborInv, DoneInv, Searching

\* A log that is full, and a power failure anywhere.
LEMMA BreakOffStep ==
  ASSUME IInv,
         ExpandedLogFull \/ PowerFail \/ \E v \in Vectors : SearchLogFull(v)
  PROVE  IInv'
<1>1. CASE ExpandedLogFull
  <2>1. Searching /\ Unvisited # {} /\ MarkVisited(ClosestUnvisited)
    BY <1>1 DEF ExpandedLogFull, CanExpand, Searching
  <2>2. /\ ClosestUnvisited \in Vectors
        /\ visited' \subseteq Vectors /\ visited_count' \in Nat
    <3>1. ClosestUnvisited \in (Vectors \intersect Range(list)) \ visited
      BY <2>1, ExpandChooses
    <3>2. /\ visited \subseteq Vectors
          /\ visited_count = Cardinality(visited \intersect Range(list))
      BY <2>1 DEF IInv, TypeOK, CountsMatchList
    <3> QED
      BY <2>1, <3>1, <3>2, VisitedCountsOn
  <2>3. TypeOK'
    BY <1>1, <2>2 DEF ExpandedLogFull, IInv, TypeOK, input
  <2> QED
    BY <1>1, <2>3, BrokenOff DEF ExpandedLogFull
<1>2. CASE PowerFail
  <2>1. 1 \in 1..Degree
    BY DegreeAssumption
  <2>2. TypeOK'
    BY <1>2, <2>1 DEF PowerFail, IInv, TypeOK, input, counts
  <2> QED
    BY <1>2, <2>2, BrokenOff DEF PowerFail
<1>3. ASSUME NEW v \in Vectors, SearchLogFull(v) PROVE IInv'
  <2>1. TypeOK'
    BY <1>3 DEF SearchLogFull, IInv, TypeOK, input, counts
  <2> QED
    BY <1>3, <2>1, BrokenOff DEF SearchLogFull
<1> QED
  BY <1>1, <1>2, <1>3

\* The invariant only speaks of the variables.
LEMMA StutterStep == IInv /\ UNCHANGED vars => IInv'
BY DEF vars, input, counts, IInv, TypeOK, EntryInv, CountsMatchList,
       ListIsBestOfSeen, TailInv, VisitedInv, ExpandedOnce, NeighborInv,
       DoneInv, Searching

\* Every step of query() and every power failure keeps the invariant.
LEMMA StepPreserves == IInv /\ [Next]_vars => IInv'
<1> SUFFICES ASSUME IInv, [Next]_vars PROVE IInv'
  OBVIOUS
<1>1. ASSUME NEW d \in Distances, NEW l \in ListSizes, InitSearchLog(d, l)
      PROVE  IInv'
  BY <1>1, InitSearchLogStep
<1>2. CASE AddEntry
  BY <1>2, AddEntryStep
<1>3. CASE Expand
  BY <1>3, ExpandStep
<1>4. CASE Finish
  BY <1>4, FinishStep
<1>5. CASE ExpandedLogFull \/ PowerFail
  BY <1>5, BreakOffStep
<1>6. CASE p_star # Null /\ LookAt(graph[p_star][neighbor])
  <2> DEFINE v == graph[p_star][neighbor]
  <2>1. CASE Duplicate(v)
    BY <2>1, DuplicateStep
  <2>2. CASE Add(v)
    BY <2>2, AddStep
  <2>3. CASE SearchLogFull(v)
    <3>1. v \in Vectors
      BY <2>3, NeighborType DEF SearchLogFull
    <3> HIDE DEF v
    <3> QED
      BY <2>3, <3>1, BreakOffStep
  <2> QED
    BY <1>6, <2>1, <2>2, <2>3 DEF LookAt
<1>7. CASE UNCHANGED vars
  BY <1>7, StutterStep
<1> QED
  BY <1>1, <1>2, <1>3, <1>4, <1>5, <1>6, <1>7 DEF Next, Step

\* The inductive invariant holds in every state.
THEOREM InvHolds == Spec => []IInv
<1>1. Init => IInv
  BY InitEstablishes
<1>2. IInv /\ [Next]_vars => IInv'
  BY StepPreserves
<1> QED
  BY <1>1, <1>2, PTL DEF Spec

-----------------------------------------------------------------------------
\* The two logs never grow over the ends of their arrays, whatever the graph
\* and however often a query is begun again.
THEOREM TypeCorrect == Spec => []TypeOK
<1>1. IInv => TypeOK
  BY DEF IInv
<1> QED
  BY <1>1, InvHolds, PTL

\* The counters that end the loop of query() never drift away from the list,
\* over any sequence of rejections and cuts.
THEOREM CountsCorrect == Spec => []CountsMatchList
<1>1. IInv => CountsMatchList
  BY DEF IInv
<1> QED
  BY <1>1, InvHolds, PTL

\* The list is sorted and holds the closest vectors seen, for lists of every
\* size, graphs of every degree and whatever an earlier query left behind.
THEOREM ListCorrect == Spec => []ListIsBestOfSeen
<1>1. IInv => ListIsBestOfSeen
  BY DEF IInv
<1> QED
  BY <1>1, InvHolds, PTL

\* A query that returns has explored everything closer than what it leaves
\* unexplored.
THEOREM ConvergedCorrect == Spec => []SearchConverged
<1>1. ASSUME IInv, pc = "done"
      PROVE  /\ Range(list) \subseteq Range(expanded_log)
             /\ \A v \in Range(expanded_log) : Range(graph[v]) \subseteq hash
             /\ \A v \in hash \ Range(expanded_log), w \in Range(list) :
                  /\ Len(list) = current_L_size
                  /\ distance[w] <= distance[v]
  <2>1. /\ Ordered(list) /\ Range(list) \subseteq hash
        /\ \A v \in hash \ Range(list) :
             /\ Len(list) = current_L_size
             /\ distance[v] >= distance[list[Len(list)]]
    BY <1>1 DEF IInv, ListIsBestOfSeen, Ordered, Searching
  <2>2. /\ Range(expanded_log) = visited \intersect hash
        /\ Range(list) \subseteq visited
    BY <1>1 DEF IInv, VisitedInv, DoneInv, Searching
  <2>3. /\ list \in Seq(Vectors) /\ Range(list) \subseteq Vectors
        /\ distance \in [Vectors -> Nat]
        /\ graph \in [Vectors -> [1..Degree -> Vectors]]
        /\ hash \subseteq Vectors
    BY <1>1, InputTypes DEF IInv, TypeOK
  <2>4. Range(list) \subseteq Range(expanded_log)
    BY <2>1, <2>2
  <2>5. ASSUME NEW v \in Range(expanded_log)
        PROVE  Range(graph[v]) \subseteq hash
    <3>1. \A i \in 1..Degree : graph[v][i] \in hash
      BY <1>1 DEF IInv, NeighborInv, Searching
    <3>2. graph[v] \in [1..Degree -> Vectors]
      BY <2>2, <2>3
    <3> QED
      BY <3>1, <3>2 DEF Range
  <2>6. ASSUME NEW v \in hash \ Range(expanded_log), NEW w \in Range(list)
        PROVE  Len(list) = current_L_size /\ distance[w] <= distance[v]
    <3> DEFINE last == list[Len(list)]
    <3>1. Len(list) = current_L_size /\ distance[v] >= distance[last]
      BY <2>1, <2>4
    <3>2. last \in Range(list) /\ distance[w] <= distance[last]
      BY <2>1, <2>3, LastIsFarthest
    <3>3. /\ distance[v] \in Nat /\ distance[w] \in Nat
          /\ distance[last] \in Nat
      BY <2>3, <3>2
    <3> HIDE DEF last
    <3> QED
      BY <3>1, <3>2, <3>3
  <2> QED
    BY <2>4, <2>5, <2>6
<1>2. IInv => SearchConverged
  BY <1>1 DEF SearchConverged
<1> QED
  BY <1>2, InvHolds, PTL

\* No vector is expanded twice, though it may leave the list and be met again.
THEOREM ExpandedOnceCorrect == Spec => []ExpandedOnce
<1>1. IInv => ExpandedOnce
  BY DEF IInv, VisitedInv, ExpandedOnce
<1> QED
  BY <1>1, InvHolds, PTL

-----------------------------------------------------------------------------
\* While query() goes from one candidate to the next, it knows the neighbours
\* of all that it has expanded.
LEMMA NeighboursSeen ==
  ASSUME IInv, pc = "select"
  PROVE  \A w \in Range(expanded_log) : Abstract!Neighbours(w) \subseteq hash
<1>1. \A w \in Range(expanded_log), i \in 1..Degree : graph[w][i] \in hash
  BY DEF IInv, NeighborInv, Searching
<1>2. \A w \in Range(expanded_log) : DOMAIN graph[w] = 1..Degree
  <2>1. Range(expanded_log) \subseteq Vectors
    BY RangeOfSeq DEF IInv, TypeOK
  <2>2. graph \in [Vectors -> [1..Degree -> Vectors]]
    BY InputTypes DEF IInv
  <2> QED
    BY <2>1, <2>2
<1> QED
  BY <1>1, <1>2 DEF Abstract!Neighbours

\* Expand follows the neighbours of the closest vector of the beam.
LEMMA ExpandRefines ==
  ASSUME IInv, Expand
  PROVE  \E v \in Vectors : Abstract!Expand(v)
<1> DEFINE p == ClosestUnvisited
<1>1. /\ pc = "select" /\ pc' = "neighbors" /\ Searching /\ Unvisited # {}
      /\ expanded_log' = Append(expanded_log, p)
      /\ UNCHANGED <<graph, distance, current_L_size, hash, list>>
  BY DEF Expand, CanExpand, Searching, input
<1>2. /\ p \in Range(list) \ visited
      /\ p \in (hash \ Range(expanded_log)) \intersect Vectors
      /\ \A w \in Range(list) \ visited : distance[p] <= distance[w]
  BY <1>1, ExpandChooses
<1> HIDE DEF p
<1>3. Range(list) \ Range(expanded_log) = Range(list) \ visited
  BY <1>1 DEF IInv, VisitedInv, ListIsBestOfSeen
<1>4. Range(expanded_log') = Range(expanded_log) \union {p}
  BY <1>1, <1>2, AppendedLog DEF IInv, TypeOK
<1>5. Abstract!Expand(p)
  BY <1>1, <1>2, <1>3, <1>4, NeighboursSeen DEF Abstract!Expand
<1> QED
  BY <1>2, <1>5

\* The abstract search counts as this one does.
LEMMA SameCardinality == \A S : Abstract!Cardinality(S) = Cardinality(S)
BY DEF Abstract!Cardinality, Cardinality

\* Add is the sight of a new vector: the beam keeps the best.
LEMMA AddRefines ==
  ASSUME IInv, NEW v, v = graph[p_star][neighbor], Add(v)
  PROVE  Abstract!See(v)
<1> DEFINE kept == Range(list)
           L == current_L_size
<1>1. /\ pc = "neighbors" /\ pc' \in {"neighbors", "select"} /\ Searching
      /\ v \in Vectors \ hash /\ hash' = hash \union {v}
      /\ UNCHANGED <<graph, distance, current_L_size, expanded_log>>
      /\ Allocate(v) /\ Prune(WithCandidate(v), candidate_count + 1)
  BY NeighborType DEF Add, NextNeighbor, Allocate, Searching, input
<1>2. \E w \in Range(expanded_log) : v \in Abstract!Neighbours(w)
  <2>1. p_star \in Range(expanded_log) /\ p_star \in Vectors
    BY <1>1, NeighborType DEF IInv, NeighborInv
  <2>2. neighbor \in DOMAIN graph[p_star]
    BY <1>1, <2>1, NeighborType, InputTypes DEF IInv
  <2> QED
    BY <2>1, <2>2 DEF Abstract!Neighbours
<1>3. \/ /\ Len(list) < L
         /\ Range(list') = kept \union {v}
      \/ /\ Len(list) = L
         /\ \E x \in kept \union {v} :
              /\ Range(list') = (kept \union {v}) \ {x}
              /\ \A w \in kept \union {v} : distance[w] <= distance[x]
  BY <1>1, CandidateKept
<1>4. Cardinality(kept \union {v}) = Len(list) + 1
  <2>1. list \in Seq(Vectors) /\ Ordered(list) /\ v \notin kept
    BY <1>1, InputTypes DEF IInv, ListIsBestOfSeen, Ordered
  <2>2. IsFiniteSet(kept) /\ Cardinality(kept) = Len(list)
    BY <2>1, OrderedCardinality
  <2> HIDE DEF kept
  <2> QED
    BY <2>1, <2>2, FS_AddElement
<1>5. Len(list) \in Nat /\ L \in Nat
  BY InputTypes DEF IInv
<1>6. Range(list') \in Abstract!Best(kept \union {v})
  <2> DEFINE S == kept \union {v}
  <2> HIDE DEF S
  <2>0. /\ \A x : x \in S <=> x \in kept \union {v}
        /\ Cardinality(S) = Len(list) + 1
    BY <1>4 DEF S
  <2>1. CASE Len(list) < L
    <3>1. Cardinality(S) <= L
      BY <2>0, <2>1, <1>5
    <3>2. Abstract!Best(S) = {S}
      BY <3>1, SameCardinality DEF Abstract!Best
    <3>3. Len(list) # L
      BY <2>1, <1>5
    <3> QED
      BY <3>2, <3>3, <1>3 DEF S
  <2>2. CASE Len(list) = L
    <3>1. ~(Cardinality(S) <= L)
      BY <2>0, <2>2, <1>5
    <3>2. Abstract!Best(S) = {S \ {x} : x \in Abstract!Farthest(S)}
      BY <3>1, SameCardinality DEF Abstract!Best
    <3>3. ~(Len(list) < L)
      BY <2>2, <1>5
    <3>4. PICK x \in S : /\ Range(list') = S \ {x}
                         /\ \A w \in S : distance[w] <= distance[x]
      BY <3>3, <1>3 DEF S
    <3>5. x \in Abstract!Farthest(S)
      BY <3>4 DEF Abstract!Farthest
    <3> QED
      BY <3>2, <3>4, <3>5 DEF S
  <2> QED
    BY <1>3, <2>1, <2>2 DEF S
<1> QED
  BY <1>1, <1>2, <1>6 DEF Abstract!See

\* Finish leaves nothing in the beam to expand.
LEMMA FinishRefines ==
  ASSUME IInv, Finish
  PROVE  Abstract!Finish
<1>1. /\ pc = "select" /\ pc' = "done" /\ Searching /\ ~CanExpand
      /\ UNCHANGED <<graph, distance, current_L_size, hash, list, expanded_log>>
  BY DEF Finish, Searching, input
<1>2. Range(list) \subseteq Range(expanded_log)
  BY <1>1, AllVisited DEF IInv, VisitedInv, ListIsBestOfSeen
<1> QED
  BY <1>1, <1>2, NeighboursSeen DEF Abstract!Finish

\* Whatever breaks a search off, and whatever happens between two of them,
\* leaves the graph alone.
LEMMA OtherStepsRefine ==
  ASSUME IInv,
         \/ \E d \in Distances, l \in ListSizes : InitSearchLog(d, l)
         \/ ExpandedLogFull \/ PowerFail \/ \E v \in Vectors : SearchLogFull(v)
  PROVE  Abstract!GiveUp \/ Abstract!Rest
<1>1. ASSUME NEW d \in Distances, NEW l \in ListSizes, InitSearchLog(d, l)
      PROVE  Abstract!Rest
  BY <1>1 DEF InitSearchLog, Abstract!Rest
<1>2. CASE ExpandedLogFull \/ PowerFail
  BY <1>2 DEF ExpandedLogFull, PowerFail, Abstract!GiveUp, Abstract!Rest, input
<1>3. ASSUME NEW v \in Vectors, SearchLogFull(v)
      PROVE  Abstract!GiveUp
  BY <1>3 DEF SearchLogFull, Abstract!GiveUp, input
<1> QED
  BY <1>1, <1>2, <1>3

\* A neighbour that is known already changes nothing.
LEMMA DuplicateStutters ==
  ASSUME IInv, NEW v, Duplicate(v)
  PROVE  UNCHANGED Abstract!vars
<1>1. /\ pc = "neighbors" /\ pc' \in {"neighbors", "select"}
      /\ UNCHANGED <<graph, distance, current_L_size, hash, expanded_log>>
      /\ Prune(list, candidate_count)
  BY DEF Duplicate, NextNeighbor, input
<1>2. ~(candidate_count > current_L_size)
  <2>1. candidate_count <= current_L_size
    BY <1>1 DEF IInv, CountsMatchList, ListIsBestOfSeen, Searching
  <2>2. candidate_count \in Nat /\ current_L_size \in Nat
    BY InputTypes DEF IInv, TypeOK
  <2> QED
    BY <2>1, <2>2
<1>3. list' = list
  BY <1>1, <1>2 DEF Prune
<1> QED
  BY <1>1, <1>3 DEF Abstract!vars

\* Every step of query() is one of the best-first search or none.
LEMMA RefinementStep == IInv /\ [Next]_vars => [Abstract!Next]_Abstract!vars
<1> SUFFICES ASSUME IInv, [Next]_vars
             PROVE  Abstract!Next \/ UNCHANGED Abstract!vars
  OBVIOUS
<1>1. CASE \/ \E d \in Distances, l \in ListSizes : InitSearchLog(d, l)
           \/ ExpandedLogFull \/ PowerFail
  BY <1>1, OtherStepsRefine DEF Abstract!Next
<1>2. CASE AddEntry
  <2>1. Abstract!Start
    <3>1. /\ pc' = "select" /\ hash' = {Entry} /\ Range(list') = {Entry}
          /\ expanded_log' = <<>> /\ graph' = graph
      BY <1>2, EntryAdded DEF IInv
    <3> QED
      BY <3>1, NoneInEmpty DEF Abstract!Start
  <2> QED
    BY <2>1 DEF Abstract!Next
<1>3. CASE Expand
  BY <1>3, ExpandRefines DEF Abstract!Next
<1>4. CASE Finish
  BY <1>4, FinishRefines DEF Abstract!Next
<1>5. CASE p_star # Null /\ LookAt(graph[p_star][neighbor])
  <2> DEFINE v == graph[p_star][neighbor]
  <2>1. v \in Vectors
    BY <1>5, NeighborType DEF LookAt, Duplicate, Add, SearchLogFull
  <2>2. CASE Duplicate(v)
    BY <2>2, DuplicateStutters
  <2>3. CASE Add(v)
    BY <2>1, <2>3, AddRefines DEF Abstract!Next
  <2>4. CASE SearchLogFull(v)
    <3> HIDE DEF v
    <3> QED
      BY <2>1, <2>4, OtherStepsRefine DEF Abstract!Next
  <2> QED
    BY <1>5, <2>2, <2>3, <2>4 DEF LookAt
<1>6. CASE UNCHANGED vars
  BY <1>6 DEF vars, input, Abstract!vars
<1> QED
  BY <1>1, <1>2, <1>3, <1>4, <1>5, <1>6 DEF Next, Step

\* The linked list with its tail, its hash, its flags left over from earlier
\* queries and its two counters is a best-first search with a beam.
THEOREM Refinement == Spec => ImplementsBestFirst
<1>1. Init => Abstract!Init
  BY DEF Init, Abstract!Init
<1>2. IInv /\ [Next]_vars => [Abstract!Next]_Abstract!vars
  BY RefinementStep
<1> QED
  BY <1>1, <1>2, InvHolds, PTL DEF Spec, ImplementsBestFirst, Abstract!Spec

-----------------------------------------------------------------------------
(***************************************************************************)
(* The overlapped search, for every placement of the codes on pages and    *)
(* however long a transfer takes.                                          *)
(*                                                                         *)
(* Up to two vectors are on their way: entered in the hash and counted,    *)
(* but not in the list.  With them the list is what SearchList has, and    *)
(* what is shown above of ordered lists is used again here.                *)
(***************************************************************************)

\* A query is past its entry vector; it is among the neighbours; it has
\* entered the present one.
Underway == pc \in {"select", "neighbors", "command", "other_cmp", "poll",
                    "start", "compute", "drain", "done"}
Looking == pc \in {"neighbors", "command", "other_cmp", "poll", "start",
                   "compute"}
Entered == pc \in {"poll", "start", "compute"}

InputInv ==
  /\ graph \in Graphs /\ distance \in Distances /\ current_L_size \in ListSizes
  /\ Looking => p_star \in Vectors
  /\ pc \in {"command", "other_cmp"} => Current \notin hash

\* The vectors on their way into the list.
Previous == {prev} \ {Null}
Pending == Previous \union (IF Entered THEN {Current} ELSE {})

\* Nothing is missing from the list but what is on its way, or no closer than
\* a whole beam.
ListInv ==
  Underway =>
    /\ Ordered(list)
    /\ Range(list) \subseteq hash \ Pending
    /\ Pending \subseteq hash \ visited
    /\ Entered => Current # prev
    /\ visited_count = Cardinality(visited \intersect Range(list))
    /\ \A v \in hash \ (Range(list) \union Pending) :
         /\ Len(list) >= current_L_size
         /\ distance[v] >= distance[list[current_L_size]]

\* How long the list is once prev is in it.
Length == Len(list) + (IF prev = Null THEN 0 ELSE 1)

\* The counter is ahead of the list by those on their way, up to the beam.
CountInv ==
  Underway =>
    /\ Length <= current_L_size + 1
    /\ candidate_count = Min({Length, current_L_size})
                           + (IF Entered THEN 1 ELSE 0)

\* Between two queries, and between two expansions, no vector is on its way.
IdleInv == pc \in {"idle", "entry", "select", "done"} => prev = Null

\* The program knows which page is in the cache unless it waits for one, and
\* only asks for a code from the page it is on.
CacheInv ==
  pc # "halted" =>
    /\ pc \notin {"other_cmp", "poll"} => cache = page_in_buffer
    /\ pc \in {"start", "compute"} => cache = CodePage[Current]

\* The one transfer is that of the vector entered last.
TransferInv ==
  pc # "halted" /\ transfer # NoTransfer =>
    /\ cache = CodePage[transfer.vector]
    /\ pc \in {"neighbors", "start", "compute", "drain"}
    /\ transfer = IF pc = "compute"
                  THEN [vector |-> Current, buf |-> cur_buf_idx]
                  ELSE [vector |-> prev, buf |-> prev_buf]

\* Its code arrives in its own buffer, not in that of prev.
BufferInv ==
  pc # "halted" =>
    /\ prev # Null => cur_buf_idx = 3 - prev_buf
    /\ pc = "compute" =>
         \/ transfer = [vector |-> Current, buf |-> cur_buf_idx]
         \/ buffers[cur_buf_idx] = Current

\* The inductive invariant.
OverlapInv == /\ OverlapTypeOK /\ InputInv /\ EntryInv /\ ListInv /\ CountInv
              /\ IdleInv /\ CacheInv /\ TransferInv /\ BufferInv /\ CodesAreOwn

-----------------------------------------------------------------------------

\* The sorts of what the list and the pipeline are made of.
LEMMA OverlapTypes ==
  ASSUME OverlapTypeOK, InputInv
  PROVE  /\ graph \in [Vectors -> [1..Degree -> Vectors]]
         /\ distance \in [Vectors -> Nat]
         /\ current_L_size \in Nat \ {0}
         /\ list \in Seq(Vectors) /\ Len(list) \in Nat
         /\ Range(list) = {list[i] : i \in 1..Len(list)}
         /\ Range(list) \subseteq Vectors
         /\ Looking => Current \in Vectors /\ Current # Null
         /\ prev # Null => prev \in Vectors
<1>1. /\ graph \in [Vectors -> [1..Degree -> Vectors]]
      /\ distance \in [Vectors -> Nat] /\ current_L_size \in Nat \ {0}
  BY GraphsAssumption, DistancesAssumption, ListSizesAssumption DEF InputInv
<1>2. list \in Seq(Vectors) /\ neighbor \in 1..Degree
      /\ prev \in Vectors \union {Null}
  BY DEF OverlapTypeOK
<1>3. /\ Len(list) \in Nat /\ Range(list) = {list[i] : i \in 1..Len(list)}
      /\ Range(list) \subseteq Vectors
  BY <1>2, LenProperties, RangeEquality, RangeOfSeq
<1>4. Looking => Current \in Vectors
  BY <1>1, <1>2 DEF InputInv, Current
<1> QED
  BY <1>1, <1>2, <1>3, <1>4, NullAssumption

\* The candidate counter between two vectors.
LEMMA Counted ==
  ASSUME OverlapTypeOK, InputInv
  PROVE  /\ Length \in Nat
         /\ Min({Length, current_L_size})
              = IF Length <= current_L_size THEN Length ELSE current_L_size
         /\ Length = IF prev = Null THEN Len(list) ELSE Len(list) + 1
<1>1. /\ Len(list) \in Nat /\ current_L_size \in Nat
  BY OverlapTypes
<1>2. /\ Length = IF prev = Null THEN Len(list) ELSE Len(list) + 1
      /\ Length \in Nat
  BY <1>1 DEF Length
<1> QED
  BY <1>1, <1>2, MinOfTwo

\* The list with prev in it: still ordered, and nothing is missing from it
\* that was not.
LEMMA PreviousInserted ==
  ASSUME OverlapInv, Underway
  PROVE  LET s == WithPrev
         IN  /\ s \in Seq(Vectors) /\ Len(s) = Length /\ Ordered(s)
             /\ Range(s) = Range(list) \union Previous
             /\ Len(list) >= current_L_size =>
                  /\ Len(s) >= current_L_size
                  /\ distance[s[current_L_size]]
                       <= distance[list[current_L_size]]
                  /\ list[current_L_size] \in Vectors
                  /\ s[current_L_size] \in Vectors
<1> DEFINE L == current_L_size
<1>1. /\ distance \in [Vectors -> Nat] /\ L \in Nat \ {0}
      /\ list \in Seq(Vectors) /\ Len(list) \in Nat
      /\ \A i \in 1..Len(list) : list[i] \in Vectors
      /\ prev # Null => prev \in Vectors
  BY OverlapTypes, ElementOfSeq DEF OverlapInv
<1>2. /\ Ordered(list) /\ Range(list) \subseteq hash \ Pending
      /\ Length = IF prev = Null THEN Len(list) ELSE Len(list) + 1
  BY Counted DEF OverlapInv, ListInv
<1>3. Len(list) >= L => L \in 1..Len(list)
  BY <1>1
<1>4. CASE prev = Null
  <2>1. WithPrev = list /\ Previous = {}
    BY <1>4 DEF WithPrev, Previous
  <2>2. Len(list) >= L => /\ list[L] \in Vectors
                          /\ distance[list[L]] <= distance[list[L]]
    BY <1>1, <1>3
  <2> QED
    BY <1>1, <1>2, <1>4, <2>1, <2>2
<1>5. CASE prev # Null
  <2> DEFINE k == Before(list, prev)
             t == InsertAt(list, k + 1, prev)
  <2>1. WithPrev = t /\ Previous = {prev}
    BY <1>5 DEF WithPrev, Previous
  <2>2. prev \in Vectors \ Range(list)
    BY <1>1, <1>2, <1>5 DEF Pending, Previous
  <2>3. /\ t \in Seq(Vectors) /\ Len(t) = Len(list) + 1
        /\ Range(t) = Range(list) \union {prev} /\ Ordered(t)
    BY <1>1, <1>2, <2>2, InsertKeepsOrder
  <2>4. /\ k \in 0..Len(list)
        /\ \A j \in (k + 1)..Len(list) : distance[prev] <= distance[list[j]]
    BY <1>1, <1>2, <2>2, PlaceOfCandidate
  <2>5. \A i \in 1..Len(t) : t[i] = IF i <= k THEN list[i]
                                    ELSE IF i = k + 1 THEN prev ELSE list[i - 1]
    <3> HIDE DEF k
    <3> QED
      BY <1>1, <2>2, <2>4, Inserted
  <2> HIDE DEF k, t, L
  <2>6. ASSUME Len(list) >= L
        PROVE  /\ Len(t) >= L /\ distance[t[L]] <= distance[list[L]]
               /\ list[L] \in Vectors /\ t[L] \in Vectors
    <3>1. L \in 1..Len(list) /\ L \in 1..Len(t) /\ Len(t) >= L
      BY <1>1, <1>3, <2>3, <2>6
    <3>2. list[L] \in Vectors /\ t[L] \in Vectors /\ distance[list[L]] \in Nat
      BY <1>1, <2>3, <3>1, ElementOfSeq
    <3>3. CASE L <= k
      BY <2>5, <3>1, <3>2, <3>3
    <3>4. CASE L = k + 1
      <4>1. t[L] = prev /\ L \in (k + 1)..Len(list)
        BY <1>1, <2>4, <2>5, <3>1, <3>4
      <4> QED
        BY <2>4, <3>1, <3>2, <4>1
    <3>5. CASE L > k + 1
      <4>1. L - 1 \in 1..Len(list) /\ L - 1 < L /\ t[L] = list[L - 1]
        BY <1>1, <2>4, <2>5, <3>1, <3>5
      <4>2. distance[list[L - 1]] <= distance[list[L]]
        BY <1>2, <3>1, <4>1 DEF Ordered
      <4> QED
        BY <3>1, <3>2, <4>1, <4>2
    <3> QED
      BY <1>1, <2>4, <3>3, <3>4, <3>5
  <2> QED
    BY <1>2, <1>5, <2>1, <2>3, <2>6 DEF L
<1> QED
  BY <1>4, <1>5

\* What ListInv and CountInv say when no neighbour has been entered that is
\* not in the pipeline.
LEMMA NothingEntered ==
  ASSUME UNCHANGED <<distance, current_L_size>>, ~Entered',
         Ordered(list'), Range(list') \subseteq hash' \ Previous',
         Previous' \subseteq hash' \ visited',
         visited_count' = Cardinality(visited' \intersect Range(list')),
         \A v \in hash' \ (Range(list') \union Previous') :
           /\ Len(list') >= current_L_size
           /\ distance[v] >= distance[list'[current_L_size]],
         Length' <= current_L_size + 1,
         candidate_count' = Min({Length', current_L_size}),
         candidate_count' \in Nat
  PROVE  ListInv' /\ CountInv'
<1>1. Pending' = Previous'
  BY DEF Pending
<1>2. Ordered(list)'
  BY DEF Ordered
<1>3. ListInv'
  BY <1>1, <1>2 DEF ListInv
<1>4. candidate_count' = Min({Length', current_L_size'})
                           + (IF Entered' THEN 1 ELSE 0)
  OBVIOUS
<1>5. CountInv'
  BY <1>4 DEF CountInv
<1> QED
  BY <1>3, <1>5

\* prev is settled: nothing is on its way any more, and the list need not be
\* cut.
LEMMA PreviousSettled ==
  ASSUME OverlapInv, Underway, ~Entered, SettlePrev,
         UNCHANGED <<graph, distance, current_L_size>>, ~Entered'
  PROVE  /\ ListInv' /\ CountInv'
         /\ list' \in Seq(Vectors)
         /\ UNCHANGED <<candidate_count, visited_count, sorted_tail, log_head,
                        hash, visited, cache, page_in_buffer, transfer,
                        buffers, prev_buf, cur_buf_idx>>
         /\ prev' = Null
<1> DEFINE L == current_L_size
<1>1. /\ UNCHANGED <<log_head, hash, visited, cache, page_in_buffer, transfer,
                     buffers, prev_buf, cur_buf_idx>>
      /\ prev' = Null
  BY DEF SettlePrev, logs, flash
<1>2. /\ L \in Nat \ {0} /\ Len(list) \in Nat /\ list \in Seq(Vectors)
      /\ distance \in [Vectors -> Nat] /\ Range(list) \subseteq Vectors
      /\ candidate_count \in Nat /\ hash \subseteq Vectors
  BY OverlapTypes DEF OverlapInv, OverlapTypeOK
<1>3. /\ Range(list) \subseteq hash \ Pending /\ Pending = Previous
      /\ Pending \subseteq hash \ visited
      /\ visited_count = Cardinality(visited \intersect Range(list))
      /\ \A v \in hash \ (Range(list) \union Pending) :
           /\ Len(list) >= L /\ distance[v] >= distance[list[L]]
  BY DEF OverlapInv, ListInv, Pending
<1>4. /\ Length \in Nat /\ Length <= L + 1
      /\ candidate_count = Min({Length, L})
      /\ candidate_count = IF Length <= L THEN Length ELSE L
      /\ Length = IF prev = Null THEN Len(list) ELSE Len(list) + 1
  <2>1. /\ Length \in Nat
        /\ Min({Length, L}) = IF Length <= L THEN Length ELSE L
        /\ Length = IF prev = Null THEN Len(list) ELSE Len(list) + 1
    BY Counted DEF OverlapInv
  <2>2. /\ Length <= L + 1
        /\ candidate_count = Min({Length, L}) + (IF Entered THEN 1 ELSE 0)
    BY DEF OverlapInv, CountInv
  <2>3. candidate_count = Min({Length, L}) + 0
    BY <2>2
  <2> QED
    BY <1>2, <2>1, <2>2, <2>3
<1>5. /\ WithPrev \in Seq(Vectors) /\ Len(WithPrev) = Length
      /\ Ordered(WithPrev)
      /\ Range(WithPrev) = Range(list) \union Previous
      /\ Len(list) >= L =>
           /\ Len(WithPrev) >= L
           /\ distance[WithPrev[L]] <= distance[list[L]]
           /\ list[L] \in Vectors /\ WithPrev[L] \in Vectors
  BY PreviousInserted
<1>6. /\ list' = WithPrev /\ candidate_count' = candidate_count
      /\ visited_count' = visited_count /\ sorted_tail' = sorted_tail
  <2>1. CASE prev = Null /\ UNCHANGED <<list, counts>>
    BY <2>1 DEF WithPrev, counts
  <2>2. CASE prev # Null /\ Prune(WithPrev, candidate_count)
    <3>1. candidate_count <= L
      <4> HIDE DEF L
      <4>1. CASE Length <= L
        BY <1>4, <4>1
      <4>2. CASE ~(Length <= L)
        BY <1>2, <1>4, <4>2
      <4> QED
        BY <4>1, <4>2
    <3>2. ~(candidate_count > L)
      BY <1>2, <3>1
    <3> QED
      BY <2>2, <3>2 DEF Prune
  <2> QED
    BY <2>1, <2>2 DEF SettlePrev
<1>7. Previous' = {} /\ Length' = Length
  <2>1. Length' = Len(list') + 0
    BY <1>1 DEF Length
  <2> QED
    BY <1>1, <1>4, <1>5, <1>6, <2>1 DEF Previous
<1>8. visited \intersect Range(WithPrev) = visited \intersect Range(list)
  BY <1>3, <1>5
<1>9. ASSUME NEW v \in hash \ Range(WithPrev)
      PROVE  Len(WithPrev) >= L /\ distance[v] >= distance[WithPrev[L]]
  <2>1. Len(list) >= L /\ distance[v] >= distance[list[L]] /\ v \in Vectors
    BY <1>2, <1>3, <1>5
  <2>2. /\ Len(WithPrev) >= L /\ distance[WithPrev[L]] <= distance[list[L]]
        /\ distance[v] \in Nat /\ distance[list[L]] \in Nat
        /\ distance[WithPrev[L]] \in Nat
    BY <1>2, <1>5, <2>1
  <2> QED
    BY <2>1, <2>2
<1>10. ListInv' /\ CountInv'
  <2>1. /\ Ordered(list') /\ Range(list') \subseteq hash' \ Previous'
        /\ Previous' \subseteq hash' \ visited'
    BY <1>1, <1>3, <1>5, <1>6, <1>7
  <2>2. visited_count' = Cardinality(visited' \intersect Range(list'))
    BY <1>1, <1>3, <1>6, <1>8
  <2>3. \A v \in hash' \ (Range(list') \union Previous') :
          Len(list') >= L /\ distance[v] >= distance[list'[L]]
    BY <1>1, <1>6, <1>7, <1>9
  <2>4. Length' <= L + 1 /\ candidate_count' = Min({Length', L})
        /\ candidate_count' \in Nat
    BY <1>2, <1>4, <1>6, <1>7
  <2> QED
    BY <2>1, <2>2, <2>3, <2>4, NothingEntered
<1> QED
  BY <1>1, <1>5, <1>6, <1>10

\* A list that is cut when the counter takes it for longer than a beam: the
\* entries behind the beam go, and they are no closer than its last.
LEMMA Pruned ==
  ASSUME NEW s \in Seq(Vectors), Ordered(s), NEW count \in Nat,
         Prune(s, count), distance \in [Vectors -> Nat],
         current_L_size \in Nat \ {0},
         count > current_L_size => Len(s) >= current_L_size
  PROVE  /\ list' \in Seq(Vectors) /\ Ordered(list')
         /\ \/ /\ count <= current_L_size /\ list' = s
               /\ candidate_count' = count
               /\ UNCHANGED <<visited_count, sorted_tail>>
            \/ /\ count > current_L_size /\ Len(list') = current_L_size
               /\ candidate_count' = current_L_size
               /\ Range(list') \subseteq Range(s)
               /\ list'[current_L_size] = s[current_L_size]
               /\ \A v \in Range(s) \ Range(list') :
                    distance[v] >= distance[s[current_L_size]]
               /\ visited_count' = Cardinality(visited' \intersect Range(list'))
               /\ sorted_tail' \in Vectors
<1> DEFINE L == current_L_size
<1>1. Len(s) \in Nat /\ L \in Nat \ {0} /\ Range(s) = {s[i] : i \in 1..Len(s)}
  BY LenProperties, RangeEquality
<1>2. CASE count <= L
  BY <1>1, <1>2 DEF Prune
<1>3. CASE count > L
  <2>1. Len(s) >= L /\ L \in 0..Len(s) /\ L \in 1..Len(s)
    BY <1>1, <1>3
  <2>2. Min({L, Len(s)}) = L
    BY <1>1, <2>1, MinOfTwo
  <2>3. ~(count <= L)
    BY <1>1, <1>3
  <2>4. /\ list' = SubSeq(s, 1, L) /\ candidate_count' = Len(list')
        /\ sorted_tail' = s[L]
        /\ visited_count' = Cardinality(visited' \intersect Range(list'))
    BY <1>3, <2>1, <2>2, <2>3 DEF Prune
  <2>5. /\ list' \in Seq(Vectors) /\ Len(list') = L
        /\ \A i \in 1..L : list'[i] = s[i]
        /\ Range(list') = {s[i] : i \in 1..L}
        /\ Ordered(list')
    <3>1. PICK n \in 0..Len(s) : n = L
      BY <2>1
    <3>2. PICK u : u = SubSeq(s, 1, n)
      OBVIOUS
    <3>3. /\ u \in Seq(Vectors) /\ Len(u) = n
          /\ \A i \in 1..n : u[i] = s[i]
          /\ Range(u) = {s[i] : i \in 1..n}
          /\ Ordered(u)
      <4>1. s \in Seq(Vectors) /\ Ordered(s) /\ n \in 0..Len(s)
        OBVIOUS
      <4> QED
        BY ONLY <3>2, <4>1, CutKeepsOrder
    <3>4. list' = u
      BY <2>4, <3>1, <3>2
    <3> QED
      BY <3>1, <3>3, <3>4
  <2>6. ASSUME NEW v \in Range(s) \ Range(list')
        PROVE  distance[v] >= distance[s[L]]
    <3>1. PICK i \in 1..Len(s) : v = s[i]
      BY <1>1
    <3>2. i \notin 1..L
      BY <2>5, <2>6, <3>1
    <3>3. L < i
      BY <1>1, <3>1, <3>2
    <3>4. distance[s[L]] <= distance[s[i]]
      BY <2>1, <3>1, <3>3 DEF Ordered
    <3>5. distance[s[L]] \in Nat /\ distance[s[i]] \in Nat
      BY <2>1, <3>1, ElementOfSeq
    <3> QED
      BY <3>1, <3>4, <3>5
  <2>7. Range(list') \subseteq Range(s) /\ L \in 1..L
    BY <1>1, <2>1, <2>5
  <2>8. s[L] \in Vectors
    BY <2>1, ElementOfSeq
  <2>9. list'[L] = s[L]
    BY <2>5, <2>7
  <2> QED
    BY <1>3, <2>4, <2>5, <2>6, <2>7, <2>8, <2>9
<1> QED
  BY <1>1, <1>2, <1>3

\* A candidate is entered: it is on its way like prev, and the list is none
\* the worse for it.
LEMMA CandidateEntered ==
  ASSUME OverlapInv, Underway, ~Entered, Looking, Current \notin hash,
         UNCHANGED prev, \E l \in {"poll", "start"} : OtherCmp(l)
  PROVE  /\ ListInv' /\ CountInv'
         /\ log_head' \in 0..Capacity
         /\ hash' \subseteq Vectors /\ visited' \subseteq Vectors
         /\ candidate_count' \in Nat
         /\ UNCHANGED <<graph, distance, current_L_size, list, visited_count,
                        sorted_tail, p_star, neighbor, Current>>
<1> DEFINE L == current_L_size
<1>1. /\ hash' = hash \union {Current} /\ visited' = visited \ {Current}
      /\ log_head < Capacity /\ log_head' = log_head + 1
      /\ candidate_count' = candidate_count + 1
      /\ pc' \in {"poll", "start"}
      /\ UNCHANGED <<graph, distance, current_L_size, list, visited_count,
                     sorted_tail, p_star, neighbor>>
  BY DEF OtherCmp, Allocate, input
<1>2. Current' = Current /\ Current \in Vectors /\ Current # Null
  BY <1>1, OverlapTypes DEF Current, OverlapInv
<1>3. /\ log_head \in 0..Capacity /\ hash \subseteq Vectors
      /\ visited \subseteq Vectors /\ candidate_count \in Nat
  BY DEF OverlapInv, OverlapTypeOK
<1>4. /\ log_head' \in 0..Capacity /\ hash' \subseteq Vectors
      /\ visited' \subseteq Vectors /\ candidate_count' \in Nat
  <2>1. log_head' \in 0..Capacity
    BY <1>1, <1>3, LogSizesAssumption
  <2> QED
    BY <1>1, <1>2, <1>3, <2>1
<1>5. Pending = Previous /\ Pending' = Previous \union {Current} /\ Entered'
  BY <1>1, <1>2 DEF Pending, Previous, Entered
<1>6. /\ Ordered(list) /\ Range(list) \subseteq hash \ Previous
      /\ Previous \subseteq hash \ visited
      /\ visited_count = Cardinality(visited \intersect Range(list))
      /\ \A v \in hash \ (Range(list) \union Previous) :
           /\ Len(list) >= L /\ distance[v] >= distance[list[L]]
  BY <1>5 DEF OverlapInv, ListInv
<1>7. ListInv'
  <2>1. Ordered(list)'
    BY <1>1, <1>6 DEF Ordered
  <2>2. /\ Range(list') \subseteq hash' \ Pending'
        /\ Pending' \subseteq hash' \ visited'
    BY <1>1, <1>5, <1>6
  <2>3. Current' # prev'
    BY <1>2, <1>6 DEF Previous
  <2>4. visited' \intersect Range(list') = visited \intersect Range(list)
    BY <1>1, <1>6
  <2>5. hash' \ (Range(list') \union Pending')
          = hash \ (Range(list) \union Previous)
    BY <1>1, <1>5
  <2>6. \A v \in hash' \ (Range(list') \union Pending') :
          /\ Len(list') >= current_L_size'
          /\ distance'[v] >= distance'[list'[current_L_size']]
    BY <1>1, <1>6, <2>5
  <2>7. visited_count' = Cardinality(visited' \intersect Range(list'))
    BY <1>1, <1>6, <2>4
  <2> QED
    BY <2>1, <2>2, <2>3, <2>6, <2>7 DEF ListInv
<1>8. CountInv'
  <2>1. Length' = Length
    BY <1>1 DEF Length
  <2>2. /\ Length <= L + 1
        /\ candidate_count = Min({Length, L}) + (IF Entered THEN 1 ELSE 0)
    BY DEF OverlapInv, CountInv
  <2>3. Min({Length, L}) \in Nat
    <3>1. Min({Length, L}) = IF Length <= L THEN Length ELSE L
      BY Counted DEF OverlapInv
    <3>2. Length \in Nat /\ L \in Nat
      BY Counted, OverlapTypes DEF OverlapInv
    <3> QED
      BY <3>1, <3>2
  <2>4. candidate_count' = Min({Length, L}) + 1
    BY <1>1, <2>2, <2>3
  <2>5. /\ Length' <= current_L_size' + 1
        /\ candidate_count' = Min({Length', current_L_size'})
                                + (IF Entered' THEN 1 ELSE 0)
    BY <1>1, <1>5, <2>1, <2>2, <2>4
  <2> QED
    BY <2>5 DEF CountInv
<1> QED
  BY <1>1, <1>2, <1>4, <1>7, <1>8

\* A candidate is computed: prev goes into the list, which may be cut, and
\* the present one, of which the cut knows nothing yet, takes its place.
LEMMA ComputedList ==
  ASSUME OverlapInv, Compute
  PROVE  /\ ListInv' /\ CountInv'
         /\ list' \in Seq(Vectors)
         /\ candidate_count' \in Nat /\ visited_count' \in Nat
         /\ sorted_tail' \in Vectors \union {Null}
<1> DEFINE L == current_L_size
           s == WithPrev
<1>1. /\ pc = "compute" /\ Entered /\ Underway /\ Looking
      /\ Prune(s, candidate_count) /\ prev' = Current
      /\ pc' \in {"neighbors", "drain"} /\ ~Entered'
      /\ UNCHANGED <<graph, distance, L, hash, visited>>
  BY DEF Compute, Advance, input, logs, Entered, Underway, Looking
<1>2. /\ L \in Nat \ {0} /\ Len(list) \in Nat /\ list \in Seq(Vectors)
      /\ distance \in [Vectors -> Nat] /\ Range(list) \subseteq Vectors
      /\ Current \in Vectors /\ Current # Null
      /\ candidate_count \in Nat /\ visited_count \in Nat
      /\ sorted_tail \in Vectors \union {Null}
      /\ hash \subseteq Vectors /\ visited \subseteq Vectors
  BY <1>1, OverlapTypes DEF OverlapInv, OverlapTypeOK
<1>3. /\ Pending = Previous \union {Current} /\ Current \notin Previous
      /\ Range(list) \subseteq hash \ Pending
      /\ Pending \subseteq hash \ visited
      /\ visited_count = Cardinality(visited \intersect Range(list))
      /\ \A v \in hash \ (Range(list) \union Pending) :
           /\ Len(list) >= L /\ distance[v] >= distance[list[L]]
  BY <1>1 DEF OverlapInv, ListInv, Pending, Previous
<1>4. /\ Length \in Nat /\ Length <= L + 1
      /\ candidate_count = (IF Length <= L THEN Length ELSE L) + 1
  <2>1. /\ Length \in Nat
        /\ Min({Length, L}) = IF Length <= L THEN Length ELSE L
    BY Counted DEF OverlapInv
  <2>2. /\ Length <= L + 1
        /\ candidate_count = Min({Length, L}) + (IF Entered THEN 1 ELSE 0)
    BY <1>1 DEF OverlapInv, CountInv
  <2>3. candidate_count = Min({Length, L}) + 1
    BY <1>1, <2>2
  <2> QED
    BY <2>1, <2>2, <2>3
<1>5. /\ s \in Seq(Vectors) /\ Len(s) = Length /\ Ordered(s)
      /\ Range(s) = Range(list) \union Previous
      /\ Len(list) >= L =>
           /\ Len(s) >= L /\ distance[s[L]] <= distance[list[L]]
           /\ list[L] \in Vectors /\ s[L] \in Vectors
  BY <1>1, PreviousInserted
<1> HIDE DEF L, s
<1>6. Previous' = {Current} /\ Length' = Len(list') + 1
  BY <1>1, <1>2 DEF Previous, Length
<1>7. visited \intersect Range(s) = visited \intersect Range(list)
  BY <1>3, <1>5
<1>8. Range(s) \subseteq hash \ {Current}
  BY <1>3, <1>5
<1>9. \A v \in hash \ (Range(s) \union {Current}) :
        /\ Len(s) >= L /\ distance[v] >= distance[s[L]]
        /\ distance[v] \in Nat /\ distance[s[L]] \in Nat
  <2> SUFFICES ASSUME NEW v \in hash \ (Range(s) \union {Current})
               PROVE  /\ Len(s) >= L /\ distance[v] >= distance[s[L]]
                      /\ distance[v] \in Nat /\ distance[s[L]] \in Nat
    OBVIOUS
  <2>1. Len(list) >= L /\ distance[v] >= distance[list[L]] /\ v \in Vectors
    BY <1>2, <1>3, <1>5
  <2>2. /\ Len(s) >= L /\ distance[s[L]] <= distance[list[L]]
        /\ distance[v] \in Nat /\ distance[list[L]] \in Nat
        /\ distance[s[L]] \in Nat
    BY <1>2, <1>5, <2>1
  <2> QED
    BY <2>1, <2>2
<1>10. /\ list' \in Seq(Vectors) /\ Ordered(list')
       /\ \/ /\ candidate_count <= L /\ list' = s
             /\ candidate_count' = candidate_count
             /\ UNCHANGED <<visited_count, sorted_tail>>
          \/ /\ candidate_count > L /\ Len(list') = L
             /\ candidate_count' = L
             /\ Range(list') \subseteq Range(s)
             /\ list'[L] = s[L]
             /\ \A v \in Range(s) \ Range(list') : distance[v] >= distance[s[L]]
             /\ visited_count' = Cardinality(visited' \intersect Range(list'))
             /\ sorted_tail' \in Vectors
  <2>1. candidate_count > L => Len(s) >= L
    <3>1. CASE Length <= L
      BY <1>2, <1>4, <1>5, <3>1
    <3>2. CASE ~(Length <= L)
      BY <1>2, <1>4, <1>5, <3>2
    <3> QED
      BY <3>1, <3>2
  <2>2. PICK t : t = s
    OBVIOUS
  <2>3. PICK c : c = candidate_count
    OBVIOUS
  <2>4. /\ t \in Seq(Vectors) /\ Ordered(t) /\ c \in Nat /\ Prune(t, c)
        /\ c > current_L_size => Len(t) >= current_L_size
        /\ distance \in [Vectors -> Nat] /\ current_L_size \in Nat \ {0}
    BY <1>1, <1>2, <1>5, <2>1, <2>2, <2>3 DEF L
  <2>5. /\ list' \in Seq(Vectors) /\ Ordered(list')
        /\ \/ /\ c <= current_L_size /\ list' = t
              /\ candidate_count' = c
              /\ UNCHANGED <<visited_count, sorted_tail>>
           \/ /\ c > current_L_size /\ Len(list') = current_L_size
              /\ candidate_count' = current_L_size
              /\ Range(list') \subseteq Range(t)
              /\ list'[current_L_size] = t[current_L_size]
              /\ \A v \in Range(t) \ Range(list') :
                   distance[v] >= distance[t[current_L_size]]
              /\ visited_count' = Cardinality(visited' \intersect Range(list'))
              /\ sorted_tail' \in Vectors
    BY ONLY <2>4, Pruned
  <2> QED
    BY <2>2, <2>3, <2>5 DEF L
<1>11. ASSUME Length' \in Nat
       PROVE  Min({Length', L}) = IF Length' <= L THEN Length' ELSE L
  <2>1. PICK m \in Nat : m = Length'
    BY <1>11
  <2>2. Min({m, L}) = IF m <= L THEN m ELSE L
    BY <1>2, MinOfTwo
  <2> QED
    BY <2>1, <2>2
<1>12. ASSUME candidate_count <= L, list' = s,
              candidate_count' = candidate_count,
              UNCHANGED <<visited_count, sorted_tail>>
       PROVE  /\ ListInv' /\ CountInv' /\ candidate_count' \in Nat
              /\ visited_count' \in Nat
              /\ sorted_tail' \in Vectors \union {Null}
  <2>1. Length < L /\ candidate_count = Length + 1
    <3>1. CASE Length <= L
      BY <1>2, <1>4, <1>12, <3>1
    <3>2. CASE ~(Length <= L)
      BY <1>2, <1>4, <1>12, <3>2
    <3> QED
      BY <3>1, <3>2
  <2>2. Length' = Length + 1
    BY <1>5, <1>6, <1>12
  <2>3. /\ Length' <= L + 1 /\ Length' <= L /\ Length' \in Nat
        /\ candidate_count' = Length'
    BY <1>2, <1>4, <1>12, <2>1, <2>2
  <2>4. candidate_count' = Min({Length', L})
    BY <1>11, <2>3
  <2>5. /\ Range(list') \subseteq hash' \ Previous'
        /\ Previous' \subseteq hash' \ visited'
    BY <1>1, <1>3, <1>6, <1>8, <1>12
  <2>6. visited_count' = Cardinality(visited' \intersect Range(list'))
    BY <1>1, <1>3, <1>7, <1>12
  <2>7. \A v \in hash' \ (Range(list') \union Previous') :
          Len(list') >= L /\ distance[v] >= distance[list'[L]]
    BY <1>1, <1>6, <1>9, <1>12
  <2>8. ListInv' /\ CountInv'
    BY <1>1, <1>2, <1>10, <1>12, <2>3, <2>4, <2>5, <2>6, <2>7, NothingEntered
       DEF L
  <2> QED
    BY <1>2, <1>12, <2>8
<1>13. ASSUME candidate_count > L, Len(list') = L,
              candidate_count' = L,
              Range(list') \subseteq Range(s),
              list'[L] = s[L],
              \A v \in Range(s) \ Range(list') : distance[v] >= distance[s[L]],
              visited_count' = Cardinality(visited' \intersect Range(list')),
              sorted_tail' \in Vectors
       PROVE  /\ ListInv' /\ CountInv' /\ candidate_count' \in Nat
              /\ visited_count' \in Nat
              /\ sorted_tail' \in Vectors \union {Null}
  <2>1. Length' = L + 1 /\ Length' \in Nat /\ ~(Length' <= L)
    BY <1>2, <1>6, <1>13
  <2>2. candidate_count' = Min({Length', L}) /\ Length' <= L + 1
    BY <1>2, <1>11, <1>13, <2>1
  <2>3. /\ Range(list') \subseteq hash' \ Previous'
        /\ Previous' \subseteq hash' \ visited'
    BY <1>1, <1>3, <1>6, <1>8, <1>13
  <2>4. \A v \in hash' \ (Range(list') \union Previous') :
          Len(list') >= L /\ distance[v] >= distance[list'[L]]
    <3> SUFFICES ASSUME NEW v \in hash \ (Range(list') \union {Current})
                 PROVE  Len(list') >= L /\ distance[v] >= distance[list'[L]]
      BY <1>1, <1>6
    <3>1. Len(list') >= L
      BY <1>2, <1>13
    <3>2. distance[v] >= distance[s[L]]
      BY <1>9, <1>13
    <3> QED
      BY <1>13, <3>1, <3>2
  <2>5. ListInv' /\ CountInv'
    BY <1>1, <1>2, <1>10, <1>13, <2>1, <2>2, <2>3, <2>4, NothingEntered DEF L
  <2>6. visited_count' \in Nat
    <3>1. visited' \intersect Range(list') \subseteq Vectors
      BY <1>1, <1>2
    <3>2. PICK S : S = visited' \intersect Range(list')
      OBVIOUS
    <3>3. S \subseteq Vectors
      BY <3>1, <3>2
    <3>4. Cardinality(S) \in Nat
      BY <3>3, VectorsAssumption, FS_Subset, FS_CardinalityType
    <3> QED
      BY <1>13, <3>2, <3>4
  <2> QED
    BY <1>2, <1>13, <2>5, <2>6
<1> QED
  BY <1>10, <1>12, <1>13

-----------------------------------------------------------------------------

\* A transfer is one of a vector's code.
LEMMA TransferHasVector ==
  ASSUME OverlapTypeOK
  PROVE  /\ transfer # NoTransfer =>
              transfer.vector \in Vectors /\ transfer.buf \in 1..2
         /\ \A v \in Vectors, b \in 1..2 :
              [vector |-> v, buf |-> b] # NoTransfer
<1>1. \A v \in Vectors, b \in 1..2 : [vector |-> v, buf |-> b] # NoTransfer
  BY NullAssumption DEF NoTransfer
<1>2. transfer # NoTransfer => transfer \in [vector : Vectors, buf : 1..2]
  BY DEF OverlapTypeOK
<1> QED
  BY <1>1, <1>2

\* The wait for prev is a wait for the chip.
LEMMA NotWaiting ==
  ASSUME OverlapInv, ~Waiting, pc \notin {"compute", "halted"}
  PROVE  transfer = NoTransfer
<1> SUFFICES ASSUME transfer # NoTransfer PROVE FALSE
  OBVIOUS
<1>1. transfer.vector \in Vectors
  BY TransferHasVector DEF OverlapInv
<1>2. transfer = [vector |-> prev, buf |-> prev_buf]
  BY DEF OverlapInv, TransferInv
<1>3. prev # Null
  BY <1>1, <1>2, NullAssumption
<1> QED
  BY <1>3 DEF Waiting

\* Outside a transfer the code of prev has arrived.
LEMMA CodeArrived ==
  ASSUME OverlapInv, prev # Null, transfer = NoTransfer, pc # "halted"
  PROVE  buffers[prev_buf] = prev
<1>1. prev \in Vectors /\ prev_buf \in 1..2
  BY DEF OverlapInv, OverlapTypeOK
<1>2. [vector |-> prev, buf |-> prev_buf] # NoTransfer
  BY <1>1, TransferHasVector DEF OverlapInv
<1> QED
  BY <1>2 DEF OverlapInv, CodesAreOwn

\* The list, its counters and what is on its way stand still while the
\* program deals with the chip.
LEMMA ListStays ==
  ASSUME OverlapInv,
         UNCHANGED <<graph, distance, current_L_size, list, candidate_count,
                     visited_count, hash, visited, p_star, neighbor, prev>>,
         Underway' => Underway, Entered' <=> Entered
  PROVE  ListInv' /\ CountInv'
<1>1. Current' = Current /\ Pending' = Pending /\ Length' = Length
  BY DEF Current, Pending, Previous, Length
<1>2. ListInv'
  BY <1>1 DEF OverlapInv, ListInv, Ordered
<1>3. CountInv'
  <2>1. Underway' =>
          /\ Length <= current_L_size + 1
          /\ candidate_count = Min({Length, current_L_size})
                                 + (IF Entered THEN 1 ELSE 0)
    BY DEF OverlapInv, CountInv
  <2>2. (IF Entered' THEN 1 ELSE 0) = (IF Entered THEN 1 ELSE 0)
    OBVIOUS
  <2> QED
    BY <1>1, <2>1, <2>2 DEF CountInv
<1> QED
  BY <1>2, <1>3

\* A page miss: the chip is free, and the candidate is new.
LEMMA MissStep ==
  ASSUME OverlapInv, Miss
  PROVE  OverlapInv'
<1>1. /\ pc = "neighbors" /\ pc' = "command" /\ Current \notin hash /\ ~Waiting
      /\ UNCHANGED <<graph, distance, current_L_size, list, candidate_count,
                     visited_count, sorted_tail, expanded_log, p_star,
                     neighbor, log_head, hash, visited, cache, page_in_buffer,
                     transfer, buffers, prev, prev_buf, cur_buf_idx>>
  BY DEF Miss, Goto, input, counts, logs, flash, pipeline
<1>2. transfer = NoTransfer /\ Current' = Current
  BY <1>1, NotWaiting DEF Current
<1>3. OverlapTypeOK' /\ InputInv' /\ EntryInv' /\ IdleInv' /\ CacheInv'
  BY <1>1, <1>2 DEF OverlapInv, OverlapTypeOK, InputInv, EntryInv, IdleInv,
                    CacheInv, Looking
<1>4. TransferInv' /\ BufferInv' /\ CodesAreOwn'
  BY <1>1, <1>2 DEF OverlapInv, TransferInv, BufferInv, CodesAreOwn
<1>5. ListInv' /\ CountInv'
  BY <1>1, ListStays DEF Underway, Entered
<1> QED
  BY <1>3, <1>4, <1>5 DEF OverlapInv

\* The chip is told to load a page.
LEMMA CommandStep ==
  ASSUME OverlapInv, Command
  PROVE  OverlapInv'
<1>1. /\ pc = "command" /\ pc' = "other_cmp" /\ cache' = Loading
      /\ UNCHANGED <<graph, distance, current_L_size, list, candidate_count,
                     visited_count, sorted_tail, expanded_log, p_star,
                     neighbor, log_head, hash, visited, page_in_buffer,
                     transfer, buffers, prev, prev_buf, cur_buf_idx>>
  BY DEF Command, Goto, input, counts, logs, pipeline
<1>2. transfer = NoTransfer /\ Current' = Current
  BY <1>1 DEF Current, OverlapInv, TransferInv
<1>3. OverlapTypeOK' /\ InputInv' /\ EntryInv' /\ IdleInv' /\ CacheInv'
  BY <1>1, <1>2 DEF OverlapInv, OverlapTypeOK, InputInv, EntryInv, IdleInv,
                    CacheInv, Looking
<1>4. TransferInv' /\ BufferInv' /\ CodesAreOwn'
  BY <1>1, <1>2 DEF OverlapInv, TransferInv, BufferInv, CodesAreOwn
<1>5. ListInv' /\ CountInv'
  BY <1>1, ListStays DEF Underway, Entered
<1> QED
  BY <1>3, <1>4, <1>5 DEF OverlapInv

\* The chip has loaded it.
LEMMA PollStep ==
  ASSUME OverlapInv, Poll
  PROVE  OverlapInv'
<1>1. /\ pc = "poll" /\ pc' = "start"
      /\ cache' = CodePage[Current] /\ page_in_buffer' = CodePage[Current]
      /\ UNCHANGED <<graph, distance, current_L_size, list, candidate_count,
                     visited_count, sorted_tail, expanded_log, p_star,
                     neighbor, log_head, hash, visited, transfer, buffers,
                     prev, prev_buf, cur_buf_idx>>
  BY DEF Poll, Goto, input, counts, logs, pipeline
<1>2. transfer = NoTransfer /\ Current' = Current
  BY <1>1 DEF Current, OverlapInv, TransferInv
<1>3. Current \in Vectors
  BY <1>1, OverlapTypes DEF OverlapInv, Looking
<1>4. CodePage[Current] \in CodePages
  BY <1>3 DEF CodePages
<1>5. OverlapTypeOK'
  BY <1>1, <1>4 DEF OverlapInv, OverlapTypeOK
<1>6. InputInv' /\ EntryInv' /\ IdleInv' /\ CacheInv'
  BY <1>1, <1>2 DEF OverlapInv, InputInv, EntryInv, IdleInv, CacheInv, Looking
<1>7. TransferInv' /\ BufferInv' /\ CodesAreOwn'
  BY <1>1, <1>2 DEF OverlapInv, TransferInv, BufferInv, CodesAreOwn
<1>8. ListInv' /\ CountInv'
  BY <1>1, ListStays DEF Underway, Entered
<1> QED
  BY <1>5, <1>6, <1>7, <1>8 DEF OverlapInv

\* A transfer begins: it takes the buffer that prev does not need.
LEMMA StartTransferStep ==
  ASSUME OverlapInv, StartTransfer
  PROVE  OverlapInv'
<1>1. /\ pc = "start" /\ pc' = "compute" /\ ~Waiting
      /\ transfer' = [vector |-> Current, buf |-> cur_buf_idx]
      /\ buffers' = [buffers EXCEPT ![cur_buf_idx] = Null]
      /\ UNCHANGED <<graph, distance, current_L_size, list, candidate_count,
                     visited_count, sorted_tail, expanded_log, p_star,
                     neighbor, log_head, hash, visited, cache, page_in_buffer,
                     prev, prev_buf, cur_buf_idx>>
  BY DEF StartTransfer, Goto, input, counts, logs, flash, pipeline
<1>2. transfer = NoTransfer /\ Current' = Current
  BY <1>1, NotWaiting DEF Current
<1>3. Current \in Vectors /\ cache = CodePage[Current]
  BY <1>1, OverlapTypes DEF OverlapInv, Looking, CacheInv
<1>4. cur_buf_idx \in 1..2 /\ prev_buf \in 1..2
      /\ buffers \in [1..2 -> Vectors \union {Null}]
  BY DEF OverlapInv, OverlapTypeOK
<1>5. OverlapTypeOK'
  <2>1. /\ transfer' \in [vector : Vectors, buf : 1..2]
        /\ buffers' \in [1..2 -> Vectors \union {Null}]
    BY <1>1, <1>3, <1>4
  <2> QED
    BY <1>1, <2>1 DEF OverlapInv, OverlapTypeOK
<1>6. InputInv' /\ EntryInv' /\ IdleInv' /\ CacheInv'
  BY <1>1, <1>2 DEF OverlapInv, InputInv, EntryInv, IdleInv, CacheInv, Looking
<1>7. TransferInv' /\ BufferInv'
  <2>1. transfer'.vector = Current
    BY <1>1
  <2> QED
    BY <1>1, <1>2, <1>3, <2>1 DEF OverlapInv, TransferInv, BufferInv
<1>8. CodesAreOwn'
  <2>1. ASSUME prev # Null PROVE buffers'[prev_buf] = prev
    <3>1. buffers[prev_buf] = prev
      BY <1>1, <1>2, <2>1, CodeArrived
    <3>2. cur_buf_idx # prev_buf
      BY <1>1, <1>4, <2>1 DEF OverlapInv, BufferInv
    <3> QED
      BY <1>1, <1>4, <3>1, <3>2
  <2> QED
    BY <1>1, <2>1 DEF CodesAreOwn
<1>9. ListInv' /\ CountInv'
  BY <1>1, ListStays DEF Underway, Entered
<1> QED
  BY <1>5, <1>6, <1>7, <1>8, <1>9 DEF OverlapInv

\* A transfer ends: the code has come from the right page, into the buffer of
\* its own vector.
LEMMA TransferDoneStep ==
  ASSUME OverlapInv, TransferDone
  PROVE  OverlapInv'
<1>1. /\ transfer # NoTransfer /\ transfer' = NoTransfer
      /\ buffers' = [buffers EXCEPT ![transfer.buf] =
                       IF cache = CodePage[transfer.vector]
                       THEN transfer.vector ELSE Null]
      /\ UNCHANGED <<pc, graph, distance, current_L_size, list,
                     candidate_count, visited_count, sorted_tail,
                     expanded_log, p_star, neighbor, log_head, hash, visited,
                     cache, page_in_buffer, prev, prev_buf, cur_buf_idx>>
      /\ Current' = Current
  BY DEF TransferDone, vars, input, counts, flash, pipeline, Current
<1>2. /\ transfer.vector \in Vectors /\ transfer.buf \in 1..2
      /\ cur_buf_idx \in 1..2 /\ prev_buf \in 1..2
      /\ buffers \in [1..2 -> Vectors \union {Null}]
  BY <1>1, TransferHasVector DEF OverlapInv, OverlapTypeOK
<1>3. OverlapTypeOK'
  <2>1. buffers' \in [1..2 -> Vectors \union {Null}]
    BY <1>1, <1>2
  <2> QED
    BY <1>1, <2>1 DEF OverlapInv, OverlapTypeOK
<1>4. InputInv' /\ EntryInv' /\ IdleInv' /\ CacheInv' /\ TransferInv'
  BY <1>1 DEF OverlapInv, InputInv, EntryInv, IdleInv, CacheInv, TransferInv,
              Looking
<1>5. pc # "halted" =>
        /\ cache = CodePage[transfer.vector]
        /\ transfer = IF pc = "compute"
                      THEN [vector |-> Current, buf |-> cur_buf_idx]
                      ELSE [vector |-> prev, buf |-> prev_buf]
  BY <1>1 DEF OverlapInv, TransferInv
<1>6. pc # "halted" => buffers' = [buffers EXCEPT ![transfer.buf] =
                                     transfer.vector]
  BY <1>1, <1>5
<1>7. BufferInv'
  <2>1. prev # Null /\ pc # "halted" => cur_buf_idx = 3 - prev_buf
    BY DEF OverlapInv, BufferInv
  <2>2. ASSUME pc = "compute" PROVE buffers'[cur_buf_idx] = Current
    <3>1. transfer.buf = cur_buf_idx /\ transfer.vector = Current
      BY <1>5, <2>2
    <3> QED
      BY <1>2, <1>6, <2>2, <3>1
  <2> QED
    BY <1>1, <2>1, <2>2 DEF BufferInv
<1>8. CodesAreOwn'
  <2> SUFFICES ASSUME prev # Null, pc # "halted"
               PROVE  buffers'[prev_buf] = prev
    BY <1>1 DEF CodesAreOwn
  <2>1. CASE pc = "compute"
    <3>1. transfer.buf = cur_buf_idx /\ cur_buf_idx # prev_buf
      BY <1>2, <1>5, <2>1 DEF OverlapInv, BufferInv
    <3>2. transfer # [vector |-> prev, buf |-> prev_buf]
      BY <3>1
    <3>3. buffers[prev_buf] = prev
      BY <3>2 DEF OverlapInv, CodesAreOwn
    <3> QED
      BY <1>1, <1>2, <3>1, <3>3
  <2>2. CASE pc # "compute"
    <3>1. transfer.buf = prev_buf /\ transfer.vector = prev
      BY <1>5, <2>2
    <3> QED
      BY <1>2, <1>6, <3>1
  <2> QED
    BY <2>1, <2>2
<1>9. ListInv' /\ CountInv'
  BY <1>1, ListStays DEF Underway, Entered
<1> QED
  BY <1>3, <1>4, <1>7, <1>8, <1>9 DEF OverlapInv

\* A candidate is entered while the chip loads its page, or while the code of
\* prev is read from the same page.
LEMMA OtherCmpStep ==
  ASSUME OverlapInv, MissOtherCmp \/ HitOtherCmp
  PROVE  OverlapInv'
<1>1. /\ \/ pc = "other_cmp" /\ pc' = "poll"
         \/ /\ pc = "neighbors" /\ pc' = "start"
            /\ page_in_buffer = CodePage[Current] /\ Current \notin hash
      /\ \E l \in {"poll", "start"} : OtherCmp(l)
      /\ UNCHANGED <<cache, page_in_buffer, transfer, buffers, prev, prev_buf,
                     cur_buf_idx>>
  BY DEF MissOtherCmp, HitOtherCmp, Hit, OtherCmp, flash, pipeline
<1>2. Underway /\ Looking /\ ~Entered /\ Current \notin hash
  BY <1>1 DEF Underway, Looking, Entered, OverlapInv, InputInv
<1>3. /\ ListInv' /\ CountInv'
      /\ log_head' \in 0..Capacity
      /\ hash' \subseteq Vectors /\ visited' \subseteq Vectors
      /\ candidate_count' \in Nat
      /\ UNCHANGED <<graph, distance, current_L_size, list, visited_count,
                     sorted_tail, p_star, neighbor, Current>>
  BY <1>1, <1>2, CandidateEntered
<1>4. OverlapTypeOK'
  BY <1>1, <1>3 DEF OverlapInv, OverlapTypeOK
<1>5. InputInv' /\ EntryInv' /\ IdleInv' /\ CacheInv'
  BY <1>1, <1>2, <1>3 DEF OverlapInv, InputInv, EntryInv, IdleInv, CacheInv,
                          Looking
<1>6. TransferInv' /\ BufferInv' /\ CodesAreOwn'
  BY <1>1, <1>3 DEF OverlapInv, TransferInv, BufferInv, CodesAreOwn
<1> QED
  BY <1>3, <1>4, <1>5, <1>6 DEF OverlapInv

\* A candidate takes the place of prev, and its buffer becomes that of prev.
LEMMA ComputeStep ==
  ASSUME OverlapInv, Compute
  PROVE  OverlapInv'
<1>1. /\ pc = "compute" /\ prev' = Current /\ prev_buf' = cur_buf_idx
      /\ cur_buf_idx' = 3 - cur_buf_idx
      /\ pc' \in {"neighbors", "drain"}
      /\ neighbor' = IF neighbor < Degree THEN neighbor + 1 ELSE 1
      /\ UNCHANGED <<graph, distance, current_L_size, expanded_log, p_star,
                     log_head, hash, visited, cache, page_in_buffer, transfer,
                     buffers>>
  BY DEF Compute, Advance, input, logs, flash
<1>2. /\ ListInv' /\ CountInv' /\ list' \in Seq(Vectors)
      /\ candidate_count' \in Nat /\ visited_count' \in Nat
      /\ sorted_tail' \in Vectors \union {Null}
  BY ComputedList
<1>3. Current \in Vectors /\ p_star \in Vectors /\ cur_buf_idx \in 1..2
  BY <1>1, OverlapTypes DEF OverlapInv, OverlapTypeOK, InputInv, Looking
<1>4. OverlapTypeOK'
  <2>1. neighbor' \in 1..Degree
    <3>1. neighbor \in 1..Degree /\ Degree \in Nat \ {0}
      BY DegreeAssumption DEF OverlapInv, OverlapTypeOK
    <3> QED
      BY <1>1, <3>1
  <2>2. cur_buf_idx' \in 1..2 /\ prev_buf' \in 1..2
    BY <1>1, <1>3
  <2> QED
    BY <1>1, <1>2, <1>3, <2>1, <2>2 DEF OverlapInv, OverlapTypeOK
<1>5. InputInv' /\ EntryInv' /\ IdleInv' /\ CacheInv'
  BY <1>1, <1>3 DEF OverlapInv, InputInv, EntryInv, IdleInv, CacheInv, Looking
<1>6. TransferInv' /\ BufferInv' /\ CodesAreOwn'
  BY <1>1, <1>3 DEF OverlapInv, TransferInv, BufferInv, CodesAreOwn
<1> QED
  BY <1>2, <1>4, <1>5, <1>6 DEF OverlapInv

\* prev is settled for a neighbour that is known, or behind the last one.
LEMMA SettleStep ==
  ASSUME OverlapInv, DuplicateNeighbor \/ Drain
  PROVE  OverlapInv'
<1>1. /\ SettlePrev /\ ~Waiting
      /\ \/ pc = "neighbors" /\ Advance
         \/ pc = "drain" /\ pc' = "select" /\ UNCHANGED neighbor
      /\ UNCHANGED <<graph, distance, current_L_size, expanded_log, p_star>>
  BY DEF DuplicateNeighbor, Drain, SettlePrev, Advance, input
<1>2. /\ pc \in {"neighbors", "drain"}
      /\ pc' \in {"neighbors", "drain", "select"}
      /\ pc = "drain" => pc' = "select"
  BY <1>1 DEF Advance
<1>3. Underway /\ ~Entered /\ ~Entered'
  BY <1>2 DEF Underway, Entered
<1>4. /\ ListInv' /\ CountInv' /\ list' \in Seq(Vectors)
      /\ UNCHANGED <<candidate_count, visited_count, sorted_tail, log_head,
                     hash, visited, cache, page_in_buffer, transfer,
                     buffers, prev_buf, cur_buf_idx>>
      /\ prev' = Null
  BY <1>1, <1>3, PreviousSettled
<1>5. transfer = NoTransfer
  BY <1>1, <1>2, NotWaiting
<1>6. OverlapTypeOK'
  <2>1. neighbor' \in 1..Degree
    <3>1. neighbor \in 1..Degree /\ Degree \in Nat \ {0}
      BY DegreeAssumption DEF OverlapInv, OverlapTypeOK
    <3>2. CASE Advance
      BY <3>1, <3>2 DEF Advance
    <3>3. CASE UNCHANGED neighbor
      BY <3>1, <3>3
    <3> QED
      BY <1>1, <3>2, <3>3
  <2> QED
    BY <1>2, <1>4, <2>1 DEF OverlapInv, OverlapTypeOK
<1>7. InputInv' /\ EntryInv' /\ IdleInv' /\ CacheInv'
  <2>1. pc' = "neighbors" => pc = "neighbors"
    BY <1>2
  <2> QED
    BY <1>1, <1>2, <1>4, <2>1 DEF OverlapInv, InputInv, EntryInv, IdleInv,
                                  CacheInv, Looking
<1>8. TransferInv' /\ BufferInv' /\ CodesAreOwn'
  BY <1>2, <1>4, <1>5 DEF TransferInv, BufferInv, CodesAreOwn
<1> QED
  BY <1>4, <1>6, <1>7, <1>8 DEF OverlapInv

\* A new query finds the chip and the pipeline idle.
LEMMA StartStep ==
  ASSUME OverlapInv, Start
  PROVE  OverlapInv'
<1>1. PICK d \in Distances, l \in ListSizes : InitSearchLog(d, l)
  BY DEF Start
<1>2. /\ pc \in {"idle", "done"} /\ pc' = "entry"
      /\ distance' = d /\ current_L_size' = l
      /\ log_head' = 0 /\ hash' = {} /\ list' = <<>> /\ expanded_log' = <<>>
      /\ candidate_count' = 0 /\ visited_count' = 0 /\ sorted_tail' = Null
      /\ UNCHANGED <<graph, visited, p_star, neighbor, cache, page_in_buffer,
                     transfer, buffers, prev, prev_buf, cur_buf_idx>>
  BY <1>1 DEF Start, InitSearchLog, flash, pipeline
<1>3. OverlapTypeOK'
  BY <1>2, LogSizesAssumption DEF OverlapInv, OverlapTypeOK
<1>4. InputInv' /\ EntryInv' /\ IdleInv' /\ CacheInv'
  BY <1>2 DEF OverlapInv, InputInv, EntryInv, IdleInv, CacheInv, Looking
<1>5. TransferInv' /\ BufferInv' /\ CodesAreOwn'
  BY <1>2 DEF OverlapInv, IdleInv, TransferInv, BufferInv, CodesAreOwn
<1>6. ListInv' /\ CountInv'
  BY <1>2 DEF ListInv, CountInv, Underway
<1> QED
  BY <1>3, <1>4, <1>5, <1>6 DEF OverlapInv

\* Stopping for good, whatever is going on.
LEMMA HaltedStep ==
  ASSUME OverlapInv, OverlapTypeOK', pc' = "halted",
         UNCHANGED <<graph, distance, current_L_size>>
  PROVE  OverlapInv'
BY DEF OverlapInv, InputInv, EntryInv, ListInv, CountInv, IdleInv, CacheInv,
       TransferInv, BufferInv, CodesAreOwn, Looking, Underway

\* No room for a candidate in the search log.
LEMMA NoRoomStep ==
  ASSUME OverlapInv, NoRoom
  PROVE  OverlapInv'
<1>1. /\ pc' = "halted"
      /\ UNCHANGED <<graph, distance, current_L_size, list, candidate_count,
                     visited_count, sorted_tail, neighbor, log_head, hash,
                     visited, cache, page_in_buffer, transfer, buffers, prev,
                     prev_buf, cur_buf_idx>>
  BY DEF NoRoom, Goto, input, counts, logs, flash, pipeline
<1>2. OverlapTypeOK'
  BY <1>1 DEF OverlapInv, OverlapTypeOK
<1> QED
  BY <1>1, <1>2, HaltedStep

\* The entry vector is the whole list, and nothing is on its way.
LEMMA EntryStep ==
  ASSUME OverlapInv, OverlapAddEntry
  PROVE  OverlapInv'
<1>1. /\ pc = "entry" /\ AddEntry
      /\ page_in_buffer' = CodePage[Entry]
      /\ cache' = IF page_in_buffer = CodePage[Entry] THEN cache
                  ELSE CodePage[Entry]
      /\ buffers' = [buffers EXCEPT ![1] = IF cache' = CodePage[Entry]
                                           THEN Entry ELSE Null]
      /\ UNCHANGED <<transfer, prev, prev_buf, cur_buf_idx>>
  BY DEF OverlapAddEntry, AddEntry, Load, pipeline
<1>2. /\ hash' = {Entry} /\ list' = <<Entry>> /\ Range(list') = {Entry}
      /\ candidate_count' = 1 /\ visited_count' = 0 /\ sorted_tail' = Null
      /\ visited' = visited \ {Entry}
      /\ log_head' \in 0..Capacity /\ pc' = "select"
      /\ UNCHANGED <<graph, distance, current_L_size, p_star, neighbor>>
  BY <1>1, EntryAdded DEF OverlapInv
<1>3. prev = Null /\ transfer = NoTransfer /\ cache = page_in_buffer
  BY <1>1 DEF OverlapInv, IdleInv, TransferInv, CacheInv
<1>4. Entry \in Vectors /\ CodePage[Entry] \in CodePages
  BY VectorsAssumption DEF CodePages
<1>5. OverlapTypeOK'
  <2>1. /\ buffers' \in [1..2 -> Vectors \union {Null}]
        /\ cache' \in CodePages
        /\ visited' \subseteq Vectors
    BY <1>1, <1>2, <1>3, <1>4 DEF OverlapInv, OverlapTypeOK
  <2>2. list' \in Seq(Vectors)
    BY <1>2, <1>4
  <2> QED
    BY <1>1, <1>2, <1>3, <1>4, <2>1, <2>2 DEF OverlapInv, OverlapTypeOK
<1>6. InputInv' /\ EntryInv' /\ IdleInv' /\ CacheInv'
  BY <1>1, <1>2, <1>3 DEF OverlapInv, InputInv, EntryInv, IdleInv, CacheInv,
                          Looking
<1>7. TransferInv' /\ BufferInv' /\ CodesAreOwn'
  BY <1>1, <1>2, <1>3 DEF TransferInv, BufferInv, CodesAreOwn
<1>8. ListInv' /\ CountInv'
  <2>1. ~Entered' /\ Previous' = {} /\ Len(list') = 1 /\ Length' = 1
    BY <1>1, <1>2, <1>3 DEF Entered, Previous, Length
  <2>2. Ordered(list')
    BY <2>1 DEF Ordered
  <2>3. visited_count' = Cardinality(visited' \intersect Range(list'))
    <3>1. visited' \intersect Range(list') = {}
      BY <1>2
    <3> QED
      BY <1>2, <3>1, FS_EmptySet
  <2>4. current_L_size \in Nat \ {0}
    BY OverlapTypes DEF OverlapInv
  <2>5. candidate_count' = Min({Length', current_L_size})
    <3>1. Min({1, current_L_size}) = 1
      BY <2>4, MinOfTwo
    <3> QED
      BY <1>2, <2>1, <3>1
  <2>6. Length' <= current_L_size + 1 /\ candidate_count' \in Nat
    BY <1>2, <2>1, <2>4
  <2>7. /\ Range(list') \subseteq hash' \ Previous'
        /\ Previous' \subseteq hash' \ visited'
        /\ hash' \ (Range(list') \union Previous') = {}
    BY <1>2, <2>1
  <2> QED
    BY <1>2, <2>1, <2>2, <2>3, <2>5, <2>6, <2>7, NothingEntered
<1> QED
  BY <1>5, <1>6, <1>7, <1>8 DEF OverlapInv

\* The candidate that is expanded, or for which expanded_log has no room, and
\* its flag.
LEMMA Flagged ==
  ASSUME OverlapInv, pc = "select", Unvisited # {},
         MarkVisited(ClosestUnvisited)
  PROVE  /\ ClosestUnvisited \in Vectors /\ prev = Null /\ Pending = {}
         /\ visited' \subseteq Vectors /\ visited_count' \in Nat
         /\ visited_count' = Cardinality(visited' \intersect Range(list))
<1>1. prev = Null /\ Pending = {} /\ Underway
  BY DEF OverlapInv, IdleInv, Pending, Previous, Entered, Underway
<1>2. /\ list \in Seq(Vectors) /\ distance \in [Vectors -> Nat]
      /\ Range(list) \subseteq Vectors
  BY OverlapTypes DEF OverlapInv
<1>3. /\ Ordered(list) /\ visited \subseteq Vectors
      /\ visited_count = Cardinality(visited \intersect Range(list))
  BY <1>1 DEF OverlapInv, ListInv, OverlapTypeOK
<1>4. ClosestUnvisited \in (Vectors \intersect Range(list)) \ visited
  BY <1>2, <1>3, ClosestIsFirst
<1> QED
  BY <1>1, <1>3, <1>4, VisitedCountsOn

\* A candidate is expanded with nothing on its way.
LEMMA OverlapExpandStep ==
  ASSUME OverlapInv, OverlapExpand
  PROVE  OverlapInv'
<1>1. /\ pc = "select" /\ pc' = "neighbors" /\ Unvisited # {}
      /\ MarkVisited(ClosestUnvisited) /\ p_star' = ClosestUnvisited
      /\ neighbor' = 1 /\ prev' = Null /\ cur_buf_idx' = 1
      /\ page_in_buffer' = NeighborPage
      /\ cache' = IF page_in_buffer = NeighborPage THEN cache
                  ELSE NeighborPage
      /\ UNCHANGED <<graph, distance, current_L_size, list, log_head, hash,
                     candidate_count, sorted_tail, transfer, buffers,
                     prev_buf>>
  BY DEF OverlapExpand, Expand, CanExpand, Load, input
<1>2. /\ ClosestUnvisited \in Vectors /\ prev = Null /\ Pending = {}
      /\ visited' \subseteq Vectors /\ visited_count' \in Nat
      /\ visited_count' = Cardinality(visited' \intersect Range(list))
  BY <1>1, Flagged
<1>3. transfer = NoTransfer /\ cache = page_in_buffer
  BY <1>1 DEF OverlapInv, TransferInv, CacheInv
<1>4. OverlapTypeOK'
  <2>1. neighbor' \in 1..Degree
    BY <1>1, DegreeAssumption
  <2> QED
    BY <1>1, <1>2, <1>3, <2>1 DEF OverlapInv, OverlapTypeOK
<1>5. InputInv' /\ EntryInv' /\ IdleInv' /\ CacheInv'
  BY <1>1, <1>2, <1>3 DEF OverlapInv, InputInv, EntryInv, IdleInv, CacheInv,
                          Looking
<1>6. TransferInv' /\ BufferInv' /\ CodesAreOwn'
  BY <1>1, <1>3 DEF TransferInv, BufferInv, CodesAreOwn
<1>7. ListInv' /\ CountInv'
  <2>1. Underway /\ ~Entered /\ ~Entered' /\ Previous' = {} /\ Length' = Length
    BY <1>1, <1>2 DEF Underway, Entered, Previous, Length
  <2>2. /\ Ordered(list) /\ Range(list) \subseteq hash
        /\ \A v \in hash \ Range(list) :
             /\ Len(list) >= current_L_size
             /\ distance[v] >= distance[list[current_L_size]]
    BY <1>2, <2>1 DEF OverlapInv, ListInv
  <2>3. /\ Length <= current_L_size + 1 /\ candidate_count \in Nat
        /\ candidate_count = Min({Length, current_L_size})
    <3>1. /\ Length <= current_L_size + 1
          /\ candidate_count = Min({Length, current_L_size})
                                 + (IF Entered THEN 1 ELSE 0)
      BY <2>1 DEF OverlapInv, CountInv
    <3>2. candidate_count = Min({Length, current_L_size}) + 0
      BY <2>1, <3>1
    <3>3. Min({Length, current_L_size}) \in Nat
      <4>1. /\ Length \in Nat /\ current_L_size \in Nat
            /\ Min({Length, current_L_size})
                 = IF Length <= current_L_size THEN Length ELSE current_L_size
        BY Counted, OverlapTypes DEF OverlapInv
      <4> QED
        BY <4>1
    <3> QED
      BY <3>1, <3>2, <3>3
  <2> QED
    BY <1>1, <1>2, <2>1, <2>2, <2>3, NothingEntered
<1> QED
  BY <1>4, <1>5, <1>6, <1>7 DEF OverlapInv

\* query() returns, or expanded_log is full.
LEMMA StopStep ==
  ASSUME OverlapInv, OverlapStop
  PROVE  OverlapInv'
<1>1. /\ pc = "select"
      /\ UNCHANGED <<cache, page_in_buffer, transfer, buffers, prev, prev_buf,
                     cur_buf_idx>>
  BY DEF OverlapStop, ExpandedLogFull, Finish, flash, pipeline
<1>2. CASE ExpandedLogFull
  <2>1. /\ Unvisited # {} /\ MarkVisited(ClosestUnvisited) /\ pc' = "halted"
        /\ UNCHANGED <<graph, distance, current_L_size, list, log_head, hash,
                       candidate_count, sorted_tail, neighbor>>
    BY <1>2 DEF ExpandedLogFull, CanExpand, input
  <2>2. visited' \subseteq Vectors /\ visited_count' \in Nat
    BY <1>1, <2>1, Flagged
  <2>3. OverlapTypeOK'
    BY <1>1, <2>1, <2>2 DEF OverlapInv, OverlapTypeOK
  <2> QED
    BY <2>1, <2>3, HaltedStep
<1>3. CASE Finish
  <2>1. /\ pc' = "done"
        /\ UNCHANGED <<graph, distance, current_L_size, list, candidate_count,
                       visited_count, sorted_tail, expanded_log, p_star,
                       neighbor, log_head, hash, visited>>
    BY <1>3 DEF Finish, input, counts
  <2>2. OverlapTypeOK' /\ InputInv' /\ EntryInv' /\ IdleInv' /\ CacheInv'
    BY <1>1, <2>1 DEF OverlapInv, OverlapTypeOK, InputInv, EntryInv, IdleInv,
                      CacheInv, Looking
  <2>3. TransferInv' /\ BufferInv' /\ CodesAreOwn'
    BY <1>1, <2>1 DEF OverlapInv, TransferInv, BufferInv, CodesAreOwn
  <2>4. ListInv' /\ CountInv'
    BY <1>1, <2>1, ListStays DEF Underway, Entered
  <2> QED
    BY <2>2, <2>3, <2>4 DEF OverlapInv
<1> QED
  BY <1>2, <1>3 DEF OverlapStop

\* Nothing has been entered, loaded or transferred at the start.
LEMMA OverlapInitEstablishes == OverlapInit => OverlapInv
<1> SUFFICES ASSUME OverlapInit PROVE OverlapInv
  OBVIOUS
<1>1. OverlapTypeOK
  BY LogSizesAssumption, DegreeAssumption DEF OverlapInit, Init, OverlapTypeOK
<1>2. InputInv /\ EntryInv /\ IdleInv /\ CacheInv
  BY DEF OverlapInit, Init, InputInv, EntryInv, IdleInv, CacheInv, Looking
<1>3. ListInv /\ CountInv
  BY DEF OverlapInit, Init, ListInv, CountInv, Underway
<1>4. TransferInv /\ BufferInv /\ CodesAreOwn
  BY DEF OverlapInit, Init, TransferInv, BufferInv, CodesAreOwn
<1> QED
  BY <1>1, <1>2, <1>3, <1>4 DEF OverlapInv

\* Where no variable changes, nothing does.
LEMMA OverlapStutterStep == OverlapInv /\ UNCHANGED overlapVars => OverlapInv'
<1> SUFFICES ASSUME OverlapInv, UNCHANGED overlapVars PROVE OverlapInv'
  OBVIOUS
<1>1. UNCHANGED <<pc, graph, distance, current_L_size, list, candidate_count,
                  visited_count, sorted_tail, expanded_log, p_star, neighbor,
                  log_head, hash, visited, cache, page_in_buffer, transfer,
                  buffers, prev, prev_buf, cur_buf_idx, Current>>
  BY DEF overlapVars, vars, input, counts, flash, pipeline, Current
<1>2. OverlapTypeOK' /\ InputInv' /\ EntryInv' /\ IdleInv' /\ CacheInv'
  BY <1>1 DEF OverlapInv, OverlapTypeOK, InputInv, EntryInv, IdleInv, CacheInv,
              Looking
<1>3. TransferInv' /\ BufferInv' /\ CodesAreOwn'
  BY <1>1 DEF OverlapInv, TransferInv, BufferInv, CodesAreOwn
<1>4. ListInv' /\ CountInv'
  BY <1>1, ListStays DEF Underway, Entered
<1> QED
  BY <1>2, <1>3, <1>4 DEF OverlapInv

\* Every step of the program and of the DMA keeps the invariant.
LEMMA OverlapStepPreserves ==
  OverlapInv /\ [OverlapNext]_overlapVars => OverlapInv'
<1> SUFFICES ASSUME OverlapInv, [OverlapNext]_overlapVars PROVE OverlapInv'
  OBVIOUS
<1>1. CASE UNCHANGED overlapVars
  BY <1>1, OverlapStutterStep
<1>2. CASE TransferDone
  BY <1>2, TransferDoneStep
<1>3. CASE Start \/ OverlapAddEntry \/ OverlapExpand \/ OverlapStop
  BY <1>3, StartStep, EntryStep, OverlapExpandStep, StopStep
<1>4. CASE Miss \/ Command \/ Poll \/ StartTransfer
  BY <1>4, MissStep, CommandStep, PollStep, StartTransferStep
<1>5. CASE MissOtherCmp \/ HitOtherCmp \/ NoRoom
  BY <1>5, OtherCmpStep, NoRoomStep
<1>6. CASE Compute \/ DuplicateNeighbor \/ Drain
  BY <1>6, ComputeStep, SettleStep
<1> QED
  BY <1>1, <1>2, <1>3, <1>4, <1>5, <1>6 DEF OverlapNext, Program

-----------------------------------------------------------------------------
\* The invariant holds in every state of the overlapped search.
THEOREM OverlapInvHolds == OverlapSpec => []OverlapInv
<1>1. OverlapInit => OverlapInv
  BY OverlapInitEstablishes
<1>2. OverlapInv /\ [OverlapNext]_overlapVars => OverlapInv'
  BY OverlapStepPreserves
<1> QED
  BY <1>1, <1>2, PTL DEF OverlapSpec

\* The chip gets no command, and is not polled, while a code is read from it:
\* the waits for prev are where they have to be.
THEOREM BusCorrect == OverlapSpec => []BusIsFree
<1>1. OverlapInv => BusIsFree
  <2> SUFFICES ASSUME OverlapInv PROVE BusIsFree
    OBVIOUS
  <2>1. transfer # NoTransfer =>
          pc \in {"neighbors", "start", "compute", "drain", "halted"}
    BY DEF OverlapInv, TransferInv
  <2> QED
    BY <2>1 DEF OverlapInv, BusIsFree
<1> QED
  BY <1>1, OverlapInvHolds, PTL

\* The distance of a candidate is computed from its own code: the two buffers
\* take turns, and a page is only given up when its code has been read.
THEOREM CodesCorrect == OverlapSpec => []CodesAreOwn
<1>1. OverlapInv => CodesAreOwn
  BY DEF OverlapInv
<1> QED
  BY <1>1, OverlapInvHolds, PTL

\* When the pipeline has run empty the list holds the best of what was met,
\* and is longer than its counter says by one entry at most.
THEOREM ListLeadsCorrect == OverlapSpec => []ListLeadsByOne
<1>1. ASSUME OverlapInv, pc \in {"select", "done"}
      PROVE  /\ \A i, j \in 1..Len(list) :
                  i < j => /\ list[i] # list[j]
                           /\ distance[list[i]] <= distance[list[j]]
             /\ Len(list) <= current_L_size + 1
             /\ candidate_count = Min({Len(list), current_L_size})
             /\ visited_count = Cardinality(visited \intersect Range(list))
             /\ Range(list) \subseteq hash
             /\ \A v \in hash \ Range(list) :
                  /\ Len(list) >= current_L_size
                  /\ distance[v] >= distance[list[current_L_size]]
  <2>1. Underway /\ ~Entered /\ prev = Null /\ Pending = {}
    BY <1>1 DEF OverlapInv, IdleInv, Underway, Entered, Pending, Previous
  <2>2. Length = Len(list)
    BY <1>1, <2>1, Counted DEF OverlapInv
  <2>3. /\ Len(list) <= current_L_size + 1
        /\ candidate_count = Min({Len(list), current_L_size})
    <3>1. /\ Length <= current_L_size + 1
          /\ candidate_count = Min({Length, current_L_size})
                                 + (IF Entered THEN 1 ELSE 0)
      BY <1>1, <2>1 DEF OverlapInv, CountInv
    <3>2. candidate_count = Min({Len(list), current_L_size}) + 0
      BY <2>1, <2>2, <3>1
    <3>3. Min({Len(list), current_L_size}) \in Nat
      <4>1. Len(list) \in Nat /\ current_L_size \in Nat
        BY <1>1, OverlapTypes DEF OverlapInv
      <4> QED
        BY <4>1, MinOfTwo
    <3> QED
      BY <2>2, <3>1, <3>2, <3>3
  <2> QED
    BY <1>1, <2>1, <2>3 DEF OverlapInv, ListInv, Ordered
<1>2. OverlapInv => ListLeadsByOne
  BY <1>1 DEF ListLeadsByOne
<1> QED
  BY <1>2, OverlapInvHolds, PTL

=============================================================================
