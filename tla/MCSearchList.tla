---------------------------- MODULE MCSearchList ----------------------------
(***************************************************************************)
(* Model-checking instance of SearchList: six vectors with two neighbours  *)
(* each, four graphs (a tree, a cycle with chords, one with a vector       *)
(* reached late by a detour, and one that reaches more vectors than the    *)
(* logs hold), and every way in which the others can be closer than, as    *)
(* far as and farther than the entry vector.                               *)
(***************************************************************************)
EXTENDS SearchList

CONSTANTS v1, v2, v3, v4, v5, v6

MCVectors == {v1, v2, v3, v4, v5, v6}
Tree == (v1 :> <<v2, v3>>) @@ (v2 :> <<v4, v5>>) @@ (v3 :> <<v1, v2>>)
          @@ (v4 :> <<v4, v1>>) @@ (v5 :> <<v3, v3>>) @@ (v6 :> <<v1, v1>>)
Cycle == (v1 :> <<v2, v5>>) @@ (v2 :> <<v3, v1>>) @@ (v3 :> <<v4, v2>>)
           @@ (v4 :> <<v5, v1>>) @@ (v5 :> <<v1, v4>>) @@ (v6 :> <<v1, v1>>)
Detour == (v1 :> <<v2, v2>>) @@ (v2 :> <<v3, v4>>) @@ (v3 :> <<v4, v3>>)
            @@ (v4 :> <<v5, v2>>) @@ (v5 :> <<v1, v3>>) @@ (v6 :> <<v1, v1>>)
Wide == (v1 :> <<v2, v3>>) @@ (v2 :> <<v1, v4>>) @@ (v3 :> <<v5, v1>>)
          @@ (v4 :> <<v5, v6>>) @@ (v5 :> <<v4, v6>>) @@ (v6 :> <<v1, v2>>)
MCGraphs == {Tree, Cycle, Detour, Wide}
MCDistances == {d \in [MCVectors -> 0..2] : d[v1] = 1 /\ d[v6] = d[v5]}
MCListSizes == {1, 3}
=============================================================================
