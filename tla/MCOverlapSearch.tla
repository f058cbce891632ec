-------------------------- MODULE MCOverlapSearch --------------------------
(***************************************************************************)
(* Model-checking instance of OverlapSearch: six vectors with three        *)
(* neighbours each, whose codes are on two pages, a beam of two,           *)
(* and search logs that are one candidate too small for some queries.      *)
(***************************************************************************)
EXTENDS OverlapSearch

CONSTANTS v1, v2, v3, v4, v5, v6

MCVectors == {v1, v2, v3, v4, v5, v6}
Fan == (v1 :> <<v2, v3, v4>>) @@ (v2 :> <<v3, v5, v1>>)
         @@ (v3 :> <<v1, v2, v6>>) @@ (v4 :> <<v5, v6, v4>>)
         @@ (v5 :> <<v2, v6, v3>>) @@ (v6 :> <<v1, v1, v5>>)
Chain == (v1 :> <<v2, v2, v1>>) @@ (v2 :> <<v1, v3, v2>>)
           @@ (v3 :> <<v4, v5, v1>>) @@ (v4 :> <<v5, v3, v5>>)
           @@ (v5 :> <<v3, v4, v1>>) @@ (v6 :> <<v1, v2, v3>>)
MCGraphs == {Fan, Chain}
MCDistances == {d \in [MCVectors -> 0..2] : d[v1] = 1}
MCListSizes == {2}
MCCodePage == [v \in MCVectors |-> IF v \in {v1, v2, v5} THEN "A" ELSE "B"]
=============================================================================
