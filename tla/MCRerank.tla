------------------------------ MODULE MCRerank ------------------------------
(***************************************************************************)
(* Model-checking instance of Rerank: one to four of four vectors          *)
(* expanded, every order of their exact distances with and without ties,   *)
(* and a long PQ code that puts the vectors in another order.              *)
(***************************************************************************)
EXTENDS Rerank

CONSTANTS v1, v2, v3, v4

MCVectors == {v1, v2, v3, v4}
MCModes == {"lea", "fullvec", "longpq"}
MCExactDistances == {d \in [MCVectors -> 0..2] : d[v1] <= d[v2]}
MCLongDistances == {(v1 :> 2) @@ (v2 :> 0) @@ (v3 :> 1) @@ (v4 :> 1)}
=============================================================================
