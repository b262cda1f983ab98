---------------------------- MODULE MCSparseHash -----------------------------
(***************************************************************************)
(* A small map: three keys that all collide, or of which two meet in every *)
(* table of up to 8 buckets and none in one of 16.                         *)
(***************************************************************************)
EXTENDS SparseHash

CONSTANTS k1, k2, k3, a, b

HashesMC == {k1 :> x @@ k2 :> y @@ k3 :> z :
               <<x, y, z>> \in {<<1, 1, 1>>, <<0, 8, 3>>}}
=============================================================================
