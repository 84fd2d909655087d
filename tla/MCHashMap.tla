------------------------------ MODULE MCHashMap ------------------------------
(* A small TC_HashMap for TLC: three keys over two buckets (k1 and k2      *)
(* collide in bucket 0), a one-chunk and a two-chunk value, and two        *)
(* chunks, so that the region fills after two sets and eraseExcept must    *)
(* choose between two other blocks, by the GET or by the SET chain.        *)
EXTENDS HashMap, TLC

CONSTANTS k1, k2, k3, v1, v2

MCKeys == {k1, k2, k3}
MCVals == {v1, v2}
MCHashOf == (k1 :> 0) @@ (k2 :> 0) @@ (k3 :> 1)
MCChunksFor == (v1 :> 1) @@ (v2 :> 2)
MCBuckets == {0, 1}

(* k1 and k2 share a bucket, so swapping them preserves hashIndex. *)
MCSymmetry == Permutations({k1, k2})
=============================================================================
