----------------------------- MODULE MCHashMapIter -----------------------------
(* The iterators over a small map: k1 and k2 share bucket 0 and k3 has    *)
(* bucket 1, so IT_BLOCK iterations cross from one bucket to the next,     *)
(* both ways, and a set of k3 after a del or an elimination reuses the     *)
(* chunk a bucket sweep may still be standing on.                          *)
EXTENDS HashMapLockIter, TLC

CONSTANTS k1, k2, k3, v1

MCKeys == {k1, k2, k3}
MCVals == {v1}
MCHashOf == (k1 :> 0) @@ (k2 :> 0) @@ (k3 :> 1)
MCChunksFor == (v1 :> 1)
MCBuckets == {0, 1}

(* k1 and k2 share a bucket, so swapping them preserves hashIndex. *)
MCSymmetry == Permutations({k1, k2})
==============================================================================
