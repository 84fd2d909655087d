----------------------------- MODULE HashMapCache -----------------------------
(***************************************************************************)
(* What TC_HashMap promises its user, without offsets, chunks or buckets:  *)
(* a map from keys to records (value or key only, dirty flag) with two     *)
(* recency orders, most recent first: the SET order of set/setDirty/       *)
(* setClean calls and the GET order of get calls (a new key also enters    *)
(* the GET order at its head).  Making room for a set eliminates records   *)
(* from the end of the eviction order (GET or SET, by _cEraseMode), never  *)
(* the key being set; erase() eliminates the end of the GET order.        *)
(***************************************************************************)
EXTENDS Naturals, Sequences, FiniteSets, SequencesExt

CONSTANTS Keys, Vals, None, EraseMode

VARIABLES
    store,    \* the records: a function whose domain is the stored keys
    setSeq,   \* stored keys by last set, newest first
    getSeq    \* stored keys by last get (or insertion), newest first

cacheVars == <<store, setSeq, getSeq>>

Rec == [val : Vals \cup {None}, only : BOOLEAN, dirty : BOOLEAN]

Cache == [store |-> store, setSeq |-> setSeq, getSeq |-> getSeq]

Without(s, k) == SelectSeq(s, LAMBDA x : x # k)

Drop(C, k) == [store  |-> [x \in DOMAIN C.store \ {k} |-> C.store[x]],
               setSeq |-> Without(C.setSeq, k),
               getSeq |-> Without(C.getSeq, k)]

EvictionOrder(C) == IF EraseMode = 0 THEN C.getSeq ELSE C.setSeq

(* Eliminate n records from the end of the eviction order, sparing k. *)
RECURSIVE EvictN(_, _, _)
EvictN(C, k, n) ==
    LET cand == Without(EvictionOrder(C), k)
    IN IF n = 0 THEN C ELSE EvictN(Drop(C, Last(cand)), k, n - 1)

Evictable(C, k) == Len(Without(EvictionOrder(C), k))

Become(C) == /\ store' = C.store /\ setSeq' = C.setSeq /\ getSeq' = C.getSeq

Init == store = [x \in {} |-> None] /\ setSeq = <<>> /\ getSeq = <<>>

(* set: eliminate some records, then store k, with the record it has      *)
(* after the step, at the head of the SET order (and of the GET order if   *)
(* it is new).                                                             *)
Put(k) ==
    /\ k \in DOMAIN store'
    /\ store'[k] \in Rec
    /\ \E n \in 0..Evictable(Cache, k) :
          LET C == EvictN(Cache, k, n)
          IN Become([store  |-> [x \in DOMAIN C.store \cup {k} |->
                                   IF x = k THEN store'[k] ELSE C.store[x]],
                     setSeq |-> <<k>> \o Without(C.setSeq, k),
                     getSeq |-> IF k \in DOMAIN C.store THEN C.getSeq ELSE <<k>> \o C.getSeq])

(* set that runs out of memory after eliminating some records. *)
PutFails(k) ==
    \E n \in 1..Evictable(Cache, k) : Become(EvictN(Cache, k, n))

(* get: k moves to the head of the GET order. *)
Touch(k) ==
    /\ k \in DOMAIN store
    /\ Become([Cache EXCEPT !.getSeq = <<k>> \o Without(@, k)])

(* del *)
Forget(k) ==
    /\ k \in DOMAIN store
    /\ Become(Drop(Cache, k))

(* erase: the record least recently got. *)
RemoveOldest ==
    /\ getSeq # <<>>
    /\ Become(Drop(Cache, Last(getSeq)))

(* setDirty / setClean: change the flag, k moves to the SET head. *)
Mark(k, d) ==
    /\ k \in DOMAIN store
    /\ Become([Cache EXCEPT !.store[k].dirty = d, !.setSeq = <<k>> \o Without(@, k)])

(* setDirtyAfterSync, and sync writing a record back: change the flag in   *)
(* place.                                                                  *)
MarkInPlace(k, d) ==
    /\ k \in DOMAIN store
    /\ Become([Cache EXCEPT !.store[k].dirty = d])

Next ==
    \/ \E k \in Keys :
         \/ Put(k)
         \/ PutFails(k) \/ Touch(k) \/ Forget(k)
         \/ \E d \in BOOLEAN : Mark(k, d) \/ MarkInPlace(k, d)
    \/ RemoveOldest

Spec == Init /\ [][Next]_cacheVars
===============================================================================
