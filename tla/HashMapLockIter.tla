---------------------------- MODULE HashMapLockIter ----------------------------
(***************************************************************************)
(* The locked iterator of TC_HashMap (lock_iterator = HashMapLockIterator  *)
(* over HashMapLockItem, tc_hashmap.h).  The header files begin(),         *)
(* rbegin(), beginSetTime(), rbeginSetTime(), beginGetTime(),              *)
(* rbeginGetTime(), beginDirty() and find(k) under "traversal functions    *)
(* that require a lock on the map": the caller holds the map lock from the *)
(* begin call until it leaves the loop, so no writer call runs inside an   *)
(* iteration.  An iterator is the offset of a block (0 = end()), a type    *)
(* (IT_BLOCK: bucket by bucket, IT_SET, IT_GET) and an order (IT_NEXT,     *)
(* IT_PREV); operator++ calls HashMapLockItem::nextItem(type) or           *)
(* prevItem(type).                                                         *)
(*                                                                         *)
(* The module puts a locked iteration beside the bucket sweep and the      *)
(* writer of HashMapHashIter: the three share the one map lock.  While a   *)
(* locked iteration is open no writer call and no locked item call runs;   *)
(* a HashMapItem::get under ItemLocked in turn keeps begin calls out.      *)
(***************************************************************************)
EXTENDS Integers, HashMapHashIter

ASSUME Buckets = 0..(Cardinality(Buckets) - 1)

IT_BLOCK == 0
IT_SET   == 1
IT_GET   == 2
IT_NEXT  == 0
IT_PREV  == 1

VARIABLE li   \* the iterator, and the keys the loop has read through it (ghost)

lockVars == <<allVars, hi, li>>

(* want is the ghost sequence of keys the iteration should return, taken   *)
(* when it begins; got the keys read through operator-> so far.            *)
NoIter == [active |-> FALSE, addr |-> NIL, type |-> IT_BLOCK, order |-> IT_NEXT,
           dirty |-> FALSE, got |-> <<>>, want |-> <<>>]

(***************************************************************************)
(* IT_BLOCK order: bucket 0 to the last bucket, each bucket chain from its *)
(* head (TC_MemVector<tagHashItem>, _iBlockNext).                          *)
(***************************************************************************)
BucketSeq(S, i) == Walk(S.blk, S.hash[i].addr, "bnext", NChunks + 1)

(* The first block of the first non-empty bucket from i upwards. *)
RECURSIVE FirstFrom(_, _)
FirstFrom(S, i) ==
    IF i >= Cardinality(Buckets) THEN NIL
    ELSE IF S.hash[i].addr # NIL THEN S.hash[i].addr
    ELSE FirstFrom(S, i + 1)

(* The last block of the last non-empty bucket from i downwards. *)
RECURSIVE LastFrom(_, _)
LastFrom(S, i) ==
    IF i < 0 THEN NIL
    ELSE IF S.hash[i].addr # NIL THEN Last(BucketSeq(S, i))
    ELSE LastFrom(S, i - 1)

(* Mutant: a bucket scan that restarts at the bucket it leaves. *)
ItemNextSameBucket(S, a, type) ==
    CASE type = IT_SET -> S.blk[a].snext
      [] type = IT_GET -> S.blk[a].gnext
      [] OTHER -> IF S.blk[a].bnext # NIL THEN S.blk[a].bnext
                  ELSE FirstFrom(S, S.blk[a].index)

(* HashMapLockItem::nextItem(iType): the next block of the chain, or, for  *)
(* IT_BLOCK at the end of a bucket chain, the head of the next non-empty   *)
(* bucket (Block::nextBlock).                                              *)
ItemNext(S, a, type) ==
    CASE type = IT_SET -> S.blk[a].snext
      [] type = IT_GET -> S.blk[a].gnext
      [] OTHER -> IF S.blk[a].bnext # NIL THEN S.blk[a].bnext
                  ELSE FirstFrom(S, S.blk[a].index + 1)

(* HashMapLockItem::prevItem(iType): the previous block, or, for IT_BLOCK  *)
(* at a bucket head, the last block of the previous non-empty bucket       *)
(* (Block::prevBlock).                                                     *)
ItemPrev(S, a, type) ==
    CASE type = IT_SET -> S.blk[a].sprev
      [] type = IT_GET -> S.blk[a].gprev
      [] OTHER -> IF S.blk[a].bprev # NIL THEN S.blk[a].bprev
                  ELSE LastFrom(S, S.blk[a].index - 1)

(***************************************************************************)
(* Reference orders the iterations are checked against, read off the       *)
(* chains as sequences of keys.                                            *)
(***************************************************************************)
KeySeq(S, seq) == [i \in 1..Len(seq) |-> S.blk[seq[i]].key]

BlockOrder(S) ==
    FoldLeft(LAMBDA acc, i : acc \o BucketSeq(S, i), <<>>,
             [j \in 1..Cardinality(Buckets) |-> j - 1])

ChainOrder(S, type) ==
    CASE type = IT_SET -> SetOrder(S)
      [] type = IT_GET -> GetOrder(S)
      [] OTHER -> BlockOrder(S)

(* The part of seq from a (inclusive) onwards. *)
From(seq, a) == LET i == CHOOSE j \in 1..Len(seq) : seq[j] = a
                IN SubSeq(seq, i, Len(seq))

(* What an iterator at offset a of the given type and order should return. *)
Expected(S, a, type, order) ==
    IF a = NIL THEN <<>>
    ELSE LET seq == IF order = IT_NEXT THEN ChainOrder(S, type)
                    ELSE Reverse(ChainOrder(S, type))
         IN KeySeq(S, From(seq, a))

BeginAt(a, type, order, fromDirty) ==
    /\ ~li.active
    /\ ~(ItemLocked /\ hi.phase = "walk")
    /\ li' = [active |-> TRUE, addr |-> a, type |-> type, order |-> order,
              dirty |-> fromDirty, got |-> <<>>,
              want |-> Expected(Region, a, type, order)]
    /\ UNCHANGED <<allVars, hi>>

(* begin(), rbegin(): IT_BLOCK from the first block of the first          *)
(* non-empty bucket, or backwards from the last block of the last one.     *)
LockBegin ==
    \/ BeginAt(FirstFrom(Region, 0), IT_BLOCK, IT_NEXT, FALSE)
    \/ BeginAt(LastFrom(Region, Cardinality(Buckets) - 1), IT_BLOCK, IT_PREV, FALSE)

(* beginSetTime(), rbeginSetTime(), beginGetTime(), rbeginGetTime(). *)
LockBeginTime ==
    \/ BeginAt(hd.setHead, IT_SET, IT_NEXT, FALSE)
    \/ BeginAt(hd.setTail, IT_SET, IT_PREV, FALSE)
    \/ BeginAt(hd.getHead, IT_GET, IT_NEXT, FALSE)
    \/ BeginAt(hd.getTail, IT_GET, IT_PREV, FALSE)

(* Mutant: the dirty iteration walks from _iDirtyTail towards the tail. *)
LockBeginDirtyForward == BeginAt(hd.dirtyTail, IT_SET, IT_NEXT, TRUE)

(* beginDirty(): from _iDirtyTail, the dirty data longest untouched,       *)
(* towards the SET head.                                                   *)
LockBeginDirty == BeginAt(hd.dirtyTail, IT_SET, IT_PREV, TRUE)

(* find(k): the block of k in IT_BLOCK order, or end(). *)
LockFind(k) == BeginAt(Find(Region, k), IT_BLOCK, IT_NEXT, FALSE)

(* it->get(k, v), then ++it. *)
LockNext ==
    /\ li.active
    /\ li.addr # NIL
    /\ li' = [li EXCEPT
                !.got = Append(@, blk[li.addr].key),
                !.addr = IF li.order = IT_NEXT THEN ItemNext(Region, li.addr, li.type)
                         ELSE ItemPrev(Region, li.addr, li.type)]
    /\ UNCHANGED <<allVars, hi>>

(* The caller leaves the loop, at end() or earlier, and unlocks the map. *)
LockRelease ==
    /\ li.active
    /\ li' = NoIter
    /\ UNCHANGED <<allVars, hi>>

(* A writer call, or setDirty() of the sweeping reader, needs the map     *)
(* lock, so it waits while a locked iteration holds it.                    *)
LockedWriter ==
    /\ ~li.active
    /\ Writer \/ ItemSetDirty
    /\ UNCHANGED li

(* HashMapItem::get under ItemLocked takes the lock for the whole walk. *)
SweepRead ==
    /\ ~(ItemLocked /\ li.active /\ hi.phase = "item")
    /\ \/ HashBegin \/ (\E i \in Buckets : HashIndex(i))
       \/ ItemGetBegin \/ ItemGetStep \/ HashNext \/ HashDone
    /\ UNCHANGED li

IterInit == SweepInit /\ li = NoIter

IterNext ==
    \/ LockedWriter
    \/ SweepRead
    \/ LockBegin \/ LockBeginTime \/ LockBeginDirty \/ \E k \in Keys : LockFind(k)
    \/ LockNext \/ LockRelease

IterSpec == IterInit /\ [][IterNext]_lockVars

(***************************************************************************)
(* Properties                                                              *)
(***************************************************************************)
(* Every locked iteration reads its chain in order: what operator++ has    *)
(* delivered is a prefix of the chain read from the start position, and at *)
(* end() it is the whole of it: no block is skipped or read twice, also    *)
(* where IT_BLOCK crosses from one bucket to the next, in either order.    *)
LockIterationExact ==
    li.active =>
        /\ IsPrefix(li.got, li.want)
        /\ (li.addr = NIL => li.got = li.want)

(* An iteration from beginDirty() that reaches end() has read every dirty  *)
(* record: the write-back loop over the dirty list misses none, whatever   *)
(* set, setDirty, setClean, setDirtyAfterSync and sync did before it.      *)
DirtyIterationCovers ==
    (li.active /\ li.dirty /\ li.addr = NIL) =>
        \A a \in Heads(Region) : blk[a].dirty => blk[a].key \in ToSet(li.got)
==============================================================================
