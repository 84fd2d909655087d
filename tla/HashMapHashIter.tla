---------------------------- MODULE HashMapHashIter ----------------------------
(***************************************************************************)
(* The bucket iterator of TC_HashMap (hash_iterator = HashMapIterator over *)
(* HashMapItem, tc_hashmap.h) beside the writer of the map.  The header    *)
(* files hashBegin()/hashIndex()/hashEnd() under "traversal functions that *)
(* do not require a lock on the map".  A sweep is the loop                 *)
(*     for (it = hashBegin(); it != hashEnd(); ++it) it->get(vtData);      *)
(* HashMapItem::get reads the head offset of its bucket and follows        *)
(* _iBlockNext block by block, keeping the blocks that have data.          *)
(*                                                                         *)
(* The writer's calls are the atomic actions of HashMap.  With ItemLocked  *)
(* the caller holds the map lock across each HashMapItem::get (and         *)
(* setDirty) call, so no writer call runs inside one; without it, a writer *)
(* call may run between any two block reads of the reader.                 *)
(***************************************************************************)
EXTENDS HashMap

CONSTANT ItemLocked   \* does the sweeping caller lock the map around each item call?

ASSUME /\ ItemLocked \in BOOLEAN
       /\ Buckets = 0..(Cardinality(Buckets) - 1)

HashEnd == Cardinality(Buckets)   \* _end: the index past the last bucket

VARIABLE hi   \* the sweeping reader: its iterator and the ghost state of its sweep

iterVars == <<allVars, hi>>

(* phase: idle (no sweep), item (the iterator rests on bucket idx), walk    *)
(* (inside HashMapItem::get at block at), end (it == hashEnd()).  Ghost:   *)
(* got, the keys the sweep has returned; dup, whether one came twice;      *)
(* present, the keys that have had data ever since the sweep began.        *)
NoHashSweep == [phase |-> "idle", idx |-> 0, at |-> NIL,
                got |-> {}, dup |-> FALSE, present |-> {}]

(***************************************************************************)
(* The writer: the calls that change the bucket chains, the records and    *)
(* the dirty tail, clear(), and the setters of the settings those calls    *)
(* read.  backup, setReadOnly and the clock touch none of what the reader  *)
(* reads.                                                                  *)
(***************************************************************************)
WriterCall ==
    \/ \E k \in Keys, v \in Vals, d \in BOOLEAN : Set(k, v, d)
    \/ \E k \in Keys : SetOnlyKey(k) \/ Get(k) \/ Del(k) \/ SetDirtyAfterSync(k)
    \/ \E k \in Keys, b \in BOOLEAN : SetDirtyClean(k, b)
    \/ \E radio \in Radios, c \in BOOLEAN : Erase(radio, c)
    \/ SyncStart \/ SyncStep \/ Clear
    \/ \E b \in BOOLEAN : SetAutoErase(b)
    \/ \E m \in {ERASEBYGET, ERASEBYSET} : SetEraseMode(m)
    \/ \E t \in {0, 1} : SetSyncTime(t)

Writer ==
    /\ ~(ItemLocked /\ hi.phase = "walk")
    /\ WriterCall
    /\ hi' = [hi EXCEPT !.present = @ \cap WithData(Region')]

(* hashIndex(iIndex): the iterator on bucket iIndex; the sweep from there  *)
(* covers the keys of that bucket and of the buckets after it.            *)
HashIndex(i) ==
    /\ hi.phase = "idle"
    /\ hi' = [NoHashSweep EXCEPT !.phase = "item", !.idx = i,
                                 !.present = {k \in WithData(Region) : HashOf[k] >= i}]
    /\ UNCHANGED allVars

(* hashBegin(): the iterator on bucket 0. *)
HashBegin == HashIndex(0)

(* HashMapItem::get(vtData): read the head offset of the bucket. *)
ItemGetBegin ==
    /\ hi.phase = "item"
    /\ hi' = [hi EXCEPT !.phase = "walk", !.at = hash[hi.idx].addr]
    /\ UNCHANGED allVars

(* One block of HashMapItem::get: a record with data goes into vtData      *)
(* (key-only records do not), then the walk follows _iBlockNext.  A chunk  *)
(* the writer has freed meanwhile holds no tagBlockHead any more: what the *)
(* reader takes for its _iBlockNext is whatever the chunk now holds.       *)
ItemGetStep ==
    /\ hi.phase = "walk"
    /\ hi.at # NIL
    /\ LET b == blk[hi.at]
       IN IF b.key = None
          THEN \E n \in Offset : hi' = [hi EXCEPT !.at = n]
          ELSE hi' = [hi EXCEPT
                        !.at = b.bnext,
                        !.got = IF b.onlyKey THEN @ ELSE @ \cup {b.key},
                        !.dup = @ \/ (~b.onlyKey /\ b.key \in hi.got)]
    /\ UNCHANGED allVars

(* Mutant: operator++ skips a bucket. *)
HashNextSkip ==
    /\ hi.phase = "walk"
    /\ hi.at = NIL
    /\ hi' = [hi EXCEPT !.idx = @ + 2,
                        !.phase = IF hi.idx + 2 < HashEnd THEN "item" ELSE "end"]
    /\ UNCHANGED allVars

(* get has returned; operator++ (HashMapItem::nextItem) moves to the next  *)
(* bucket, or to hashEnd() after the last one.                             *)
HashNext ==
    /\ hi.phase = "walk"
    /\ hi.at = NIL
    /\ hi' = [hi EXCEPT !.idx = @ + 1,
                        !.phase = IF hi.idx + 1 < HashEnd THEN "item" ELSE "end"]
    /\ UNCHANGED allVars

(* Mutant: the bucket's records become dirty where they are on the SET     *)
(* chain.                                                                  *)
MarkBucketDirtyInPlace(S, i) ==
    LET RECURSIVE Mark(_, _, _)
        Mark(T, a, fuel) ==
            IF a = NIL \/ fuel = 0 THEN T
            ELSE Mark(IF T.blk[a].onlyKey THEN T ELSE SetDirtyFlag(T, a, TRUE),
                      T.blk[a].bnext, fuel - 1)
    IN Mark(S, S.hash[i].addr, NChunks)

(* HashMapItem::setDirty(): every record with data in the bucket becomes   *)
(* dirty as setDirty(k) makes it: the flag, then the move to the SET head  *)
(* (Block::setDirty, Block::refreshSetList), block by block along the      *)
(* bucket chain.                                                           *)
MarkBucketDirty(S, i) ==
    LET RECURSIVE Mark(_, _, _)
        Mark(T, a, fuel) ==
            IF a = NIL \/ fuel = 0 THEN T
            ELSE Mark(IF T.blk[a].onlyKey THEN T
                      ELSE RefreshSetList(SetDirtyFlag(T, a, TRUE), a),
                      T.blk[a].bnext, fuel - 1)
    IN Mark(S, S.hash[i].addr, NChunks)

(* setDirty() on the current item: RT_READONLY, or RT_OK. *)
ItemSetDirty ==
    /\ hi.phase = "item"
    /\ IF hd.readOnly THEN Reject
       ELSE Step(MarkBucketDirty(Region, hi.idx))
    /\ hi' = [hi EXCEPT !.present = @ \cap WithData(Region')]

(* The caller leaves the finished loop. *)
HashDone ==
    /\ hi.phase = "end"
    /\ hi' = NoHashSweep
    /\ UNCHANGED allVars

SweepInit == Init /\ hi = NoHashSweep

SweepNext ==
    \/ Writer
    \/ HashBegin \/ (\E i \in Buckets : HashIndex(i)) \/ ItemGetBegin \/ ItemGetStep \/ HashNext \/ ItemSetDirty \/ HashDone

SweepSpec == SweepInit /\ [][SweepNext]_iterVars

(***************************************************************************)
(* Properties                                                              *)
(***************************************************************************)
(* A finished bucket sweep (it == hashEnd()) has returned every key of its *)
(* buckets that had data from the moment hashBegin() or hashIndex() was    *)
(* called to the end, and no key twice, although set, del and             *)
(* eliminations by the writer ran between its item calls.                 *)
HashSweepExact == hi.phase = "end" => hi.present \subseteq hi.got /\ ~hi.dup
==============================================================================
