------------------------------- MODULE HashMap -------------------------------
(***************************************************************************)
(* TC_HashMap (src/util/include/util/tc_hashmap.h): a hash map kept inside *)
(* one memory region.  Every entry is a Block whose head chunk carries a   *)
(* tagBlockHead; blocks are threaded on three doubly linked lists through  *)
(* offsets in that header: the bucket chain (_iBlockNext/_iBlockPrev), the *)
(* SET time chain (_iSetNext/_iSetPrev) and the GET time chain             *)
(* (_iGetNext/_iGetPrev).  The dirty, sync and backup "chains" of the map  *)
(* header are not lists of their own: tagMapHead holds only the cursors    *)
(* _iDirtyTail, _iSyncTail and _iBackupTail, which point into the SET      *)
(* chain and walk it from the tail towards the head.                      *)
(*                                                                         *)
(* Blocks are identified by the offset of their head chunk (1..NChunks),   *)
(* and 0 means "none", as in the header comments.  The region has one      *)
(* chunk size class; an entry occupies ChunksFor[v] chunks, the head chunk *)
(* plus continuation chunks (tagChunkHead).  Each public operation is one  *)
(* atomic step: the journal that makes it atomic is HashMapJournal.        *)
(***************************************************************************)
EXTENDS Naturals, Sequences, FiniteSets, SequencesExt

CONSTANTS
    Keys,        \* keys passed to set/get/del (model values)
    Vals,        \* values passed to set (model values)
    None,        \* key/value field of a chunk that holds no block
    NChunks,     \* chunks in the region
    Buckets,     \* hash bucket indices
    HashOf,      \* hashIndex(k) mod bucket count: [Keys -> Buckets]
    ChunksFor,   \* chunks a packed (key, value) needs: [Vals -> 1..NChunks]
    EraseMode,   \* _cEraseMode given to create: ERASEBYGET or ERASEBYSET
    AutoErase,   \* _bAutoErase given to create
    EraseCount,  \* _iEraseCount given to create: blocks eliminated per eraseExcept round
    SyncAge,     \* _iSyncTime given to create: seconds before dirty data is due
    MaxTime,     \* bound of the clock passed to sync(iNowTime)
    Radios       \* radio arguments of erase()

ERASEBYGET == 0
ERASEBYSET == 1

ASSUME /\ None \notin Keys \cup Vals
       /\ NChunks \in Nat \ {0}
       /\ HashOf \in [Keys -> Buckets]
       /\ ChunksFor \in [Vals -> 1..NChunks]
       /\ EraseMode \in {ERASEBYGET, ERASEBYSET}
       /\ AutoErase \in BOOLEAN
       /\ EraseCount \in Nat \ {0}
       /\ Radios \subseteq 0..100

Chunks == 1..NChunks
NIL == 0                      \* "none: 0" in tagBlockHead
OnlyKeyChunks == 1            \* a key-only record fits in its head chunk

VARIABLES
    blk,      \* tagBlockHead of every chunk (meaningful for head chunks)
    hd,       \* tagMapHead: chain heads/tails, cursors, counters, flags
    hash,     \* TC_MemVector<tagHashItem>: bucket head offset and list count
    free,     \* the chunk allocator's free list, top first
    now       \* the time passed to sync(iNowTime) and stored by set

vars == <<blk, hd, hash, free, now>>

(* A chunk that holds no block: all offsets 0, no key. *)
EmptyBlock == [key |-> None, val |-> None, dirty |-> FALSE, onlyKey |-> FALSE,
               syncT |-> 0, index |-> 0, more |-> <<>>,
               bnext |-> NIL, bprev |-> NIL, snext |-> NIL, sprev |-> NIL,
               gnext |-> NIL, gprev |-> NIL]

Region == [blk |-> blk, hd |-> hd, hash |-> hash, free |-> free]

(* Head chunks of live blocks, and the keys they hold. *)
Heads(S) == {a \in Chunks : S.blk[a].key # None}
LiveKeys(S) == {S.blk[a].key : a \in Heads(S)}

(***************************************************************************)
(* The chains as sequences: follow the field nx from offset a.  The fuel   *)
(* bound stops the walk on a cyclic chain, which then has more elements    *)
(* than there are blocks.                                                  *)
(***************************************************************************)
RECURSIVE Walk(_, _, _, _)
Walk(b, a, nx, fuel) ==
    IF a = NIL \/ fuel = 0 THEN <<>>
    ELSE <<a>> \o Walk(b, b[a][nx], nx, fuel - 1)

SetOrder(S) == Walk(S.blk, S.hd.setHead, "snext", NChunks + 1)
GetOrder(S) == Walk(S.blk, S.hd.getHead, "gnext", NChunks + 1)

(* Offsets strictly after a on the SET chain, towards the tail. *)
SetAfter(S, a) == ToSet(Walk(S.blk, S.blk[a].snext, "snext", NChunks + 1))

(***************************************************************************)
(* find(k, index, ...): walk the bucket chain of hashIndex(k) and compare  *)
(* the stored key.                                                         *)
(***************************************************************************)
RECURSIVE FindFrom(_, _, _, _)
FindFrom(b, a, k, fuel) ==
    IF a = NIL \/ fuel = 0 THEN NIL
    ELSE IF b[a].key = k THEN a
    ELSE FindFrom(b, b[a].bnext, k, fuel - 1)

Find(S, k) == FindFrom(S.blk, S.hash[HashOf[k]].addr, k, NChunks)


(***************************************************************************)
(* Splicing a block out of / into the SET or GET chain.  nx, pv name the   *)
(* link fields of tagBlockHead and hf, tf the head/tail fields of          *)
(* tagMapHead (_iSetHead/_iSetTail, _iGetHead/_iGetTail).                  *)
(***************************************************************************)
(* Mutant: the unlink forgets to move the tail back. *)
ListUnlinkKeepTail(S, a, nx, pv, hf, tf) ==
    LET p == S.blk[a][pv]
        n == S.blk[a][nx]
    IN [S EXCEPT
          !.blk = [x \in Chunks |->
                     IF x = p THEN [S.blk[x] EXCEPT ![nx] = n]
                     ELSE IF x = n THEN [S.blk[x] EXCEPT ![pv] = p]
                     ELSE IF x = a THEN [S.blk[x] EXCEPT ![nx] = NIL, ![pv] = NIL]
                     ELSE S.blk[x]],
          !.hd = [@ EXCEPT ![hf] = IF p = NIL THEN n ELSE @]]

ListUnlink(S, a, nx, pv, hf, tf) ==
    LET p == S.blk[a][pv]
        n == S.blk[a][nx]
    IN [S EXCEPT
          !.blk = [x \in Chunks |->
                     IF x = p THEN [S.blk[x] EXCEPT ![nx] = n]
                     ELSE IF x = n THEN [S.blk[x] EXCEPT ![pv] = p]
                     ELSE IF x = a THEN [S.blk[x] EXCEPT ![nx] = NIL, ![pv] = NIL]
                     ELSE S.blk[x]],
          !.hd = [@ EXCEPT ![hf] = IF p = NIL THEN n ELSE @,
                           ![tf] = IF n = NIL THEN p ELSE @]]

ListPushHead(S, a, nx, pv, hf, tf) ==
    LET h == S.hd[hf]
    IN [S EXCEPT
          !.blk = [x \in Chunks |->
                     IF x = a THEN [S.blk[x] EXCEPT ![nx] = h, ![pv] = NIL]
                     ELSE IF x = h THEN [S.blk[x] EXCEPT ![pv] = a]
                     ELSE S.blk[x]],
          !.hd = [@ EXCEPT ![hf] = a, ![tf] = IF h = NIL THEN a ELSE @]]

(* Mutant: the backup cursor is left on a block that moves or goes away. *)
MoveCursorsOffKeepBackup(S, a) ==
    LET p == S.blk[a].sprev
    IN [S EXCEPT !.hd = [@ EXCEPT !.dirtyTail = IF @ = a THEN p ELSE @,
                                  !.syncTail  = IF @ = a THEN p ELSE @]]

(* Mutant: the sync cursor is not moved off a block leaving its place. *)
MoveCursorsOffKeepSync(S, a) ==
    LET p == S.blk[a].sprev
    IN [S EXCEPT !.hd = [@ EXCEPT !.dirtyTail  = IF @ = a THEN p ELSE @,
                                  !.backupTail = IF @ = a THEN p ELSE @]]

(* A cursor resting on a block that leaves its place on the SET chain      *)
(* steps to the block's SET predecessor, towards the head.                 *)
MoveCursorsOff(S, a) ==
    LET p == S.blk[a].sprev
    IN [S EXCEPT !.hd = [@ EXCEPT !.dirtyTail  = IF @ = a THEN p ELSE @,
                                  !.syncTail   = IF @ = a THEN p ELSE @,
                                  !.backupTail = IF @ = a THEN p ELSE @]]

(* A dirty block with no dirty tail becomes the dirty tail. *)
CoverDirty(S, a) ==
    IF S.blk[a].dirty /\ S.hd.dirtyTail = NIL
    THEN [S EXCEPT !.hd.dirtyTail = a] ELSE S

(* Mutants: refreshSetList leaves the backup or the sync cursor on the    *)
(* block it moves to the SET head.                                         *)
RefreshSetListKeepBackup(S, a) ==
    IF S.hd.setHead = a THEN CoverDirty(S, a)
    ELSE CoverDirty(
           ListPushHead(
             ListUnlink(MoveCursorsOffKeepBackup(S, a), a, "snext", "sprev", "setHead", "setTail"),
             a, "snext", "sprev", "setHead", "setTail"), a)

RefreshSetListKeepSync(S, a) ==
    IF S.hd.setHead = a THEN CoverDirty(S, a)
    ELSE CoverDirty(
           ListPushHead(
             ListUnlink(MoveCursorsOffKeepSync(S, a), a, "snext", "sprev", "setHead", "setTail"),
             a, "snext", "sprev", "setHead", "setTail"), a)

(* Block::refreshSetList: put the block at the head of the SET chain. *)
RefreshSetList(S, a) ==
    IF S.hd.setHead = a THEN CoverDirty(S, a)
    ELSE CoverDirty(
           ListPushHead(
             ListUnlink(MoveCursorsOff(S, a), a, "snext", "sprev", "setHead", "setTail"),
             a, "snext", "sprev", "setHead", "setTail"), a)

(* Mutant: get does not move the block on the GET chain. *)
RefreshGetListNoop(S, a) == S

(* Block::refreshGetList: put the block at the head of the GET chain. *)
RefreshGetList(S, a) ==
    IF S.hd.getHead = a THEN S
    ELSE ListPushHead(ListUnlink(S, a, "gnext", "gprev", "getHead", "getTail"),
                      a, "gnext", "gprev", "getHead", "getTail")

(* Mutant: _iDirtyCount changes even when the flag already had the value. *)
SetDirtyFlagNoCheck(S, a, b) ==
    [S EXCEPT !.blk[a].dirty = b,
              !.hd.dirtyCount = IF b THEN @ + 1 ELSE @ - 1]

(* Block::setDirty(b): flip the flag, keeping _iDirtyCount in step. *)
SetDirtyFlag(S, a, b) ==
    IF S.blk[a].dirty = b THEN S
    ELSE [S EXCEPT !.blk[a].dirty = b,
                   !.hd.dirtyCount = IF b THEN @ + 1 ELSE @ - 1]

(* The bucket chain: makeNew links a block at the bucket head (and        *)
(* incListCount); Block::erase unlinks it (and delListCount).              *)
BucketLink(S, a) ==
    LET i == S.blk[a].index
        h == S.hash[i].addr
    IN [S EXCEPT
          !.blk = [x \in Chunks |->
                     IF x = a THEN [S.blk[x] EXCEPT !.bnext = h, !.bprev = NIL]
                     ELSE IF x = h THEN [S.blk[x] EXCEPT !.bprev = a]
                     ELSE S.blk[x]],
          !.hash[i] = [addr |-> a, count |-> @.count + 1]]

BucketUnlink(S, a) ==
    LET i == S.blk[a].index
        p == S.blk[a].bprev
        n == S.blk[a].bnext
    IN [S EXCEPT
          !.blk = [x \in Chunks |->
                     IF x = p THEN [S.blk[x] EXCEPT !.bnext = n]
                     ELSE IF x = n THEN [S.blk[x] EXCEPT !.bprev = p]
                     ELSE S.blk[x]],
          !.hash[i] = [addr |-> IF p = NIL THEN n ELSE @.addr, count |-> @.count - 1]]

(* Chunks of a block: its head and its continuation chunks. *)
ChunksOf(S, a) == <<a>> \o S.blk[a].more

(* Mutant: one chunk too many is taken off _iUsedChunk. *)
RemoveBlockOffByOne(S, a) ==
    LET b  == S.blk[a]
        S1 == BucketUnlink(
                ListUnlink(
                  ListUnlink(MoveCursorsOff(S, a), a, "snext", "sprev", "setHead", "setTail"),
                  a, "gnext", "gprev", "getHead", "getTail"), a)
        cs == ChunksOf(S, a)
    IN [S1 EXCEPT
          !.blk[a] = EmptyBlock,
          !.hd = [@ EXCEPT !.elementCount = @ - 1,
                           !.dirtyCount   = IF b.dirty THEN @ - 1 ELSE @,
                           !.onlyKeyCount = IF b.onlyKey THEN @ - 1 ELSE @,
                           !.usedChunk    = @ - (Len(cs) + 1)],
          !.free = cs \o @]

(***************************************************************************)
(* Block::erase followed by Block::deallocate: unlink the block from all   *)
(* chains, update the counters and return every chunk to the free list.    *)
(***************************************************************************)
RemoveBlock(S, a) ==
    LET b  == S.blk[a]
        S1 == BucketUnlink(
                ListUnlink(
                  ListUnlink(MoveCursorsOff(S, a), a, "snext", "sprev", "setHead", "setTail"),
                  a, "gnext", "gprev", "getHead", "getTail"), a)
        cs == ChunksOf(S, a)
    IN [S1 EXCEPT
          !.blk[a] = EmptyBlock,
          !.hd = [@ EXCEPT !.elementCount = @ - 1,
                           !.dirtyCount   = IF b.dirty THEN @ - 1 ELSE @,
                           !.onlyKeyCount = IF b.onlyKey THEN @ - 1 ELSE @,
                           !.usedChunk    = @ - Len(cs)],
          !.free = cs \o @]

(***************************************************************************)
(* Allocation.  eraseExcept(iNowAddr, vtData) eliminates up to             *)
(* _iEraseCount blocks from the tail of the GET chain (ERASEBYGET) or the  *)
(* SET chain (ERASEBYSET), never the block iNowAddr that is allocating.    *)
(* Block::allocateChunk calls it whenever the allocator has no chunk left, *)
(* until enough chunks are free or nothing more can be eliminated.         *)
(***************************************************************************)
EvictTail(S) == IF S.hd.eraseMode = ERASEBYGET THEN S.hd.getTail ELSE S.hd.setTail
EvictPrev(S, a) == IF S.hd.eraseMode = ERASEBYGET THEN S.blk[a].gprev ELSE S.blk[a].sprev

(* Mutant: the victim is taken from the head of the chain, not its tail. *)
VictimFromHead(S, except) ==
    LET t == IF S.hd.eraseMode = ERASEBYGET THEN S.hd.getHead ELSE S.hd.setHead
    IN IF t # NIL /\ t = except
       THEN IF S.hd.eraseMode = ERASEBYGET THEN S.blk[t].gnext ELSE S.blk[t].snext
       ELSE t

Victim(S, except) ==
    LET t == EvictTail(S)
    IN IF t # NIL /\ t = except THEN EvictPrev(S, t) ELSE t

RECURSIVE EraseExcept(_, _, _, _)
EraseExcept(S, except, n, out) ==
    LET v == Victim(S, except)
    IN IF n = 0 \/ v = NIL THEN [s |-> S, out |-> out]
       ELSE EraseExcept(RemoveBlock(S, v), except, n - 1, Append(out, S.blk[v].key))

RECURSIVE Reserve(_, _, _, _)
Reserve(S, need, except, out) ==
    IF Len(S.free) >= need THEN [ok |-> TRUE, s |-> S, out |-> out]
    ELSE IF ~S.hd.autoErase THEN [ok |-> FALSE, s |-> S, out |-> out]
    ELSE LET r == EraseExcept(S, except, S.hd.eraseCount, <<>>)
         IN IF r.out = <<>> THEN [ok |-> FALSE, s |-> S, out |-> out]
            ELSE Reserve(r.s, need, except, out \o r.out)

(* Block::allocate: grow the chunk list from the free list (incChunkCount) *)
(* or give the surplus back (deallocate(iChunk)), keeping the head.        *)
Resize(S, a, need) ==
    LET more == S.blk[a].more
        have == 1 + Len(more)
    IN IF need > have
       THEN [S EXCEPT !.blk[a].more = more \o SubSeq(S.free, 1, need - have),
                      !.free = SubSeq(@, need - have + 1, Len(@)),
                      !.hd.usedChunk = @ + (need - have)]
       ELSE [S EXCEPT !.blk[a].more = SubSeq(more, 1, need - 1),
                      !.free = SubSeq(more, need, Len(more)) \o @,
                      !.hd.usedChunk = @ - (have - need)]

(* BlockAllocator::allocateMemBlock + Block::makeNew: take need chunks,    *)
(* the first as head, and link the new block at the head of its bucket,    *)
(* of the SET chain and of the GET chain.                                  *)
NewBlock(S, k, need) ==
    LET a  == S.free[1]
        S1 == [S EXCEPT !.blk[a] = [EmptyBlock EXCEPT !.key = k, !.index = HashOf[k],
                                                     !.more = SubSeq(S.free, 2, need)],
                        !.free = SubSeq(@, need + 1, Len(@)),
                        !.hd = [@ EXCEPT !.usedChunk = @ + need,
                                         !.elementCount = @ + 1]]
    IN ListPushHead(ListPushHead(BucketLink(S1, a),
                                 a, "snext", "sprev", "setHead", "setTail"),
                    a, "gnext", "gprev", "getHead", "getTail")

(* Block::set: store the packed record; only-key records carry no value.   *)
WriteRecord(S, a, v, only) ==
    [S EXCEPT !.blk[a].val = v,
              !.blk[a].onlyKey = only,
              !.hd.onlyKeyCount = IF only = S.blk[a].onlyKey THEN @
                                  ELSE IF only THEN @ + 1 ELSE @ - 1]

(***************************************************************************)
(* TC_HashMap::set(k, v, bDirty, vtData) and set(k, vtData): find the      *)
(* block; reserve the chunks the record needs (eliminating others, their   *)
(* data returned in vtData); store the record; set the dirty flag; move    *)
(* the block to the SET head.  A set that cannot get its chunks returns    *)
(* RT_NO_MEMORY and leaves an existing record as it was.                   *)
(***************************************************************************)
SetEntry(S, k, v, only, bDirty) ==
    LET a    == Find(S, k)
        need == IF only THEN OnlyKeyChunks ELSE ChunksFor[v]
        have == IF a = NIL THEN 0 ELSE 1 + Len(S.blk[a].more)
        r    == Reserve(S, IF need > have THEN need - have ELSE 0, a, <<>>)
        S1   == IF a = NIL THEN NewBlock(r.s, k, need) ELSE Resize(r.s, a, need)
        a1   == IF a = NIL THEN S1.hd.setHead ELSE a
    IN IF ~r.ok THEN [s |-> r.s, ret |-> "RT_NO_MEMORY", out |-> r.out]
       ELSE [s   |-> RefreshSetList(SetDirtyFlag(WriteRecord(S1, a1, v, only), a1, bDirty), a1),
             ret |-> "RT_OK",
             out |-> r.out]

(***************************************************************************)
(* Ghost state for the backup sweep: the keys with data that were in the   *)
(* map when backup(true) started it and are still there, the keys the      *)
(* sweep has returned, whether it returned some key twice, and whether a  *)
(* sweep that reported its end (RT_OK) had missed one. A finished sweep    *)
(* leaves only that verdict behind.                                        *)
(***************************************************************************)
VARIABLE bk

(* Ghost state for the write-back pass: the keys whose records were dirty  *)
(* and due when sync() started it and have stayed so, and whether a pass   *)
(* that sync(iNowTime, data) reported finished (RT_OK) had missed one.     *)
VARIABLE sy

allVars == <<vars, bk, sy>>

WithData(S) == {S.blk[a].key : a \in {x \in Heads(S) : ~S.blk[x].onlyKey}}

(* Keys whose record is dirty and whose last write-back is _iSyncTime old. *)
DueKeys(S) == {S.blk[a].key : a \in {x \in Heads(S) : /\ S.blk[x].dirty
                                                      /\ S.blk[x].syncT + S.hd.syncTime <= now}}

(* One public call that leaves the region as S.  The return codes of the   *)
(* calls are named in the comments; no property depends on them.           *)
Become(S) ==
    /\ blk' = S.blk
    /\ hd' = S.hd
    /\ hash' = S.hash
    /\ free' = S.free
    /\ UNCHANGED now

Step(S) ==
    /\ Become(S)
    /\ bk' = [bk EXCEPT !.pending = @ \cap WithData(S)]
    /\ sy' = [sy EXCEPT !.pending = @ \cap DueKeys(S)]

(* A call that returns before touching the region. *)
Reject == UNCHANGED allVars

EmptyHead == [setHead |-> NIL, setTail |-> NIL, getHead |-> NIL, getTail |-> NIL,
              dirtyTail |-> NIL, syncTail |-> NIL, backupTail |-> NIL,
              elementCount |-> 0, dirtyCount |-> 0, onlyKeyCount |-> 0,
              usedChunk |-> 0, readOnly |-> FALSE,
              autoErase |-> AutoErase, eraseMode |-> EraseMode, syncTime |-> SyncAge,
              eraseCount |-> EraseCount]

NoSweep == [pending |-> {}, seen |-> {}, missed |-> FALSE, dup |-> FALSE]

NoSyncPass == [pending |-> {}, missed |-> FALSE]

(* TC_HashMap::create: an empty region, every chunk free. *)
Init ==
    /\ blk = [a \in Chunks |-> EmptyBlock]
    /\ hd = EmptyHead
    /\ hash = [i \in Buckets |-> [addr |-> NIL, count |-> 0]]
    /\ free = [i \in 1..NChunks |-> i]
    /\ now = 0
    /\ bk = NoSweep
    /\ sy = NoSyncPass

(* set(k, v, bDirty, vtData): RT_READONLY, RT_NO_MEMORY or RT_OK. *)
Set(k, v, bDirty) ==
    IF hd.readOnly THEN Reject
    ELSE Step(SetEntry(Region, k, v, FALSE, bDirty).s)

(* set(k, vtData): the key without data; such a record is never dirty. *)
SetOnlyKey(k) ==
    IF hd.readOnly THEN Reject
    ELSE Step(SetEntry(Region, k, None, TRUE, FALSE).s)

(* get(k, v, iSyncTime): RT_NO_DATA, RT_ONLY_KEY, or RT_OK after moving    *)
(* the block to the GET head.                                              *)
Get(k) ==
    LET a == Find(Region, k)
    IN IF a = NIL \/ blk[a].onlyKey THEN Reject
       ELSE Step(RefreshGetList(Region, a))

(* del(k, data): RT_READONLY, RT_NO_DATA, RT_ONLY_KEY or RT_OK. *)
Del(k) ==
    LET a == Find(Region, k)
    IN IF hd.readOnly \/ a = NIL THEN Reject
       ELSE Step(RemoveBlock(Region, a))

(* erase(radio, data, bCheckDirty): eliminate the block at the tail of the *)
(* GET chain ("according to Get time", whatever _cEraseMode says) while    *)
(* the share of used chunks is at least radio: RT_READONLY, RT_OK (nothing *)
(* to do), RT_DIRTY_DATA, RT_ONLY_KEY or RT_ERASE_OK.                      *)
Erase(radio, bCheckDirty) ==
    LET v == hd.getTail
    IN IF \/ hd.readOnly
          \/ (hd.usedChunk * 100) \div NChunks < radio
          \/ v = NIL
          \/ bCheckDirty /\ blk[v].dirty
       THEN Reject
       ELSE Step(RemoveBlock(Region, v))

(* setDirty(k) / setClean(k): set the flag and move to the SET head;       *)
(* RT_READONLY, RT_NO_DATA, RT_ONLY_KEY or RT_OK.                          *)
SetDirtyClean(k, b) ==
    LET a == Find(Region, k)
    IN IF hd.readOnly \/ a = NIL THEN Reject
       ELSE IF blk[a].onlyKey THEN Reject
       ELSE Step(RefreshSetList(SetDirtyFlag(Region, a, b), a))

(* Mutant: the re-dirtied block always becomes the dirty tail. *)
SetDirtyAfterSyncAlwaysTail(k) ==
    LET a  == Find(Region, k)
        S1 == SetDirtyFlag(Region, a, TRUE)
    IN IF hd.readOnly \/ a = NIL THEN Reject
       ELSE IF blk[a].onlyKey \/ blk[a].dirty THEN Reject
       ELSE Step([S1 EXCEPT !.hd.dirtyTail = a])

(* setDirtyAfterSync(k): dirty again after a failed write-back, without    *)
(* moving on the SET chain; a block older than the dirty tail becomes the  *)
(* dirty tail.                                                             *)
SetDirtyAfterSync(k) ==
    LET a  == Find(Region, k)
        dt == hd.dirtyTail
        S1 == SetDirtyFlag(Region, a, TRUE)
    IN IF hd.readOnly \/ a = NIL THEN Reject
       ELSE IF blk[a].onlyKey \/ blk[a].dirty THEN Reject
       ELSE Step([S1 EXCEPT !.hd.dirtyTail =
                      IF dt = NIL \/ a \in SetAfter(Region, dt) THEN a ELSE dt])

(* sync(): start a write-back pass at the dirty tail. *)
SyncStart ==
    /\ Become([Region EXCEPT !.hd.syncTail = hd.dirtyTail])
    /\ bk' = [bk EXCEPT !.pending = @ \cap WithData(Region)]
    /\ sy' = [sy EXCEPT !.pending = DueKeys(Region)]

(* sync(iNowTime, data): examine the block under the sync cursor and step  *)
(* the cursor towards the SET head.  RT_OK: the pass is over.  A dirty     *)
(* block whose last sync is _iSyncTime old is returned (RT_NEED_SYNC) and     *)
(* becomes clean; others give RT_NONEED_SYNC.  The dirty tail passes over  *)
(* clean blocks and blocks returned for write-back.                        *)
SyncStep ==
    LET a  == hd.syncTail
        S1 == [Region EXCEPT !.hd.syncTail = blk[a].sprev]
        S2 == [S1 EXCEPT !.hd.dirtyTail = IF @ = a THEN blk[a].sprev ELSE @]
    IN IF a = NIL THEN /\ UNCHANGED <<vars, bk>>
                       /\ sy' = [pending |-> {}, missed |-> sy.missed \/ sy.pending # {}]
       ELSE IF ~blk[a].dirty THEN Step(S2)
       ELSE IF blk[a].syncT + hd.syncTime <= now
            THEN Step([SetDirtyFlag(S2, a, FALSE) EXCEPT !.blk[a].syncT = now])
       ELSE Step(S1)

(* backup(bForceFromBegin): (re)start the backup sweep at the SET tail,    *)
(* unless a sweep is under way and the restart is not forced.              *)
BackupStart(force) ==
    IF force \/ hd.backupTail = NIL
    THEN /\ Become([Region EXCEPT !.hd.backupTail = hd.setTail])
         /\ bk' = [NoSweep EXCEPT !.pending = WithData(Region)]
         /\ UNCHANGED sy
    ELSE Reject

(* backup(data): RT_OK when the cursor has run off the SET head;           *)
(* otherwise return the block under the cursor (RT_ONLY_KEY or             *)
(* RT_NEED_BACKUP) and step towards the SET head.                          *)
BackupStep ==
    LET a == hd.backupTail
        S1 == [Region EXCEPT !.hd.backupTail = blk[a].sprev]
    IN IF a = NIL THEN /\ UNCHANGED <<vars, sy>>
                       /\ bk' = [NoSweep EXCEPT !.missed = ~(bk.pending \subseteq bk.seen)]
       ELSE IF blk[a].onlyKey THEN Step(S1)
       ELSE /\ Become(S1)
            /\ bk' = [bk EXCEPT !.seen = @ \cup {blk[a].key},
                                !.dup = @ \/ blk[a].key \in bk.seen]
            /\ UNCHANGED sy

(* setReadOnly(bReadOnly) *)
SetReadOnly(b) == Step([Region EXCEPT !.hd.readOnly = b])

(* setAutoErase, setEraseMode, setSyncTime: the inline setters write the *)
(* field of tagMapHead directly; the next allocation, erase or sync reads *)
(* it.                                                                     *)
SetAutoErase(b) == Step([Region EXCEPT !.hd.autoErase = b])
SetEraseMode(m) == Step([Region EXCEPT !.hd.eraseMode = m])
SetSyncTime(t) == Step([Region EXCEPT !.hd.syncTime = t])

(* clear(): all map data back to its initial state: no block, empty chains *)
(* and buckets, zero counters and cursors, every chunk free.  The flags    *)
(* and settings of the header are configuration, not data, and stay.      *)
Clear ==
    Step([blk  |-> [a \in Chunks |-> EmptyBlock],
          hd   |-> [EmptyHead EXCEPT !.readOnly = hd.readOnly,
                                     !.autoErase = hd.autoErase,
                                     !.eraseMode = hd.eraseMode,
                                     !.syncTime = hd.syncTime,
                                     !.eraseCount = hd.eraseCount],
          hash |-> [i \in Buckets |-> [addr |-> NIL, count |-> 0]],
          free |-> [i \in 1..NChunks |-> i]])

(* The clock advances. *)
Tick ==
    /\ now < MaxTime
    /\ now' = now + 1
    /\ UNCHANGED <<blk, hd, hash, free, bk, sy>>

Next ==
    \/ \E k \in Keys, v \in Vals, d \in BOOLEAN : Set(k, v, d)
    \/ \E k \in Keys : SetOnlyKey(k) \/ Get(k) \/ Del(k) \/ SetDirtyAfterSync(k)
    \/ \E k \in Keys, b \in BOOLEAN : SetDirtyClean(k, b)
    \/ \E radio \in Radios, c \in BOOLEAN : Erase(radio, c)
    \/ SyncStart \/ SyncStep
    \/ \E f \in BOOLEAN : BackupStart(f)
    \/ BackupStep
    \/ \E b \in BOOLEAN : SetReadOnly(b)
    \/ Clear
    \/ Tick

Spec == Init /\ [][Next]_allVars

(***************************************************************************)
(* Properties                                                              *)
(***************************************************************************)
Offset == Chunks \cup {NIL}

TypeOK ==
    /\ \A a \in Chunks :
         /\ blk[a].key \in Keys \cup {None}
         /\ blk[a].val \in Vals \cup {None}
         /\ {blk[a].dirty, blk[a].onlyKey} \subseteq BOOLEAN
         /\ blk[a].syncT \in 0..MaxTime
         /\ {blk[a].bnext, blk[a].bprev, blk[a].snext, blk[a].sprev,
             blk[a].gnext, blk[a].gprev} \subseteq Offset
         /\ blk[a].more \in Seq(Chunks)
    /\ {hd.setHead, hd.setTail, hd.getHead, hd.getTail,
        hd.dirtyTail, hd.syncTail, hd.backupTail} \subseteq Offset
    /\ {hd.elementCount, hd.dirtyCount, hd.onlyKeyCount, hd.usedChunk} \subseteq Nat
    /\ {hd.readOnly, hd.autoErase} \subseteq BOOLEAN
    /\ hd.eraseMode \in {ERASEBYGET, ERASEBYSET}
    /\ hd.syncTime \in Nat
    /\ hd.eraseCount \in Nat
    /\ hash \in [Buckets -> [addr : Offset, count : Nat]]
    /\ free \in Seq(Chunks)
    /\ now \in 0..MaxTime
    /\ bk.pending \cup bk.seen \subseteq Keys
    /\ {bk.missed, bk.dup} \subseteq BOOLEAN
    /\ sy.pending \subseteq Keys /\ sy.missed \in BOOLEAN

(* A chain read as a sequence is a proper doubly linked list: it visits    *)
(* each of the blocks exactly once, every prev link mirrors the next link  *)
(* and the tail field names the last block.                                *)
ProperChain(seq, blocks, pv, tail) ==
    /\ ToSet(seq) = blocks
    /\ Len(seq) = Cardinality(blocks)
    /\ \A i \in 1..Len(seq) : blk[seq[i]][pv] = IF i = 1 THEN NIL ELSE seq[i - 1]
    /\ tail = IF seq = <<>> THEN NIL ELSE seq[Len(seq)]

BucketChain(i) == Walk(blk, hash[i].addr, "bnext", NChunks + 1)

(* After any sequence of calls the region is well formed: the SET and GET  *)
(* chains and every bucket chain are proper lists over exactly the live    *)
(* blocks (of that bucket); each key is stored once, in the bucket         *)
(* hashIndex gives it; every chunk is either on the free list or owned by  *)
(* exactly one block, which owns as many chunks as its record needs; and   *)
(* the dirty, sync and backup cursors rest on live blocks.  This is the    *)
(* structure the pointer surgery of refreshSetList, Block::erase,          *)
(* eraseExcept and Block::allocate must keep.                              *)
RegionWellFormed ==
    LET H == Heads(Region)
    IN /\ ProperChain(SetOrder(Region), H, "sprev", hd.setTail)
       /\ ProperChain(GetOrder(Region), H, "gprev", hd.getTail)
       /\ \A i \in Buckets :
            LET bs == {a \in H : blk[a].index = i}
            IN /\ ProperChain(BucketChain(i), bs, "bprev", Last(<<NIL>> \o BucketChain(i)))
               /\ hash[i].count = Cardinality(bs)
       /\ \A a \in H : blk[a].index = HashOf[blk[a].key]
       /\ \A a, b \in H : a # b => blk[a].key # blk[b].key
       /\ IsInjective(free)
       /\ \A c \in Chunks :
            Cardinality({a \in H : c \in ToSet(ChunksOf(Region, a))})
              + (IF c \in ToSet(free) THEN 1 ELSE 0) = 1
       /\ \A a \in H :
            /\ IsInjective(ChunksOf(Region, a))
            /\ Len(ChunksOf(Region, a)) = IF blk[a].onlyKey THEN OnlyKeyChunks
                                           ELSE ChunksFor[blk[a].val]
       /\ {hd.dirtyTail, hd.syncTail, hd.backupTail} \subseteq H \cup {NIL}

(* The counters of tagMapHead, kept by the inc/del helpers of TC_HashMap   *)
(* one call at a time, agree with the blocks actually in the region.       *)
CountersMatch ==
    LET H == Heads(Region)
    IN /\ hd.elementCount = Cardinality(H)
       /\ hd.dirtyCount = Cardinality({a \in H : blk[a].dirty})
       /\ hd.onlyKeyCount = Cardinality({a \in H : blk[a].onlyKey})
       /\ hd.usedChunk = NChunks - Len(free)

(* Every dirty block lies between the SET head and _iDirtyTail, so the     *)
(* write-back pass that sync() starts at the dirty tail reaches it.  Moves *)
(* on the SET chain (set, setDirty), setDirtyAfterSync on a block behind   *)
(* the tail, sync itself and eliminations must all keep this.              *)
DirtyCovered ==
    \A a \in Heads(Region) :
        blk[a].dirty =>
            /\ hd.dirtyTail # NIL
            /\ a \notin SetAfter(Region, hd.dirtyTail)

(* A backup sweep that backup(data) reports finished (RT_OK) has returned  *)
(* every key that had data when backup(true) started it and still has      *)
(* data, although sets, deletes and eliminations moved blocks around on    *)
(* the SET chain during the sweep.                                         *)
BackupComplete == ~bk.missed

(* A write-back pass that sync(iNowTime, data) reports finished (RT_OK,   *)
(* "at the head of the dirty chain") has returned for write-back every     *)
(* record that was dirty and due when sync() started the pass and is still *)
(* dirty and due: sets, setDirty, setDirtyAfterSync and eliminations that  *)
(* move blocks around the cursor never make it skip one.                   *)
SyncComplete == ~sy.missed

(* The header documents the backup sweep as returning each record once: a  *)
(* key returned with RT_NEED_BACKUP has not been returned before in the    *)
(* same sweep.                                                             *)
BackupOnce == ~bk.dup

(***************************************************************************)
(* Refinement: the region, read through its chains, is the abstract cache  *)
(* of HashMapCache.                                                        *)
(***************************************************************************)
KeysOf(seq) == [i \in 1..Len(seq) |-> blk[seq[i]].key]

AbsStore == [k \in LiveKeys(Region) |->
               LET a == CHOOSE x \in Heads(Region) : blk[x].key = k
               IN [val |-> blk[a].val, only |-> blk[a].onlyKey, dirty |-> blk[a].dirty]]

Abs == INSTANCE HashMapCache
         WITH store <- AbsStore,
              setSeq <- KeysOf(SetOrder(Region)),
              getSeq <- KeysOf(GetOrder(Region))

(* Every call keeps the map and both recency orders exactly as the         *)
(* abstract cache says: set moves the key to the SET head (a new key also  *)
(* to the GET head), get to the GET head, eliminations take the end of     *)
(* the eviction order and spare the key being set.  This is Abs!Spec with  *)
(* the stuttering disjunct written first, which TLC evaluates cheaply for  *)
(* the many calls that leave the abstract state alone.                     *)
CacheRefinement == Abs!Init /\ [][UNCHANGED Abs!cacheVars \/ Abs!Next]_(Abs!cacheVars)

=============================================================================
