--------------------------- MODULE MCHashMapJournal ---------------------------
(* The journal under the two mutations that allocation makes.  A set that  *)
(* takes a chunk for a new block: allocateMemBlock pops it off the free    *)
(* list of TC_MemMultiChunkAllocator and calls incChunkCount, both direct  *)
(* writes; makeNew links the block into its bucket (incListCount) and      *)
(* incElementCount counts it, both through update().  A del gives it back  *)
(* in the reverse kind: Block::erase unlinks (delListCount,                *)
(* delElementCount), deallocateMemBlock pushes the chunk on the free list  *)
(* and calls delChunkCount.  Three chunks, one block per chunk, two      *)
(* slots, at most two crashes.                                           *)
EXTENDS HashMapJournal

MCAddrs == {"elem", "list", "free", "used"}
MCJAddrs == {"elem", "list"}
NChunks == 3

W(a, d) == [a |-> a, d |-> d, direct |-> a \notin MCJAddrs]

AllocOp == <<W("free", -1), W("used", 1), W("list", 1), W("elem", 1)>>
FreeOp == <<W("list", -1), W("elem", -1), W("free", 1), W("used", -1)>>

MCOps == {AllocOp, FreeOp}
MCInitMem == [a \in MCAddrs |-> IF a = "free" THEN NChunks ELSE 0]

(* A set allocates only while the allocator has a free chunk (the region's *)
(* words; the journaled view does not hold the free list); a del needs a   *)
(* record.                                                                 *)
MCPre(m, o) == IF o = AllocOp THEN "free" \notin DOMAIN m \/ m["free"] > 0
               ELSE m["elem"] > 0

(* Every chunk is either on the allocator's free list or in a block the    *)
(* map holds: whenever no call is under way, the free chunks and the       *)
(* records add up to all chunks, so none is leaked and none is both free   *)
(* and in use.                                                             *)
ChunksAccounted == pc = "idle" => mem["free"] + mem["elem"] = NChunks
===============================================================================
