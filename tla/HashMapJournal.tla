---------------------------- MODULE HashMapJournal ----------------------------
(***************************************************************************)
(* The update journal of TC_HashMap (tagModifyHead, tagModifyData in       *)
(* tc_hashmap.h): a writer records each word it changes with update(addr, *)
(* value) in the next slot of _stModifyData and sets _cModifyStatus to 1;  *)
(* doUpdate(true) commits by setting the status to 2 and then copies the   *)
(* slots to their addresses, clears _iNowIndex and sets the status to 0.   *)
(* After a crash, connect() runs doUpdate(): a status of 1 drops the       *)
(* slots, a status of 2 copies them again.  The counter helpers write      *)
(* through update() (value read from memory, plus one), except             *)
(* incChunkCount/delChunkCount, which change _iUsedChunk directly; the     *)
(* free list of the chunk allocator (TC_MemMultiChunkAllocator) is         *)
(* written directly as well.                                               *)
(*                                                                         *)
(* The region survives a crash of the writing process (it is shared        *)
(* memory or a mapped file); the writer's locals do not.                   *)
(***************************************************************************)
EXTENDS Integers, Sequences

CONSTANTS
    Addrs,       \* words of the region that the mutations write
    JAddrs,      \* those written through update(); the rest directly
    Ops,         \* mutations: sequences of [a |-> word, d |-> increment, direct |-> BOOLEAN]
    InitMem,     \* the words after create()
    Pre(_, _),   \* Pre(m, o): the map calls mutation o on memory m
    K,           \* number of slots of _stModifyData
    MaxCrashes   \* bound on crashes of the writing process

ASSUME /\ JAddrs \subseteq Addrs
       /\ \A o \in Ops : \A i \in 1..Len(o) : o[i].direct = (o[i].a \notin JAddrs)

NoAddr == "none"   \* _iModifyAddr of a cleared slot

VARIABLES
    mem,       \* the words of the region
    status,    \* _cModifyStatus: 0, 1 or 2
    nowIndex,  \* _iNowIndex
    slots,     \* _stModifyData: [1..K -> [a, v]]
    pc,        \* the writer: idle, write, copy, reset or down (crashed)
    op,        \* the mutation under way
    pos,       \* its next write
    ci,        \* the next slot doUpdate copies
    crashes    \* crashes so far

vars == <<mem, status, nowIndex, slots, pc, op, pos, ci, crashes>>

EmptySlot == [a |-> NoAddr, v |-> 0]

Init ==
    /\ mem = InitMem
    /\ status = 0
    /\ nowIndex = 0
    /\ slots = [i \in 1..K |-> EmptySlot]
    /\ pc = "idle"
    /\ op = <<>>
    /\ pos = 1
    /\ ci = 1
    /\ crashes = 0

(* A public call of the map begins a mutation. *)
Begin(o) ==
    /\ pc = "idle"
    /\ Pre(mem, o)
    /\ pc' = "write"
    /\ op' = o
    /\ pos' = 1
    /\ UNCHANGED <<mem, status, nowIndex, slots, ci, crashes>>

(* update(addr, value): record [addr, value] in the next slot and mark the *)
(* journal as being modified; the value is computed from the word as it is *)
(* in memory (_pHead->_iDirtyCount + 1).                                   *)
Journal(w) ==
    /\ nowIndex < K
    /\ slots' = [slots EXCEPT ![nowIndex + 1] = [a |-> w.a, v |-> mem[w.a] + w.d]]
    /\ nowIndex' = nowIndex + 1
    /\ status' = 1
    /\ UNCHANGED mem

(* incChunkCount / delChunkCount (_pHead->_iUsedChunk++ in place), and the *)
(* allocator's own free list: a word changed in memory, not journaled.     *)
WriteDirect(w) ==
    /\ mem' = [mem EXCEPT ![w.a] = @ + w.d]
    /\ UNCHANGED <<status, nowIndex, slots>>

Write ==
    /\ pc = "write"
    /\ pos <= Len(op)
    /\ IF op[pos].direct THEN WriteDirect(op[pos]) ELSE Journal(op[pos])
    /\ pos' = pos + 1
    /\ UNCHANGED <<pc, op, ci, crashes>>

(* doUpdate(true): the status becomes 2, the commit point. *)
Commit ==
    /\ pc = "write"
    /\ pos > Len(op)
    /\ status' = 2
    /\ pc' = "copy"
    /\ ci' = 1
    /\ UNCHANGED <<mem, nowIndex, slots, op, pos, crashes>>

(* doUpdate, status 2: copy one slot to its address. *)
CopySlot ==
    /\ pc = "copy"
    /\ ci <= nowIndex
    /\ mem' = [mem EXCEPT ![slots[ci].a] = slots[ci].v]
    /\ ci' = ci + 1
    /\ UNCHANGED <<status, nowIndex, slots, pc, op, pos, crashes>>

(* Mutant: _iNowIndex is not cleared. *)
ClearSlotsKeepIndex ==
    /\ pc = "copy"
    /\ ci > nowIndex
    /\ slots' = [i \in 1..K |-> EmptySlot]
    /\ pc' = "reset"
    /\ UNCHANGED <<mem, status, nowIndex, op, pos, ci, crashes>>

(* doUpdate, after the copy (or for a status of 1): clear the slots and    *)
(* _iNowIndex, then, as a write of its own, the status.                    *)
ClearSlots ==
    /\ pc = "copy"
    /\ ci > nowIndex
    /\ slots' = [i \in 1..K |-> EmptySlot]
    /\ nowIndex' = 0
    /\ pc' = "reset"
    /\ UNCHANGED <<mem, status, op, pos, ci, crashes>>

(* Mutant: _cModifyStatus is left as it is. *)
ResetStatusKeepStatus ==
    /\ pc = "reset"
    /\ pc' = "idle"
    /\ op' = <<>>
    /\ UNCHANGED <<mem, status, nowIndex, slots, pos, ci, crashes>>

ResetStatus ==
    /\ pc = "reset"
    /\ status' = 0
    /\ pc' = "idle"
    /\ op' = <<>>
    /\ UNCHANGED <<mem, nowIndex, slots, pos, ci, crashes>>

(* The writing process dies; the region stays as it is. *)
Crash ==
    /\ pc # "down"
    /\ crashes < MaxCrashes
    /\ crashes' = crashes + 1
    /\ pc' = "down"
    /\ op' = <<>>
    /\ pos' = 1
    /\ ci' = 1
    /\ UNCHANGED <<mem, status, nowIndex, slots>>

(* Mutant: recovery replays the slots whatever the status. *)
RestartReplayAll ==
    /\ pc = "down"
    /\ pc' = IF status = 0 THEN "idle" ELSE "copy"
    /\ ci' = 1
    /\ UNCHANGED <<mem, status, nowIndex, slots, op, pos, crashes>>

(* connect() -> doUpdate(): replay a committed journal (status 2), drop an *)
(* uncommitted one (status 1: copy nothing, then clear).                   *)
Restart ==
    /\ pc = "down"
    /\ pc' = IF status = 0 THEN "idle" ELSE "copy"
    /\ ci' = IF status = 2 THEN 1 ELSE nowIndex + 1
    /\ UNCHANGED <<mem, status, nowIndex, slots, op, pos, crashes>>

Next ==
    \/ \E o \in Ops : Begin(o)
    \/ Write \/ Commit \/ CopySlot \/ ClearSlots \/ ResetStatus
    \/ Crash \/ Restart

(* The writer runs its steps; crashes are bounded, not forced. *)
Spec == Init /\ [][Next]_vars
          /\ WF_vars(Write) /\ WF_vars(Commit) /\ WF_vars(CopySlot)
          /\ WF_vars(ClearSlots) /\ WF_vars(ResetStatus) /\ WF_vars(Restart)

(***************************************************************************)
(* Properties                                                              *)
(***************************************************************************)
(* The journaled words as a reader that honours the journal sees them:     *)
(* once committed, the slots override memory.                              *)
RECURSIVE Overlay(_, _)
Overlay(m, n) ==
    IF n = 0 THEN m ELSE [Overlay(m, n - 1) EXCEPT ![slots[n].a] = slots[n].v]

JView == LET m == IF status = 2 THEN Overlay(mem, nowIndex) ELSE mem
         IN [a \in JAddrs |-> m[a]]

Atomic == INSTANCE JournalAtomic WITH absMem <- JView

(* Every mutation takes effect on the journaled words at once, at the      *)
(* commit of doUpdate(true), and a crash anywhere, also during the replay  *)
(* connect() performs, leaves it either wholly done or wholly undone.      *)
AtomicMutations == Atomic!Spec

(* Every call the map begins ends with an empty journal: it completes, or  *)
(* the process crashes and connect() replays or drops what it left.        *)
CallsComplete == (pc # "idle") ~> (pc = "idle" /\ status = 0)
===============================================================================
