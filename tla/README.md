# TLA+ models of TarsCpp: TC_HashMap, its update journal, and TC_Thread

These modules model the parts of this repository that hold state and concurrency.
They are checked with TLC.

- `src/util/include/util/tc_hashmap.h` is a shared-memory hash map with LRU
  chains, dirty-data write-back and backup sweeps. It has a redo journal that
  makes header updates crash-atomic. Only the header is in this repository,
  with its layout structs, inline helpers and documented contracts. The
  operation bodies (`tc_hashmap.cpp`) are not, so they follow the header
  comments and `spec.md` §4.
- `src/util/src/tc_thread.cpp` is the thread wrapper. `start()` hands off to
  `threadEntry` through the monitor `_lock`.

The other sources are left out, and PROJECT.json says why for each:
- `BaseF.h`: generated constants;
- `tc_fcontext.h`: assembly declarations;
- `HelloImp.cpp`: an echo servant;
- `code_generator.h`: a code generator.

## Inventory

**TC_HashMap.** The region holds these parts:
- a header `tagMapHead` with:
  - chain heads and tails;
  - the cursors `_iDirtyTail`, `_iSyncTail` and `_iBackupTail`;
  - the counters `_iElementCount`, `_iDirtyCount`, `_iOnlyKeyCount` and `_iUsedChunk`;
  - the flags `_bReadOnly`, `_bAutoErase` and `_cEraseMode`;
- the journal `tagModifyHead`;
- the bucket table `tagHashItem`, with a head and a count per bucket;
- chunks. A block is a head chunk with a `tagBlockHead` plus continuation
  chunks. Each block is linked on three doubly linked lists: its bucket chain,
  the SET chain and the GET chain.

The dirty, sync and backup "chains" are cursors that walk the SET chain from
the tail towards the head. The code has no link fields for separate lists.
For the dirty and sync cursors the header's comments name the SET order. For
`_iBackupTail` they do not: the model takes the SET chain as well, because it
is the only chain whose order `backup` could follow without a list of its
own. That choice is not confirmed by the header, and `BackupComplete` and
`BackupOnce` depend on it.

The operations are:
- `set`, with a value or key only;
- `get`, `del`, `erase(radio)`;
- `setDirty`, `setClean`, `setDirtyAfterSync`;
- `sync()` and `sync(now, data)`;
- `backup(force)` and `backup(data)`;
- `setReadOnly`, `setAutoErase`, `setEraseMode`, `setSyncTime`, `clear`,
  `create` and `connect`.

Allocation takes chunks from a free list. When the list is empty it
eliminates blocks from the end of the GET or SET chain (`eraseExcept`, by
`_cEraseMode`), never the block being grown. `erase(radio)` is different: its
comment (`:1852`) says it eliminates "according to Get time", so it always
takes the GET tail.

**Journal.** Each counter helper (`incDirtyCount`, …) calls
`update(addr, value)`, which records a slot and sets status 1.
`doUpdate(true)` sets status 2, copies the slots, clears `_iNowIndex`, then
sets status 0. `connect` runs `doUpdate()`: status 2 is replayed and status 1
is dropped. `incChunkCount` and `delChunkCount` are the exceptions: they
write `_iUsedChunk` directly. The free list belongs to the chunk allocator
(`TC_MemMultiChunkAllocator`, `:504`), which writes it directly too.

**TC_Thread.** `start()` takes `_lock` and throws if `_running` is set.
Otherwise it creates a `std::thread`, stores it in `_th`, and waits on
`_lock`. `threadEntry` sets `_running`, notifies under `_lock`, runs `run()`,
then clears `_running`. The destructor detaches a joinable `_th` and deletes
it. `TC_ThreadControl` joins or detaches, with no `joinable()` check: a
control still held after the destructor calls `join`/`detach` on the
deleted `std::thread`.

## Modules

| Module | Models | State ↔ code |
|---|---|---|
| `HashMap` | the TC_HashMap operations, one atomic step per public call | `blk` = `tagBlockHead` of each chunk (links, key, value, dirty, onlyKey, sync time, continuation chunks); `hd` = `tagMapHead`; `hash` = `tagHashItem[]`; `free` = the allocator's free list; `now` = the time passed to `sync`; `bk` = ghost record of a backup sweep; `sy` = ghost record of a write-back pass (the keys dirty and due when `sync()` started it, and whether a finished pass missed one) |
| `HashMapCache` | the abstract cache: records plus SET and GET recency orders, with eviction from the end of one order | refined by `HashMap` through `Abs == INSTANCE HashMapCache WITH store <- AbsStore, setSeq <- keys along the SET chain, getSeq <- keys along the GET chain`; `erase` removes the end of `getSeq` |
| `HashMapJournal` | `update`/`doUpdate`/`connect` over a few words of the region, with writer crashes | `mem` = the words, `status` = `_cModifyStatus`, `nowIndex` = `_iNowIndex`, `slots` = `_stModifyData` |
| `JournalAtomic` | what the journal promises: journaled words change by whole mutations | refined by `HashMapJournal` through `JView`, which is memory with the slots overlaid once status is 2 |
| `TCThread` | `start`, `threadEntry`, `join`, `detach`, `~TC_Thread` with the monitor | `running` = `_running`, `th` = `_th`, `owner` and the caller `pc` = the mutex and the wait set of `_lock`, `tpc` = the position in `threadEntry`; `ctl` = the `TC_ThreadControl` a caller got from `getThreadControl`; `aborted` = an exception left `threadEntry` and `std::terminate` ended the process |
| `HashMapHashIter` | the bucket sweep `for (it = hashBegin(); it != hashEnd(); ++it) it->get(v)`, also from `hashIndex(i)`, and `HashMapItem::setDirty`, beside the writer | `hi.idx` = the iterator's bucket index (`hashEnd()` = the bucket count), `hi.at` = the block `HashMapItem::get` is reading; ghost `got`, `dup`, `present` record what the sweep returned and what had data throughout |
| `HashMapLockIter` | the locked iterator (`begin`, `rbegin`, `beginSetTime`, `rbeginSetTime`, `beginGetTime`, `rbeginGetTime`, `beginDirty`, `find`, `operator++`), composed with the sweep and the writer under one map lock | `li.addr` = the iterator's block offset, `li.type`/`li.order` = `IT_BLOCK`/`IT_SET`/`IT_GET` and `IT_NEXT`/`IT_PREV`; `nextItem`/`prevItem` are `ItemNext`/`ItemPrev`; ghost `want` = the chain read off when the iteration began, `got` = what `operator++` delivered |
| `MCHashMap`, `MCTCThread`, `MCHashMapIter` | instances for TLC | model values and small sets |
| `MCHashMapJournal` | the journal under allocation and release of a chunk | words `elem` (`_iElementCount`) and `list` (a bucket's `_iListCount`) are journaled; `free` (the allocator's free list) and `used` (`_iUsedChunk`) are direct. `AllocOp` is `allocateMemBlock` + `makeNew` (free, used, list, elem); `FreeOp` is `Block::erase` + `deallocateMemBlock` (list, elem, free, used) |

`HashMap` keeps the whole control of every call in one action: early returns
(read-only, no data, only key), the reservation of chunks with elimination,
the record write, the dirty flag and the move to the SET head. Return codes
appear only in comments, because no property depends on them.

## Runs

| Run | cfg | Expect | What it shows |
|---|---|---|---|
| hashmap_core | MCHashMap.cfg | pass | `RegionWellFormed`: the chains and bucket chains are proper lists over the live blocks, every chunk is free or owned once, and the cursors rest on live blocks. `CountersMatch`: the header counters agree with the region. `DirtyCovered`: every dirty block lies between the SET head and `_iDirtyTail`. `BackupComplete`: a finished sweep returned every record it started with that still has data. `SyncComplete`: a write-back pass that `sync(now, data)` reports finished returned every record that was dirty and due when `sync()` started it and stayed so. |
| hashmap_refines_cache | MCHashMapRefine.cfg | pass | `CacheRefinement`: the pointer-level map implements `HashMapCache`, with elimination during allocation by the SET chain and `erase` by the GET chain. |
| hashmap_iterators | MCHashMapIter.cfg | pass | `LockIterationExact`: every locked iteration returns exactly its chain from the start position, also where `IT_BLOCK` crosses buckets in either direction. `DirtyIterationCovers`: a `beginDirty()` loop that reaches `end()` has read every dirty record. `HashSweepExact`: a sweep from `hashBegin()` or `hashIndex(i)` that locks each item call returns each key of its buckets that had data throughout, and none twice. `DirtyCovered`: the bucket `setDirty` keeps the dirty cursor invariant. The writer here also calls the setters, `clear`, `sync` and `setDirtyAfterSync`. |
| hashmap_hash_sweep_nolock | MCHashMapIterNoLock.cfg | violation | `HashSweepExact` without a lock around the item calls, as the header's "do not require a lock" allows: the sweep returns a key twice. |
| hashmap_backup_once | MCHashMapBackupOnce.cfg | violation | `BackupOnce`: a `set` during a sweep makes `backup(data)` return a key twice. |
| journal_atomic | MCHashMapJournal.cfg | pass | `AtomicMutations`: `JournalAtomic!Spec` holds with crashes anywhere, replay included. `CallsComplete`: the journal always drains. |
| journal_chunk_leak | MCHashMapJournalChunkLeak.cfg | violation | `ChunksAccounted`: a crash inside an allocation leaks a chunk. The chunk is off the free list (a direct write), and the dropped journal never put it in a block. |
| thread_start_contended | MCTCThreadContended.cfg | pass | `StartTerminates` holds with two callers and spurious wakeups. It allows the process to end by an exception leaving `threadEntry`. The callers also restart, get a `TC_ThreadControl`, join, detach and destroy. |
| thread_concurrent_start | MCTCThreadConcurrentStart.cfg | violation | With two callers and spurious wakeups, a second `start()` runs a second thread. |
| thread_destroy_running | MCTCThreadDestroy.cfg | violation | `NoUseAfterFree`: `threadEntry` writes `_running` of a destroyed `TC_Thread`; a `join`/`detach` through a control kept past the destructor reaches the same property. |
| thread_restart_leak | MCTCThreadRestart.cfg | violation | `NoThreadObjectLeak`: a `start()` after the thread finished overwrites `_th`, and the previous `std::thread` is never deleted. |

Each property of a passing run has a mutant in PROJECT.json: a plausible bug
in a mapped definition that TLC must catch.

## Findings

PROJECT.json lists each finding with its source line. In short:
- `start()` can run two threads (`tc_thread.cpp:83`, `:126`). `_running` is set by the new thread, outside the lock, and the wait has no predicate. A second `start()` that gets the mutex first passes the check. The caller can be another thread while the first waits, or the same one after a spurious wakeup.
- `~TC_Thread` detaches a running thread, which then writes `_running` of the destroyed object (`:73`).
- A restart overwrites `_th` without deleting it (`:118`), so the old `std::thread` leaks (thread_restart_leak).
- A crash inside an allocation leaks a chunk (`tc_hashmap.h:2126`). The allocator's free list and `_iUsedChunk` are written directly, while the block is linked and counted through the journal that `connect` drops.
- `backup(data)` can return a key twice (`:1941`).
- An unlocked bucket sweep returns a key twice (`:2024`). A `set` evicts the block `HashMapItem::get` stands on, and reuses its chunk for a key of another bucket.

## Bounds

**hashmap_core.** Three keys, two of which share bucket 0. A one-chunk and
a two-chunk value. Two chunks. With these bounds:
- the region fills after two sets;
- a set of the large value must eliminate;
- elimination chooses between two other blocks;
- `eraseExcept` has to skip the block being grown.

`SyncAge = 1` and a clock bounded by 1 give a dirty block that is due and
one that is not. A symmetry swaps the two colliding keys. The setters are
left to the iterator run, whose writer calls them. The run has 555K distinct
states and takes about 2 minutes.

**hashmap_refines_cache.** The same bounds with eviction by the SET chain
and the clock fixed at 0 (101K states, about 2 minutes). The refinement
property puts the stuttering disjunct first, so TLC cheaply checks the many
steps that leave the abstract state alone. It is equivalent to `Abs!Spec`.

**journal_atomic.** Three chunks, the alloc and free mutations, two slots
and up to two crashes. A crash can land at every write, at the commit, at
every copy, at the clear and during a replay. Two crashes can leak two
chunks, so the third keeps the map able to allocate or release, and the run
checks deadlock. **journal_chunk_leak** uses the same instance.

**hashmap_iterators.** Three keys, two in bucket 0 and one in bucket 1.
One-chunk values and two chunks, so the map fills and a `set` eliminates.
Every `IT_BLOCK` step either stays in a bucket or crosses to the other, in
both directions. A third chunk, for a two-block bucket followed by another
bucket, makes the composed state space too large for TLC (more than 10
minutes); that crossing runs through the same `FirstFrom`/`LastFrom` step. The
run has 3.3M distinct states and takes about 75 seconds.

**thread_start_contended** has two callers, two threads and spurious
wakeups, so both contention and restarts happen. **thread_restart_leak**
has one caller and two threads, which is enough for one restart.

## Fairness

- **Journal.** The writer's own steps are weakly fair. Crashes are bounded and
  never forced.
- **Thread.** Each runnable thread is weakly fair, because the OS schedules it.
  A thread that is blocked on a mutex which becomes free again and again gets
  the mutex: this is strong fairness on the steps that take it. Calling
  `start`, `join` and `detach`, and destroying the object, are choices of the
  application and are not fair. An exception leaving `threadEntry` is not
  fair either, and after it no step is: fairness is stated over the steps
  wrapped in `InProcess`, which require that the process has not aborted.
- **Iterators.** Only safety properties are checked, so no fairness is
  assumed. The map lock is modelled by the guards: a writer call and a locked
  item call wait while a locked iteration is open, and a begin call waits
  while a locked `HashMapItem::get` walks.
- **Deadlock checking.** It is off for the TCThread runs. The system really
  stops there: every thread has finished, and the owner has used up its
  starts.

## Not modelled, and the plan

- The same-size-class update and multiple size classes of the chunk
  allocator.
- `dump2file`/`load5file` (file I/O), `recover` (repair of corrupted
  buckets), `append` and the statistics counters. Their bodies are in the
  missing `.cpp`, and the header says too little about them (which blocks
  `recover` drops, how `load5file` rebuilds the chains) for a faithful model.
- `setEraseCount`. `_iEraseCount` is a header field that `eraseExcept`
  reads, but a setter among the iterator writer's calls doubles that run.
- Of the iterators: `HashMapLockItem::set`
  (used only inside `TC_HashMap::set`), and iterator copies.
- The composition of `HashMap` with `HashMapJournal`: each public call as a
  journal epoch, so crashes hit the chain splices themselves.
- Readers in another process running beside the writer, other than the
  iterators above.
- A check that a journal epoch fits in the 20 slots. It needs the write
  counts from the missing `.cpp`.

Later work, in order:
1. the composition of `HashMap` and the journal, under crash;
2. `recover` over a corrupted bucket chain;
3. dump/load round trip as a refinement;
4. two size classes in the allocator.
