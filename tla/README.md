# TLA+ models of DFDB

These TLA+ modules model the DFDB key-value store in `src/src/*.cpp`, and TLC
configurations check them. Every definition is translated from the C++ source.
`PROJECT.json` maps each definition to the lines it models. It also lists the
runs, the mutants that show each property can fail, the findings and the
hazards.

## The system

DFDB keeps values in append-only value logs, one per key-range group. A
LevelDB index maps each key to its value's position.

| Part | Source | State | Operations |
|---|---|---|---|
| Engine façade `Server` | `server.cpp` | none of its own | `put`, `get` (with a re-check loop), `del`, `getRange(start, count)`, `getRange(lower, upper)` |
| `BufferManager` | `buffer_manager.cpp` | `initialBuffer` before pivots exist; after that, `pivots` and one buffer per group; buffer sizes; one buffer lock | `put` (pivot generation on the first overflow, then the group buffer, flush when full), `get`, `del`, `flush` (wait-for-GC loop, then append, then index), `flushAll` |
| `ValueLog` / `Group` | `value_log.cpp`, `group.cpp` | group files; per-group write-since-GC counters (`increments`); the total size | `groupBatchPut` (append), `groupRewrite` (truncate and rewrite), `assignValueInfo` (read), `getGroupWithMaxIncr` |
| `LevelDBKeyManager` | `leveldb_key_manager.cpp` | key → serialised position; an LRU cache; the index lock | `batchPut`, `get`, `getKeys` (count and range), `deleteKey`, `writeMeta` |
| `FileManager` | `file_manager.cpp` | an LRU of open files; one recursive mutex per group | `operateFileMutex`, `getFileSize` |
| `GcManager` | `gc_manager.cpp` | none | `gc(group)`: pick a victim, lock, read the live keys, rewrite, re-index |
| YCSB adapter `FenceKV` | `src/ycsb/db/fencekv_db.h` | one `std::mutex` | `Read`, `Scan`, `Insert`, `Update`, `Delete`, each a `Server` call under the mutex |

Every mutex is a `recursive_mutex`. Each operation takes its locks in this order:

| Operation | Lock order |
|---|---|
| put | buffer, then flush's file g, then index (`batchPut`) |
| get | index (lookup), then file g, then index (re-check) |
| del | buffer (erase), then index (`deleteKey`), as two separate steps |
| getRange | buffer (inside `flushAll`, through every flush), then every file in id order, then index (`getKeys`) |
| gc | buffer, then index, then file g |

When the total size reaches `DISK_SIZE`, `BufferManager::flush` runs
`GcManager::gc` itself, while its caller `put` still holds the buffer lock.

## Modules

### `BufferPartition`

This module models the single-threaded path of `BufferManager` from an empty
store to partitioned buffers.

- **State:** `initialBuffer` and `initialBufferSize`, `pivots` (plus the
  persisted `metaPivots`), and `buffers` and `bufferSizes`.
- **Actions:**
  - `PutInitial` is `put` before pivots exist, including the pivot generation
    when the buffer overflows.
  - `GeneratePivots` is lines 80–145: pivot positions from `n % (GROUP_NUM-1)`
    in steps of `n / (GROUP_NUM-1)`, then the `Redistribute` cursor walk.
    The walk adds to the group buffers and their counters, as the code does.
    No configuration is assumed away: with `n < GROUP_NUM - 1` the loop
    yields no pivot at all.
  - `PutPartitioned` is `put` after pivots exist.
  - `Del` is `del`.
  - `FlushAll` is `flushAll`'s swap.
- **Pure algorithms:** `Redistribute` is a recursive operator. It is checked
  against the lookup that `getBelongingGroup` does (`PartitionMatchesLookup`).

The value logs are out of scope here. A flush is the reset of the buffer's
map and counter.

`MCBufferPartition` adds one observation variable, `lastPut`, the key and
value of the last put. It binds `PartitionKeepsEveryWrite`, an action
property of the pivot-generating step, to that put's own arguments.

### `DFDBEngine`

This module models the partitioned engine with concurrent client threads.

- **State:**
  - `buffers` and `bufferSizes`;
  - `files` (group → sequence of `[key, val]` records);
  - `buffered[g]`, how many records at the end of `files[g]` are still in
    the group's `FILE` buffer. `batchPut`'s `fseek` to the end and every
    read write the buffer out, so this is at most the last append or
    rewrite. `groupRewrite`'s `stat` does not see these records unless gc
    read from the group (an append is taken to fit the `FILE` buffer);
  - `index` (key → `[grp, off]` or `None`);
  - `increments` and `totalDbSize`;
  - the lock owners `bufOwner`, `idxOwner` and `fileOwner[g]` (recursive:
    `Free(owner, p)`);
  - per thread: `pc`, the call `op`, and local variables such as the layout
    read before the lock, the swapped buffer and the pending layouts.
- **Actions:** one action per step between two lock acquisitions:
  - put: `PutStart`, `FlushCheck` (the wait-for-GC loop), `PutAppend`,
    `PutIndex`;
  - get: `GetBuf`, `GetIdx`, `GetLock`, `GetRecheck`;
  - del: `DelBuf`, `DelIdx`;
  - gc: `GcStart`, `GcIdx`, `GcFile`, `GcScan`;
  - flushAll: `FASwap`, `FAAppend`, `FAIndex`;
  - getRange: `RangeStart`, `LockAll`, `RangeScan`.

  A step that needs a lock is enabled only while the lock is free or already
  held by the same thread.
- **GC inside a put:** a forced GC inside a put's flush reuses the GC actions
  and then returns to `FlushCheck`. After `MaxGcLoops` iterations the flush
  takes the `exit(0)` branch (`halted`).
- **Pivots:** the pivots are a constant, because the engine starts
  partitioned. `Init` is a store as `gcAll` leaves it, in a process that has
  opened every group file, so every group's file mutex exists. (A process
  just started over existing data has none; `FileCache` covers that.)
- **History variables (not code):**
  - `kv` is the last value written for each key, in linearisation order.
  - `seen` holds the `<<key, value>>` pairs a running call may return: for a
    get those of its key, for a range scan those of every key.

### `KVStore`

This is the abstract specification: what the engine promises a client. It is
a map from keys to values (`store`) and a count of client calls (`calls`).
A put sets one key, a delete clears one, and any other call (get, getRange,
gc) leaves the map as it is. Nothing else may change the map.

### `YCSBAdapter`

This module models the benchmark binding on top of `DFDBEngine`. Every
`FenceKV` method holds the adapter's mutex for its whole `Server` call, so
`AdapterFree(p)` admits a call only while every other thread is idle.
`Read`, `Scan`, `Insert`, `Update` and `Delete` are `GetBuf`, `RangeStart`,
`PutStart`, `PutStart` and `DelBuf` under that guard. The rest of each call
runs through `DFDBEngine`'s `Step`: flushes, the forced GC of a flush at the
disk budget, and the `flushAll` of a scan. The load phase starts from an
empty store (`YInit`). That store is already partitioned, so the load
phase's pre-partition path (`initialBuffer`) is not exercised.

The refinement mapping `YStore` reads the abstract map off the engine. A
value that a flush has swapped out of its buffer (`pbuf`, `fbuf`) and not yet
indexed counts as present, a delete between its two steps counts as done,
and otherwise the value is what a get would read (`Visible`). `Started`
counts the calls begun, so `KVStore`'s call counter advances when a call
starts.

### `StoreLifecycle`

This module models one engine process after another over the same data
directory, with a single client. It covers restarts, crashes and failing
LevelDB writes. The buffer state and its operations are `BufferPartition`'s,
reused through `BM == INSTANCE BufferPartition`.

- **Where bytes are.** `Group::batchPut` and `Group::rewrite` `fwrite` and
  never `fflush`. So a group file is two sequences of records:
  - `disk` holds what the OS has;
  - `stdio` holds what is still in the process's `FILE` buffer.

  An `fseek` (in `batchPut` and in every read), `resetFile`'s `fclose`, and a
  normal exit write the buffer out. A block larger than the buffer goes
  straight out (`spill`). A crash loses `stdio`. LevelDB writes through to
  the OS, so `index` and `metaPivots` survive a crash.
- **Index and cache.** `index` is LevelDB. `cache` is `LevelDBKeyManager`'s
  LRU list. `batchPut` refreshes the cache and then writes LevelDB, and the
  write may fail. `get` reads the cache first (`Lookup`); `getKeys` iterates
  LevelDB itself.
- **Actions:**
  - `Boot` is the constructors. `ValueLog` sums the file sizes. Then the
    `BufferManager` reads the pivots from the metadata, or it drains the
    INITIAL group into `initialBuffer` and truncates it (`readAndReset`:
    last write wins, then `resetFile`).
  - `Shutdown` is `~BufferManager`. It appends the `initialBuffer` to the
    INITIAL group, or it runs `flushAll`; then exit writes out the `FILE`
    buffers.
  - `Crash` is the process dying at any point between two calls.
  - `Put`, `Get`, `Del`, `Gc` and `GetRange` are the `Server` calls.
    - `Put` includes its flush (`FlushGroups`).
    - `Gc` is `flushAll`, the live-key scan, `groupRewrite` with its `stat`,
      and the re-index.
    - `GetRange` is `initialGetRange` before pivots exist. After that it is
      `flushAll`, then `getKeys`, then the reads.
  - `Stopped` is the end of the last process.
  - In a process started over existing data, `FileManager` has no mutex for
    a group before `openFile`. `Get`, `Gc` and `GetRange` leave out the
    null-mutex crash this causes (`server.cpp:83`, `gc_manager.cpp:43`,
    `server.cpp:144-146`); the null_mutex_after_restart run shows it. The
    omission only adds behaviours to the passing runs. It also lets a
    restarted process's gc rewrite a group it never opened, which the code
    cannot do, so no run here checks a crash after gc.
  - `Boot` reads the pivots back without `split`: on integer keys the split
    of the stored list is the identity. `IndexScan` checks the `|` case.
- **Reads.** `ReadAt` decodes the record at a position and, like
  `value_log.cpp:75`, skips the key bytes without comparing them. A position
  past the end of the file reads `Garbage`. Range scans and gc read through
  `ReadValues`, the read coalescing of `assignValueInfo(vector)`:
  - `ReadPlan` folds over the layouts (`ReadPlanStep`). A read whose offset is
    the end of the previous one joins it; a read of another group, or one that
    is not adjacent, starts a new block, and a change of group flushes the
    run to `Group::read`.
  - `GroupRead` decodes the run's blocks back to back into its layouts.
- **History variables (not code):**
  - `kv` holds the values a get may return for each key.
  - `bootView` is what a restart would have read when the current process
    started.
  - `written` is the set of keys the current process wrote.
  - `lastRange` holds the last range result and the store's pairs from its
    start key.
- **Refinement.** `AbstractStore` is what a client sees: `Server::get` while
  a process runs, and what a restart would read (`PersistedView`) while none
  runs. `KV == INSTANCE KVStore WITH store <- AbstractStore, calls <- nops`
  maps the module onto the abstract map, and `KVSpec == KV!Spec` is checked
  as a property.

### `KeyCodec`

Pure operators over byte strings (sequences of byte values), from
`util.cpp` and the pivot code of `BufferManager`:

- `ValidateKey` is `validateKey`: too long, or holding a blank, is
  `INVALID_KEY`; otherwise the key is right-padded with blanks.
- `Trim` is `trim`: every blank is removed.
- `Split` is `split` for a one-byte delimiter (`SplitLoop` is its `find`
  loop; an empty tail is dropped).
- `PivotInfo` is the persisted pivot list, each pivot followed by `|`.
- `KeyLess` is `std::string`'s `<` (unsigned bytes, a prefix first), and
  `SortKeys` sorts a set of keys by it.

### `IndexScan`

This module models the two `LevelDBKeyManager::getKeys` forms as loops of a
LevelDB iterator, and the group bounds gc scans with. Keys are byte strings
from `KeyCodec`: a client passes any string of up to `KEY_LENGTH + 1` bytes,
and LevelDB holds the ones `validateKey` accepts, padded.

- **State:** `lsm`, the keys LevelDB holds (`PIVOTS_KEY` included);
  `pivotsKey`, where the reserved key sorts; `pivots`, the process's pivot
  list; `result`, the last scan since the last index write.
- **Iterator.** The keys are sorted into a sequence and the iterator is a
  position in it, valid in `1..Len`. `Seek` is the first key at or after its
  target. `ScanCount`, `ScanForward` and `ScanBackward` are the `while` loops
  as recursive operators: each skips `specialKeys`; the forward loop stops
  past the upper bound; the backward one is reversed at the end. A `key()`
  read on an invalid iterator returns `Crash`.
- **Actions:** `BatchPut` and `DeleteKey` change the key set (a batch of one
  key: the scan never sees half a batch, so larger batches reach no other key
  set). `Restart` is the `BufferManager` constructor splitting the stored
  pivot list. `GetRangeCount` is `Server::getRange(start, n)`: validate the
  start key (an invalid one returns nothing), `getKeys`, trim the keys.
  `GcScan` is gc's `getGroupBound` followed by the bounded `getKeys`. A scan
  holds the index lock, so it is one step. `Init` is the store just after
  pivot generation: `writeMeta` has stored the pivots under `PIVOTS_KEY`.

### `FileCache`

This module models `FileManager`'s open-file LRU and its per-group recursive
mutexes, as the callers use them from several threads. Each thread runs a
call as a small program of file-manager operations, one step at a time.

- **State:**
  - `openedFiles` is the LRU list, least recently used first; `fpOf[g]` is the
    group's `FILE*`, and `closed` the handles already `fclose`d;
  - `fileMutexes[g]` is the group's mutex (`NoMutex` before its file is first
    opened in this process); a mutex is named by the `fopen` that created it;
  - `owner` and `depth` are the state of each recursive mutex;
  - `indexed` is the set of groups LevelDB has keys in;
  - per thread, `prog` and `pc` (the call's operations and the next one), and
    `fp`, the handle it holds.
- **Programs.** Each is the order of file-manager calls in the code:
  - `BatchPut`: `openFile` (the handle is taken before the lock), lock,
    `fwrite`, unlock, then the LevelDB index;
  - `PutProg`: `Server::put` holds the buffer lock across its flush's
    `BatchPut`, as `flushAll` and gc hold it across theirs;
  - `GetProg`: `Server::get` locks the group, then `assignValueInfo` opens,
    locks again, reads and unlocks, and `get` unlocks;
  - `RewriteProg`: lock, `resetFile`, `fwrite`, unlock;
  - `GcProg`: lock the buffer, lock the victim, the bounded `getRange` (a
    `flushAll` of every non-empty buffer, lock every group, unlock the ones
    with no keys, read the others), rewrite, unlock.
- **Actions:** `Start` picks a call and its arguments; `OpenFile` and
  `ResetFile` are `openFile` and `resetFile` with the LRU update, the eviction
  of the head when the list is over capacity (its handle is `fclose`d), and a
  new mutex on a miss (`file_manager.cpp:37`); `Lock` and `Unlock` are
  `operateFileMutex`; `FileIo` is an `fread` or `fwrite` on the held handle;
  `Index` is LevelDB's `batchPut`.
- **Unlock by a thread that does not own the mutex** is a no-op: glibc's
  recursive mutex returns `EPERM` and `recursive_mutex::unlock` ignores it.
  `UnlockOwnsMutex` flags the step.
- **Restart.** `InitMutexed` and `InitOpened` are the groups this process has
  already opened. An empty `InitMutexed` is a process just started over an
  existing data directory.

## Runs

| Run | Config | Checks | Result |
|---|---|---|---|
| buffer_partition | `MCBufferPartition.cfg` | TypeOK, PartitionMatchesLookup, SizeCountersExact, PivotsComplete, PartitionKeepsEveryWrite | pass, about 2,100 states |
| engine_write | `MCDFDBEngine_write.cfg` | TypeOK, StoreMatchesHistory, DbSizeCoversFiles, OperationsComplete | pass, 640k states, about 3 min |
| engine_read | `MCDFDBEngine_read.cfg` | ReadReturnsCurrent, RangeReturnsCurrent | pass, 605k states (thread symmetry), 30 s |
| forced_gc_get_deadlock | `MCDFDBEngine_getdeadlock.cfg` | NoLockCycle | violation |
| lifecycle_clean | `MCStoreLifecycle_clean.cfg` | TypeOK, ReadsReturnAcked, KVSpec | pass, 46k states |
| lifecycle_crash | `MCStoreLifecycle_crash.cfg` | RangeReturnsStore | pass, 55k states |
| drain_crash_loss | `MCStoreLifecycle_drainloss.cfg` | CrashKeepsUntouchedKeys | violation |
| file_cache | `MCFileCache.cfg` | TypeOK, FpOpenWhenUsed, FileIoExclusive, UnlockOwnsMutex | pass, 1.4M states, about 2 min |
| null_mutex_after_restart | `MCFileCache_restart.cfg` | MutexExistsWhenLocked | violation |
| gc_starves_dead_group | `MCDFDBEngine_gcstarve.cfg` | ExitOnlyWhenDiskFull | violation, 21 s |
| index_scan | `MCIndexScan.cfg` | TypeOK, GcScanCoversGroup, RangeScanReturnsFirstN, RangeKeysReadBack | pass, 3.5k states |
| ycsb_serialised | `MCYCSBAdapter.cfg` | KVSpec, ResultsMatchStore | pass, 78k states, 15 s |

Other configurations are kept beside the runs. Each one shows one more
violation of a property stated in a module:

| Config | Property | What TLC reports |
|---|---|---|
| `MCBufferPartition_balance.cfg` | PartitionsBalanced | partitions of 2, 1, 1 and 0 keys |
| `MCBufferPartition_fewkeys.cfg` | PartitionMatchesLookup | with `GROUP_NUM = 4` and `MAX_INITIAL_BUFFER_AMOUNT = 1`, generation yields no pivot; both writes move to `buffers[0]`, where no get looks |
| `MCDFDBEngine_getgc.cfg` | NoLockCycle | an explicit `gc` and a `get` deadlock |
| `MCStoreLifecycle_flushfail.cfg` | ReadsReturnAcked | a failing index write in gc's `flushAll`, then the rewrite drops the flushed record |
| `MCDFDBEngine_budget.cfg` | AppendsWithinBudget | a range scan's `flushAll` appends at the budget |
| `MCStoreLifecycle_crashindex.cfg` | IndexPointsToPersistedRecords | put with flush, crash: LevelDB points past the end of the group file |
| `MCStoreLifecycle_initrange.cfg` | RangeReturnsStore | before pivots exist, `getRange` from an absent start key returns nothing |
| `MCDFDBEngine_getdel.cfg` | ReadReturnsCurrent | a get between `del`'s buffer erase and its index delete returns a value overwritten before the get began |
| `MCIndexScan_invalid.cfg` | ScanNeverReadsInvalid | with `PIVOTS_KEY` below the user keys, gc of group 0 reads the key of an iterator past the end |
| `MCIndexScan_bar.cfg` | PivotsSurviveRestart | `validateKey` accepts `a\|`; as a pivot it is stored as `a\|\|a\|` and splits back into four pivots, two of them empty |
| `MCIndexScan_order.cfg` | RangeKeysAscending | a key with a tab sorts below the padding blank, so `getRange` returns `\t\t` before `\t` |
| `MCDFDBEngine_rangedeadlock.cfg` | NoLockCycle | `getRange` holds every file lock and waits for the index lock that gc holds |
| `MCStoreLifecycle_sizedrift.cfg` | DbSizeMatchesFiles | put (flush), del, gc: `totalDbSize` keeps bytes the rewrite removed |
| `MCDFDBEngine_sizedrift.cfg` | DbSizeMatchesFiles | del, then gc of the group whose `gcAll` rewrite is still in the `FILE` buffer: the `stat` misses it and the total keeps its bytes |
| `MCFileCache_evict.cfg` | FpOpenWhenUsed | with a capacity of one file, a get evicts and closes the handle another get is reading |
| `MCFileCache_remutex.cfg` | UnlockOwnsMutex | a reopen after eviction replaces the mutex `get` locked, and `get` then unlocks the new one |

### What the passing runs show

- **The partition path is sound.** Pivots are generated from every reachable
  initial buffer (up to four of the keys 1..6, two value lengths, three
  groups). After generation:
  - the group buffers hold exactly the earlier writes plus the key and value
    of the put that triggered generation, each with its latest value:
    nothing is lost and nothing is invented (`PartitionKeepsEveryWrite`);
  - each key sits in the group where `getBelongingGroup` will look for it,
    and no key sits in a group buffer before pivots exist;
  - through later puts, overwrites and deletes, the incremental size counters
    equal the sum of the record sizes.

  These properties guard `Group::batchPut`, which writes into a `malloc` of
  exactly the counter.
- **Puts, deletes and GC keep the store consistent.** This is checked with
  client and forced GC interleaved. Whenever no flush, flushAll or GC is in
  progress, the buffer and the index read back `kv` for every key
  (`StoreMatchesHistory`). `totalDbSize` is never below the sum of the file
  sizes (`DbSizeCoversFiles`): `groupRewrite`'s `stat` can miss the last
  append, which makes the total too large, never too small, so the
  disk-budget check is never too lenient.
- **Gets and range scans are correct when they race flushes.** A get
  returns a value the key held at some point during the call
  (`ReadReturnsCurrent`). A range scan returns, for each key it returns, a
  value the key held during the call (`RangeReturnsCurrent`): the
  `flushAll` at its start indexes every buffered value before the scan
  reads the index, even while puts keep arriving.
- **Every call returns** (`OperationsComplete`), unless the process exits.
  In the write run this is the wait-for-GC loop, bounded by its counter.
  The get re-check loop is not checked for termination: with bounded puts
  it ends by construction.
- **Clean restarts keep the data.** This holds over three process lifetimes:
  the INITIAL-group drain, the write-back in the destructor, the persisted
  pivots, flushes, gc and range scans. Two things are checked:
  - every get returns the last acknowledged write (`ReadsReturnAcked`);
  - the engine implements `KVStore` (`KVSpec`). Starting, stopping, flushing
    and gc never change what a client sees, and each put or delete changes
    one key.
- **The engine behind the YCSB adapter is a key-value map.** With the
  adapter's mutex, flushes, the forced GC and range scans are invisible to
  clients. `DFDBEngine` implements `KVStore` (`KVSpec`), and every Read and
  Scan returns the map as it is at the return (`ResultsMatchStore`).
- **The open-file cache is sound when it holds every group.** With three
  threads making flushing puts, gets and gc calls over a warm cache that
  never evicts and so never replaces a mutex, a thread uses only a
  handle that is still open (`FpOpenWhenUsed`), no two threads do file I/O on
  one group at once (`FileIoExclusive`), and every unlock is by the owner
  (`UnlockOwnsMutex`).
- **Index scans return the right keys.** For every key set LevelDB can hold
  after partitioning, and every place `PIVOTS_KEY` may sort, gc's bounded
  scan of group `g` returns exactly the indexed user keys that
  `getBelongingGroup` sends to `g`, in order (`GcScanCoversGroup`), so the
  rewrite keeps every live key. `getRange(start, n)` returns the first `n`
  user keys from `start`; the reserved key neither appears nor counts
  (`RangeScanReturnsFirstN`). Both hold whenever the scan returns. Every key
  `getRange` returns is one a client can pass back: validating it again gives
  a key LevelDB holds (`RangeKeysReadBack`).
- **Crashes do not break range scans.** With one crash at any point, a
  partitioned `getRange(start, n)` returns the first `n` present keys from `start`, with
  their current values (`RangeReturnsStore`). The values go through read
  coalescing, so this also checks that merged reads are cut back into the
  right values.

### What the violation runs show

These are recorded as findings in `PROJECT.json`.

- **Plain puts and gets deadlock once the disk is at its budget.** A get
  holds its group's file lock while it reads the index again (`server.cpp:83`
  to `:85`). A put's flush at the budget runs gc inside the put, which holds
  the buffer and index locks and then waits for that file lock. The get
  waits for the index lock, so neither moves (`NoLockCycle`).
- **Forced GC starves a group with dead bytes.** The wait-for-GC loop in
  `flush` compacts the group `getGroupWithMaxIncr` names, the first one with
  the largest count of records appended since its last GC. After `gcAll`
  every count is zero, and after each forced GC the compacted group's count
  is zero too, so the loop compacts group 0 on every iteration. The trace
  starts from a store as `gcAll` leaves it and deletes the key of group 1, so its
  9-byte record is dead. A put of group 0 then flushes at the budget of 16
  bytes, compacts group 0 twice and exits, while the live records hold only
  7 bytes (`ExitOnlyWhenDiskFull`).
- **A crash after a restart loses the pre-partition data.** A process
  started over an unpartitioned store reads the INITIAL group into
  `initialBuffer` and truncates the file (`group.cpp:220`); only its
  destructor writes the data back. The trace is put, clean shutdown,
  restart, crash: the key is gone, though the crashed process never wrote
  it (`CrashKeepsUntouchedKeys`).
- **A null mutex after a restart.** `fileMutexes` is filled only by
  `openFile`. In a process started over an existing data directory,
  `Server::get` (`server.cpp:83`) locks the group's mutex before
  `assignValueInfo` opens the file, so it locks a null `recursive_mutex*`.
  `gc` and the lock-all loop of `getRange` do the same.

The other configurations show more of the same kind. A failed index write
loses acknowledged data: `flushAll` ignores `flush`'s result, and the failed
`batchPut` has already refreshed the cache, so reads still work. But gc takes
its live keys from LevelDB, does not see the key, and rewrites its record
away. The lock-order inversion of the deadlock run is met by an explicit
gc too, and by a `getRange` (every file lock, then the index lock). With fewer initial keys than `GROUP_NUM - 1`, pivot
generation yields no pivot, yet it moves the buffered writes into
`buffers[0]`, where nothing reads them. `del` is not atomic
with `get`: the buffer erase and the index delete are two separate steps, so
a get in between returns a value that was overwritten before the get began.
`groupRewrite`'s `stat` misses the records still in the `FILE` buffer, so
`totalDbSize` drifts up. In `FileCache`, a handle can be used after it was
closed by any reader when the LRU is smaller than the number of groups; and the mutex of a group is replaced when its file is reopened, so an
unlock reaches a mutex that was never locked. The bounded `getKeys` reads
`it->key()` right after its `Seek` without `Valid()`
(`leveldb_key_manager.cpp:148` and `:178`). When no LevelDB key sorts at or
after the seek target, `DBIter::key()` dereferences a null child iterator and
the process dies. gc of group 0 meets this as soon as no key at or above
pivot 0 is indexed, if `PIVOTS_KEY` sorts below the user keys. Its value is in
a header that is not in the repository, so this stays a configuration beside
the runs. `validateKey` rejects only blanks, though the spec says the
delimiter of the persisted pivot list never occurs in a valid key: a pivot
holding `|` comes back after a restart as other pivots, and the wrong count is
only printed. And since keys are padded with a blank, a key holding a byte
below the blank (a tab) sorts after its own extensions, so `getRange`
returns the trimmed keys out of order.

### Bounds

- **Engine:** two threads, two keys, one pivot (two groups), and two values
  of record sizes 7 and 9 (`KEY_LENGTH = 2`). Each thread makes two calls
  (`MaxOps = 2`).
  - With `MAX_BUFFER_SIZE = 8`, one record of the long value fills a buffer
    and the short one does not. So both the flush path and the
    buffered-overwrite path happen.
  - In the write run, `DISK_SIZE = 16` is reached by two records, so forced
    GC and its exit branch happen. Elsewhere it is 100 (never reached) or
    25 (reached after a few flushes).
  - `MaxGcLoops = 3` stands for the code's 10000. With two groups, the victim
    choice repeats after two loops, so no more iterations could free more
    space.
- **YCSBAdapter:** the engine's two threads, two keys and two values, with
  two calls per thread from an empty store. `DISK_SIZE = 9` is reached by
  one flushed long record, so the second flush runs the forced GC and can
  take its exit branch. With three calls per thread the run takes half an
  hour (4.2M states) and shows nothing more.
- **BufferPartition:** up to four initial keys over three groups reach every
  branch of the pivot loop and of the redistribution cursor. That includes
  the key equal to a pivot and the keys past the last pivot.
- **StoreLifecycle:** two keys, two values of 7 and 9 bytes, and two groups.
  - `MAX_INITIAL_BUFFER_AMOUNT = 1`: the second key partitions the store, so
    one key can be drained and written back before that.
  - `MAX_INITIAL_BUFFER_AMOUNT = 0` in the crash run: the first put
    partitions, so the budget of calls goes to the partitioned paths.
  - Three process lifetimes (`MaxBoots`). There are up to five client calls
    in total (four in the crash run), and one crash or one failing write.
  - These bounds are enough for every action to fire. Put, flush, restart,
    gc and range each meet a store that holds flushed, buffered and deleted
    keys.
- **IndexScan:** `KEY_LENGTH = 2` and client keys over `a`, `b` and the
  blank, of one to three bytes (39 strings, 33 of them rejected). The six
  valid keys `a `, `aa`, `ab`, `b `, `ba`, `bb` fall into three groups of
  two under the pivots `aa` and `b `, so `getGroupBound` takes all three
  branches, and each group has a key that is a pivot and one that is not.
  A padded key (`a `) and an unpadded one (`aa`) sit side by side.
  `PIVOTS_KEY` sorts below, between or above the keys. Every subset of the
  keys is reachable by `BatchPut` and `DeleteKey`, and `MaxNum = 2` makes a
  count stop before the end.
- **FileCache:** two groups and three threads, each making up to four calls
  in all (`MaxCalls`), with at most eight `fopen`s. Three threads are needed
  for a gc and two readers on one group. The pass run's cache holds both
  groups (capacity 2). The capacity is set in a header that is not in the
  repository; the `evict` and `remutex` configurations use a capacity of one
  to show what happens below the number of groups.
- **Symmetry:** thread symmetry is used only in the safety-only engine runs.
  The liveness runs do not use it. `StoreLifecycle` has no symmetry, because
  keys are ordered.

### Fairness

Each engine thread has weak fairness on its `Step`, the steps of a call
already begun. The OS scheduler runs a runnable thread eventually, and a
step is enabled only while its lock is free. No fairness is placed on
`Call`, because clients may stop calling. The system may stop: every thread
idle after `MaxOps`, or the `exit(0)` branch. `Stopped` models this.
`YCSBAdapter` keeps the same fairness: the adapter's mutex only restricts
when a call may start.
`FileCache` checks only safety; its `Done` is every thread idle after
`MaxCalls`.
`StoreLifecycle` checks only safety and refinement, so it assumes no
fairness; its `Stopped` is the end of the last process.

## Not modelled

- **Left out:**
  - `StatisticsManager` only reports.
  - `util.cpp`'s `randStr`, used only by `Server::test`. Outside
    `IndexScan`, keys are modelled as valid padded keys, ordered as integers.
  - `ycsbc.h` only declares the benchmark driver, and `timer.cpp` reads
    the clock.
  - `Server::test` is a test driver.
- **Abstracted:**
  - The byte codec of records and positions. A record is whole, so a record
    torn by a crash in the middle of an append is not modelled.
  - The index's LRU cache in `DFDBEngine`, where it is folded into the index.
    `StoreLifecycle` models it.
  - The `FileManager` LRU of open files in `DFDBEngine` and `StoreLifecycle`;
    `FileCache` models it on its own, with the data left out.
- **Not in the repository:** the headers are not in the repository, so how
  the singletons are stored is unknown. So is whether `~BufferManager` runs
  at a normal exit. `Shutdown` models an exit that runs it, and `Crash`
  models one that does not.

## Plan for later sittings

1. `IndexScan` composed into `StoreLifecycle`'s gc and range scan, so the
   crash at `leveldb_key_manager.cpp:148` meets the persisted state.
2. `DFDBEngine` without the adapter's mutex refined to `KVStore`, once the
   known deadlocks are excluded from the configuration.
3. `StatisticsManager`'s timers and its `accumulate` totals.
