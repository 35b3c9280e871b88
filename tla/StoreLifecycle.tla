-------------------------- MODULE StoreLifecycle ---------------------------
(***************************************************************************)
(* One engine process after another over the same data directory, with a *)
(* single client: the Buffer Manager's constructor (drain of the INITIAL  *)
(* group, or the persisted pivots) and destructor (write-back of the      *)
(* initialBuffer, or flushAll), Server::put, get, del and gc(groupId) in  *)
(* between, and process crashes.                                          *)
(*                                                                         *)
(* The buffer state and its operations are BufferPartition's, reused      *)
(* through the instance BM.  What a crash keeps is modelled by where the  *)
(* bytes are: a group file's records are either held by the OS (disk) or *)
(* still in the FILE buffer of the process (stdio), which Group::batchPut *)
(* and Group::rewrite fill with fwrite and never fflush; an fseek, fclose *)
(* or a clean exit writes the FILE buffer out.  The LevelDB index is      *)
(* written through to the OS on every Write, so it survives a crash.      *)
(* A LevelDB write may fail (LevelDBKeyManager::batchPut returns false).  *)
(***************************************************************************)
EXTENDS Integers, SequencesExt

CONSTANTS
    Keys, Values, ValueLen, GROUP_NUM, MAX_INITIAL_BUFFER_AMOUNT, MAX_BUFFER_SIZE, KEY_LENGTH,
    INITIAL_GROUP_ID,        \* the reserved id of the pre-partition group file
    None, Garbage, Uncached,
    MaxOps,                  \* client calls, over all processes
    MaxBoots, MaxCrashes, MaxWriteFails,
    RangeNum                 \* numKeys of getRange

VARIABLES
    initialBuffer, initialBufferSize, pivots, metaPivots, buffers, bufferSizes,
    disk,        \* file id -> Seq([key, val]): records the OS holds
    stdio,       \* file id -> Seq([key, val]): records still in the FILE buffer
    index,       \* key -> position or None: LevelDB
    cache,       \* key -> position or Uncached: LevelDBKeyManager's LRU list
    totalDbSize, \* ValueLog
    running,     \* a process is up
    nops, boots, crashes, writeFails,
    kv,          \* history: key -> the values a get may return
    bootView,    \* history: what a restart would have read when this process started
    written,     \* history: the keys this process's puts and deletes wrote
    lastRange    \* the pairs the last getRange returned, and the store's pairs from its start

BM == INSTANCE BufferPartition

bufVars == <<initialBuffer, initialBufferSize, pivots, buffers, bufferSizes>>
vars == <<bufVars, metaPivots, disk, stdio, index, cache, totalDbSize, running,
          nops, boots, crashes, writeFails, kv, bootView, written, lastRange>>

Groups == BM!Groups
FileIds == Groups \cup {INITIAL_GROUP_ID}
EmptyMap == BM!EmptyMap
Pos == [grp : Groups, off : Nat \ {0}]

\* 4 + KEY_LENGTH + value.length(); the length of a garbage value is not tracked.
RecordBytes(r) == 4 + KEY_LENGTH + (IF r.val \in Values THEN ValueLen[r.val] ELSE 0)
FileBytes(f) == MapThenSumSet(LAMBDA i : RecordBytes(f[i]), DOMAIN f)

Records(m) == LET ks == SetToSortSeq(DOMAIN m, <)
              IN  [i \in 1 .. Len(ks) |-> [key |-> ks[i], val |-> m[ks[i]]]]

\* Mutant: offsets counted from the start of the file instead of its end.
LayoutFromZero(m, g, base) ==
    [k \in DOMAIN m |-> [grp |-> g, off |-> Cardinality({x \in DOMAIN m : x <= k})]]

\* The position Group::batchPut (base = records before the append) or
\* Group::rewrite (base = 0) gives each record of m.
Layout(m, g, base) ==
    [k \in DOMAIN m |-> [grp |-> g, off |-> base + Cardinality({x \in DOMAIN m : x <= k})]]

\* What the process reads from a group file: fseek writes out its FILE buffer first.
File(g) == disk[g] \o stdio[g]

\* ValueLog::assignValueInfo(key, layout): the value of the record at a
\* position, whichever key it belongs to (the key bytes are skipped), or
\* bytes that are not a value when the position is past the end.
ReadAt(f, pos) ==
    IF pos.off <= Len(f) THEN f[pos.off].val ELSE Garbage

\* Group::readAndReset's decode: a later record of a key overwrites an earlier one.
LastWriteWins(f) ==
    [k \in {f[i].key : i \in DOMAIN f} |-> f[Max({i \in DOMAIN f : f[i].key = k})].val]

\* LevelDBKeyManager::get: the cached position, else the stored one.
Lookup(k) == IF cache[k] /= Uncached THEN cache[k] ELSE index[k]

\* The buffer BufferManager::get and del use for k.
KeyBuffer(k) == IF BM!PivotsGenerated THEN buffers[BM!GetBelongingGroup(k)] ELSE initialBuffer

\* Server::get with no other thread running: the buffer, then the index.
GetResult(k) ==
    IF k \in DOMAIN KeyBuffer(k) THEN KeyBuffer(k)[k]
    ELSE IF Lookup(k) = None THEN None
    ELSE ReadAt(File(Lookup(k).grp), Lookup(k))

\* BufferManager::getGroupBound with the two-sided LevelDBKeyManager::getKeys.
InGroupBound(k, g) ==
    /\ g = 0 \/ pivots[g] < k
    /\ g = GROUP_NUM - 1 \/ k <= pivots[g + 1]

\* What a process started now would read for k: the INITIAL group's last
\* record of k before partitioning, else the record the index points at on disk.
PersistedView(k) ==
    IF metaPivots = <<>>
    THEN LET d == LastWriteWins(disk[INITIAL_GROUP_ID])
         IN  IF k \in DOMAIN d THEN d[k] ELSE None
    ELSE IF index[k] = None THEN None ELSE ReadAt(disk[index[k].grp], index[k])

-----------------------------------------------------------------------------
(***************************************************************************)
(* ValueLog::assignValueInfo(keys, valueLayouts): one pass over the        *)
(* layouts in key order plans the reads of each run of layouts of one      *)
(* group, merging a layout into the previous read when it starts where    *)
(* that read ends; Group::read then reads each planned block and decodes   *)
(* its records back to back into the run's layouts.  Offsets and lengths  *)
(* count records.                                                          *)
(***************************************************************************)
\* Mutant: a layout of another group is merged into the current read.
ReadPlanStepSameGroup(st, l) ==
    LET merge == st.pre /= <<>> /\ st.pre[1] + st.pre[2] = l.off
    IN  [st EXCEPT !.n = @ + 1,
                   !.blocks = IF st.pre /= <<>> /\ ~merge THEN Append(@, st.pre) ELSE @,
                   !.pre = IF merge THEN <<st.pre[1], st.pre[2] + l.len>> ELSE <<l.off, l.len>>]

ReadPlanStep(st, l) ==
    LET s     == IF l.grp = st.grp THEN st
                 ELSE [runs   |-> Append(st.runs, [grp |-> st.grp, n |-> st.n,
                                                  blocks |-> Append(st.blocks, st.pre)]),
                       grp    |-> l.grp, n |-> 0, blocks |-> <<>>, pre |-> <<>>]
        merge == s.pre /= <<>> /\ s.pre[1] + s.pre[2] = l.off
    IN  [s EXCEPT !.n = @ + 1,
                  !.blocks = IF s.pre /= <<>> /\ ~merge THEN Append(@, s.pre) ELSE @,
                  !.pre = IF merge THEN <<s.pre[1], s.pre[2] + l.len>> ELSE <<l.off, l.len>>]

ReadPlan(lays) ==
    LET st == FoldLeft(ReadPlanStep,
                       [runs |-> <<>>, grp |-> lays[1].grp, n |-> 0, blocks |-> <<>>, pre |-> <<>>],
                       lays)
    IN  Append(st.runs, [grp |-> st.grp, n |-> st.n, blocks |-> Append(st.blocks, st.pre)])

\* Group::read: the values of the records of each block, assigned in order
\* to the run's layouts; bytes past the end of the file are not a value.
GroupRead(f, run) ==
    LET blk(b) == [i \in 1 .. b[2] |-> IF b[1] + i - 1 <= Len(f) THEN f[b[1] + i - 1].val ELSE Garbage]
        d      == FlattenSeq([j \in DOMAIN run.blocks |-> blk(run.blocks[j])])
    IN  [j \in 1 .. run.n |-> IF j <= Len(d) THEN d[j] ELSE Garbage]

\* The values assignValueInfo reads for the keys ks from the files fs.
ReadValues(fs, idx, ks) ==
    IF ks = <<>> THEN <<>>
    ELSE LET plan == ReadPlan([i \in DOMAIN ks |-> [grp |-> idx[ks[i]].grp,
                                                    off |-> idx[ks[i]].off, len |-> 1]])
         IN  FlattenSeq([r \in DOMAIN plan |-> GroupRead(fs[plan[r].grp], plan[r])])

-----------------------------------------------------------------------------
(***************************************************************************)
(* BufferManager::flush of the group buffers bs (group -> map): for each  *)
(* non-empty one, Group::batchPut seeks to the end, which writes out the  *)
(* FILE buffer, and fwrites the block, which stays in the FILE buffer     *)
(* unless it is larger (spill[g]); ValueLog::groupBatchPut adds its size; *)
(* LevelDBKeyManager::batchPut puts the new positions into the LRU list   *)
(* and then writes them to LevelDB, which fails for the groups in failed. *)
(***************************************************************************)
Appended(bs) == {g \in DOMAIN bs : bs[g] /= EmptyMap}

AfterAppend(bs, spill) ==
    [d |-> [g \in FileIds |->
               IF g \in Appended(bs)
               THEN disk[g] \o stdio[g] \o (IF spill[g] THEN Records(bs[g]) ELSE <<>>)
               ELSE disk[g]],
     s |-> [g \in FileIds |->
               IF g \in Appended(bs)
               THEN IF spill[g] THEN <<>> ELSE Records(bs[g])
               ELSE stdio[g]]]

BatchLayouts(bs) ==
    [k \in UNION {DOMAIN bs[g] : g \in DOMAIN bs} |->
        LET g == CHOOSE g \in DOMAIN bs : k \in DOMAIN bs[g]
        IN  Layout(bs[g], g, Len(File(g)))[k]]

IndexAfter(bs, failed) ==
    LET lay == BatchLayouts(bs)
    IN  [k \in Keys |-> IF k \in DOMAIN lay /\ lay[k].grp \notin failed THEN lay[k] ELSE index[k]]

CacheAfter(bs) ==
    LET lay == BatchLayouts(bs)
    IN  [k \in Keys |-> IF k \in DOMAIN lay THEN lay[k] ELSE cache[k]]

FlushedBytes(bs, sizes) == MapThenSumSet(LAMBDA g : sizes[g], Appended(bs))

FailuresLeft == MaxWriteFails - writeFails

FlushGroups(bs, sizes, spill, failed) ==
    LET a == AfterAppend(bs, spill) IN
    /\ failed \subseteq Appended(bs)
    /\ Cardinality(failed) <= FailuresLeft
    /\ disk' = a.d
    /\ stdio' = a.s
    /\ index' = IndexAfter(bs, failed)
    /\ cache' = CacheAfter(bs)
    /\ totalDbSize' = totalDbSize + FlushedBytes(bs, sizes)
    /\ writeFails' = writeFails + Cardinality(failed)

-----------------------------------------------------------------------------
(***************************************************************************)
(* Process start.  ValueLog's constructor sums the group file sizes; the  *)
(* BufferManager constructor reads the pivots from LevelDB's metadata and *)
(* either uses them, with empty buffers, or drains the INITIAL group into *)
(* initialBuffer and truncates it (ValueLog::readGroupAndReset).          *)
(***************************************************************************)
Boot ==
    /\ ~running /\ boots < MaxBoots
    /\ running' = TRUE /\ boots' = boots + 1
    /\ cache' = [k \in Keys |-> Uncached]
    /\ totalDbSize' = MapThenSumSet(LAMBDA g : FileBytes(disk[g]), Groups)
    /\ buffers' = [g \in Groups |-> EmptyMap] /\ bufferSizes' = [g \in Groups |-> 0]
    /\ IF metaPivots = <<>>
       THEN LET drained == LastWriteWins(disk[INITIAL_GROUP_ID]) IN
            /\ initialBuffer' = drained
            /\ initialBufferSize' = BM!MapSize(drained)
            /\ pivots' = <<>>
            /\ disk' = [disk EXCEPT ![INITIAL_GROUP_ID] = <<>>]
       ELSE /\ pivots' = metaPivots
            /\ initialBuffer' = EmptyMap /\ initialBufferSize' = 0
            /\ UNCHANGED disk
    /\ bootView' = [k \in Keys |-> PersistedView(k)] /\ written' = {}
    /\ UNCHANGED <<metaPivots, stdio, index, nops, crashes, writeFails, kv, lastRange>>

\* The process dies: everything in memory, FILE buffers included, is lost.
Crash ==
    /\ running /\ crashes < MaxCrashes
    /\ running' = FALSE /\ crashes' = crashes + 1
    /\ stdio' = [g \in FileIds |-> <<>>]
    /\ cache' = [k \in Keys |-> Uncached]
    /\ initialBuffer' = EmptyMap /\ initialBufferSize' = 0 /\ pivots' = <<>>
    /\ buffers' = [g \in Groups |-> EmptyMap] /\ bufferSizes' = [g \in Groups |-> 0]
    /\ totalDbSize' = 0
    /\ UNCHANGED <<disk, metaPivots, index, nops, boots, writeFails, kv, bootView, written, lastRange>>

\* Mutant: the FILE buffers are not written out when the process ends.
ShutdownNoExitFlush ==
    /\ running
    /\ \E failed \in SUBSET Groups :
          LET bs == IF BM!PivotsGenerated THEN buffers ELSE (INITIAL_GROUP_ID :> initialBuffer)
              a  == AfterAppend(bs, [g \in DOMAIN bs |-> FALSE])
          IN  /\ BM!PivotsGenerated \/ failed = {}
              /\ failed \subseteq Appended(bs) /\ Cardinality(failed) <= FailuresLeft
              /\ disk' = a.d
              /\ index' = IF BM!PivotsGenerated THEN IndexAfter(bs, failed) ELSE index
              /\ writeFails' = writeFails + Cardinality(failed)
    /\ running' = FALSE
    /\ stdio' = [g \in FileIds |-> <<>>]
    /\ cache' = [k \in Keys |-> Uncached]
    /\ initialBuffer' = EmptyMap /\ initialBufferSize' = 0 /\ pivots' = <<>>
    /\ buffers' = [g \in Groups |-> EmptyMap] /\ bufferSizes' = [g \in Groups |-> 0]
    /\ totalDbSize' = 0
    /\ UNCHANGED <<metaPivots, nops, boots, crashes, kv, bootView, written, lastRange>>

(* Clean shutdown: ~BufferManager appends a non-empty initialBuffer to the *)
(* INITIAL group, or flushAll()s the group buffers; exit then writes out   *)
(* every FILE buffer.                                                       *)
Shutdown ==
    /\ running
    /\ \E failed \in SUBSET Groups :
          LET bs == IF BM!PivotsGenerated THEN buffers ELSE (INITIAL_GROUP_ID :> initialBuffer)
              a  == AfterAppend(bs, [g \in DOMAIN bs |-> TRUE])
          IN  /\ BM!PivotsGenerated \/ failed = {}
              /\ failed \subseteq Appended(bs) /\ Cardinality(failed) <= FailuresLeft
              /\ disk' = [g \in FileIds |-> a.d[g] \o a.s[g]]
              /\ index' = IF BM!PivotsGenerated THEN IndexAfter(bs, failed) ELSE index
              /\ writeFails' = writeFails + Cardinality(failed)
    /\ running' = FALSE
    /\ stdio' = [g \in FileIds |-> <<>>]
    /\ cache' = [k \in Keys |-> Uncached]
    /\ initialBuffer' = EmptyMap /\ initialBufferSize' = 0 /\ pivots' = <<>>
    /\ buffers' = [g \in Groups |-> EmptyMap] /\ bufferSizes' = [g \in Groups |-> 0]
    /\ totalDbSize' = 0
    /\ UNCHANGED <<metaPivots, nops, boots, crashes, kv, bootView, written, lastRange>>

-----------------------------------------------------------------------------
(***************************************************************************)
(* Server::put: BufferManager::put, and when it reports a group over       *)
(* MAX_BUFFER_SIZE, flush of that group.  A put whose flush fails returns  *)
(* false, so a get may then return the new or the old value.  The          *)
(* wait-for-GC loop of flush is DFDBEngine's; DISK_SIZE is not reached.    *)
(***************************************************************************)
Put(k, v) ==
    /\ running /\ nops < MaxOps /\ nops' = nops + 1
    /\ IF ~BM!PivotsGenerated
       THEN /\ BM!PutInitial(k, v)
            /\ kv' = [kv EXCEPT ![k] = {v}]
            /\ UNCHANGED <<disk, stdio, index, cache, totalDbSize, writeFails>>
       ELSE LET g    == BM!GetBelongingGroup(k)
                size == BM!SizeAfterPut(buffers[g], bufferSizes[g], k, v)
            IN  /\ BM!PutPartitioned(k, v)
                /\ IF size > MAX_BUFFER_SIZE
                   THEN \E spill \in BOOLEAN, failed \in SUBSET {g} :
                           /\ FlushGroups((g :> ((k :> v) @@ buffers[g])), (g :> size),
                                          (g :> spill), failed)
                           /\ kv' = [kv EXCEPT ![k] = IF failed = {} THEN {v} ELSE @ \cup {v}]
                   ELSE /\ kv' = [kv EXCEPT ![k] = {v}]
                        /\ UNCHANGED <<disk, stdio, index, cache, totalDbSize, writeFails>>
    /\ written' = written \cup {k}
    /\ UNCHANGED <<running, boots, crashes, bootView, lastRange>>

\* Server::get: on a buffer miss, LevelDBKeyManager::get (which caches the
\* position it read from LevelDB) and the read, whose fseek writes out the
\* group's FILE buffer.
Get(k) ==
    LET pos == Lookup(k) IN
    /\ running /\ nops < MaxOps /\ nops' = nops + 1
    /\ IF k \notin DOMAIN KeyBuffer(k) /\ pos /= None
       THEN /\ disk' = [disk EXCEPT ![pos.grp] = @ \o stdio[pos.grp]]
            /\ stdio' = [stdio EXCEPT ![pos.grp] = <<>>]
            /\ cache' = [cache EXCEPT ![k] = pos]
       ELSE UNCHANGED <<disk, stdio, cache>>
    /\ UNCHANGED <<bufVars, metaPivots, index, totalDbSize, running, boots, crashes,
                   writeFails, kv, bootView, written, lastRange>>

\* Server::del: BufferManager::del, then LevelDBKeyManager::deleteKey drops
\* the cached position and the LevelDB entry.
Del(k) ==
    /\ running /\ nops < MaxOps /\ nops' = nops + 1
    /\ BM!Del(k)
    /\ cache' = [cache EXCEPT ![k] = Uncached]
    /\ index' = [index EXCEPT ![k] = None]
    /\ kv' = [kv EXCEPT ![k] = {None}]
    /\ written' = written \cup {k}
    /\ UNCHANGED <<disk, stdio, totalDbSize, running, boots, crashes, writeFails, bootView, lastRange>>

(***************************************************************************)
(* GcManager::gc(g): Server::getRange(lower, upper) flushAll()s every      *)
(* buffer, reads the indexed keys of g's bound from LevelDB and their      *)
(* values (Group::read's fseek writes out g's FILE buffer, when there is   *)
(* a key to read); ValueLog::groupRewrite stats g's file size, truncates   *)
(* it (fclose writes out the FILE buffer, fopen "w+" empties the file),    *)
(* fwrites the live records, subtracts the stat size and adds the new one; *)
(* batchPut re-points the index, and its LevelDB write may fail too.       *)
(***************************************************************************)
Gc(g) ==
    /\ running /\ BM!PivotsGenerated /\ nops < MaxOps /\ nops' = nops + 1
    /\ \E spill \in [Groups -> BOOLEAN], failed \in SUBSET Groups,
          spillRw \in BOOLEAN, rwFailed \in BOOLEAN :
          LET a     == AfterAppend(buffers, spill)
              idx1  == IndexAfter(buffers, failed)
              live  == {k \in Keys : idx1[k] /= None /\ InGroupBound(k, g)}
              ks    == SetToSortSeq(live, <)
              vals  == ReadValues([h \in FileIds |-> a.d[h] \o a.s[h]], idx1, ks)
              m     == [k \in live |-> vals[CHOOSE i \in DOMAIN ks : ks[i] = k]]
              stat  == IF live /= {} THEN a.d[g] \o a.s[g] ELSE a.d[g]
              lay   == Layout(m, g, 0)
              nfail == Cardinality(failed) + (IF rwFailed /\ live /= {} THEN 1 ELSE 0)
          IN  /\ failed \subseteq Appended(buffers)
              /\ nfail <= FailuresLeft
              /\ disk' = [a.d EXCEPT ![g] = IF spillRw THEN Records(m) ELSE <<>>]
              /\ stdio' = [a.s EXCEPT ![g] = IF spillRw THEN <<>> ELSE Records(m)]
              /\ index' = [k \in Keys |-> IF k \in live /\ ~rwFailed THEN lay[k] ELSE idx1[k]]
              /\ cache' = [k \in Keys |-> IF k \in live THEN lay[k] ELSE CacheAfter(buffers)[k]]
              /\ totalDbSize' = totalDbSize + FlushedBytes(buffers, bufferSizes)
                                  - FileBytes(stat) + FileBytes(Records(m))
              /\ writeFails' = writeFails + nfail
    /\ buffers' = [h \in Groups |-> EmptyMap] /\ bufferSizes' = [h \in Groups |-> 0]
    /\ UNCHANGED <<initialBuffer, initialBufferSize, pivots, metaPivots, running, boots,
                   crashes, kv, bootView, written, lastRange>>

(***************************************************************************)
(* Server::getRange(startingKey, numKeys).  Before pivots exist,           *)
(* BufferManager::initialGetRange copies initialBuffer into a sorted map   *)
(* and walks it from m.find(startingKey).  After, flushAll() appends      *)
(* every buffer, LevelDBKeyManager::getKeys seeks LevelDB to the first    *)
(* key >= startingKey (the index itself, not the LRU list) and takes      *)
(* numKeys keys, and assignValueInfo reads their values, whose fseek      *)
(* writes out the FILE buffers of the groups it reads.                    *)
(***************************************************************************)
\* The first n elements of seq.
Take(seq, n) == SubSeq(seq, 1, Min({Len(seq), n}))

\* The pairs of map m from the first key >= start on, in key order.
PairsFrom(m, start) ==
    LET ks == Take(SetToSortSeq({k \in DOMAIN m : start <= k}, <), RangeNum)
    IN  [i \in DOMAIN ks |-> <<ks[i], m[ks[i]]>>]

InitialGetRange(start) ==
    IF start \in DOMAIN initialBuffer THEN PairsFrom(initialBuffer, start) ELSE <<>>

GetKeys(idx, start) ==
    Take(SetToSortSeq({k \in Keys : idx[k] /= None /\ start <= k}, <), RangeNum)

\* What a client holds in the store, as a map from its present keys.
StoreNow == LET present == {k \in Keys : GetResult(k) /= None}
            IN  [k \in present |-> GetResult(k)]

GetRange(start) ==
    /\ running /\ nops < MaxOps /\ nops' = nops + 1
    /\ IF ~BM!PivotsGenerated
       THEN /\ lastRange' = [got |-> InitialGetRange(start), want |-> PairsFrom(StoreNow, start)]
            /\ UNCHANGED <<bufVars, disk, stdio, index, cache, totalDbSize, writeFails>>
       ELSE /\ buffers' = [g \in Groups |-> EmptyMap] /\ bufferSizes' = [g \in Groups |-> 0]
            /\ UNCHANGED <<initialBuffer, initialBufferSize, pivots>>
            /\ \E spill \in [Groups -> BOOLEAN], failed \in SUBSET Groups :
               LET a    == AfterAppend(buffers, spill)
                   idx1 == IndexAfter(buffers, failed)
                   ks   == GetKeys(idx1, start)
                   read == {idx1[ks[i]].grp : i \in DOMAIN ks}
               IN  /\ failed \subseteq Appended(buffers)
                   /\ Cardinality(failed) <= FailuresLeft
                   /\ disk' = [g \in FileIds |-> IF g \in read THEN a.d[g] \o a.s[g] ELSE a.d[g]]
                   /\ stdio' = [g \in FileIds |-> IF g \in read THEN <<>> ELSE a.s[g]]
                   /\ index' = idx1
                   /\ cache' = CacheAfter(buffers)
                   /\ totalDbSize' = totalDbSize + FlushedBytes(buffers, bufferSizes)
                   /\ writeFails' = writeFails + Cardinality(failed)
                   /\ LET vals == ReadValues([g \in FileIds |-> a.d[g] \o a.s[g]], idx1, ks)
                      IN  lastRange' = [got  |-> [i \in DOMAIN ks |-> <<ks[i], vals[i]>>],
                                        want |-> PairsFrom(StoreNow', start)]
    /\ UNCHANGED <<metaPivots, running, boots, crashes, kv, bootView, written>>

\* Every process has been started and has stopped.
Stopped ==
    /\ ~running /\ boots = MaxBoots
    /\ UNCHANGED vars

Init ==
    /\ initialBuffer = EmptyMap /\ initialBufferSize = 0
    /\ pivots = <<>> /\ metaPivots = <<>>
    /\ buffers = [g \in Groups |-> EmptyMap] /\ bufferSizes = [g \in Groups |-> 0]
    /\ disk = [g \in FileIds |-> <<>>] /\ stdio = [g \in FileIds |-> <<>>]
    /\ index = [k \in Keys |-> None] /\ cache = [k \in Keys |-> Uncached]
    /\ totalDbSize = 0 /\ running = FALSE
    /\ nops = 0 /\ boots = 0 /\ crashes = 0 /\ writeFails = 0
    /\ kv = [k \in Keys |-> {None}]
    /\ bootView = [k \in Keys |-> None] /\ written = {}
    /\ lastRange = [got |-> <<>>, want |-> <<>>]

Next ==
    \/ Boot \/ Shutdown \/ Crash
    \/ \E k \in Keys : \/ Get(k) \/ Del(k) \/ GetRange(k)
                       \/ \E v \in Values : Put(k, v)
    \/ \E g \in Groups : Gc(g)
    \/ Stopped

Spec == Init /\ [][Next]_vars

-----------------------------------------------------------------------------
(* Properties *)

Record == [key : Keys, val : Values \cup {Garbage}]

TypeOK ==
    /\ BM!TypeOK
    /\ disk \in [FileIds -> Seq(Record)] /\ stdio \in [FileIds -> Seq(Record)]
    /\ index \in [Keys -> Pos \cup {None}]
    /\ cache \in [Keys -> Pos \cup {Uncached}]
    /\ totalDbSize \in Nat
    /\ running \in BOOLEAN
    /\ kv \in [Keys -> SUBSET (Values \cup {None})]
    /\ written \subseteq Keys

\* Spec sections 4.1 (destruction flushes every buffered write), 4.6 and 8:
\* while a process runs, Server::get of every key returns its last
\* acknowledged put or delete, across any number of clean restarts (the
\* INITIAL-group drain, the persisted pivots), flushes and gc calls.
ReadsReturnAcked ==
    running => \A k \in Keys : GetResult(k) \in kv[k]

\* The store seen by a client: Server::get while a process runs, what a
\* restart would read while none does.
AbstractStore == [k \in Keys |-> IF running THEN GetResult(k) ELSE PersistedView(k)]

KV == INSTANCE KVStore WITH store <- AbstractStore, calls <- nops

\* Refinement: without faults, the engine across restarts implements the
\* key-value map of KVStore: only client calls change what the store holds,
\* put and del one key each; starting, stopping and flushing change nothing.
KVSpec == KV!Spec

\* A crash loses at most the writes of the process that crashes: for every
\* key no put or del of that process wrote, a restart after the crash reads
\* what a restart read before the process started, whatever the constructor,
\* its flushes and its gc calls did to the files in between.
CrashKeepsUntouchedKeys ==
    [][crashes' > crashes => \A k \in Keys \ written : PersistedView(k) = bootView[k]]_vars

\* Spec sections 4.7 and 8: Server::getRange(start, numKeys) returns the
\* first numKeys pairs of the store from the first key >= start, in key
\* order, without deleted keys.  After pivots exist it is served, after
\* flushAll, from LevelDB and the group files through the coalesced reads;
\* before, initialGetRange serves it from initialBuffer and needs the start
\* key itself to be present (MCStoreLifecycle_initrange.cfg).
RangeReturnsStore == lastRange.got = lastRange.want

\* A stopped store's index only points at records the OS holds (spec
\* glossary: a flush moves the writes to durable value-log storage and then
\* updates the index).
IndexPointsToPersistedRecords ==
    ~running => \A k \in Keys : index[k] /= None =>
        index[k].off <= Len(disk[index[k].grp]) /\ disk[index[k].grp][index[k].off].key = k

\* ValueLog's totalDbSize, the input of the disk-budget check, equals the
\* bytes written to the group files.
DbSizeMatchesFiles ==
    running => totalDbSize = MapThenSumSet(LAMBDA g : FileBytes(File(g)), Groups)
=============================================================================
