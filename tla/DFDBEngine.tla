----------------------------- MODULE DFDBEngine -----------------------------
(***************************************************************************)
(* The partitioned engine: concurrent client threads calling the Server    *)
(* façade (put, get, del, the count-bounded getRange) and GcManager::gc,   *)
(* over the Buffer Manager's group buffers, the per-group append-only      *)
(* value logs (Group, ValueLog), the LevelDB-backed index                  *)
(* (LevelDBKeyManager) and the three kinds of recursive mutex: the buffer  *)
(* lock, the index lock and one file lock per group (FileManager).         *)
(*                                                                         *)
(* A thread's step is what the code does between two lock acquisitions;    *)
(* a step needing a lock is enabled only while the lock is free or held    *)
(* by the same thread (the mutexes are recursive).  Pivots exist and are   *)
(* fixed, so a key's group is lower_bound(Pivots, key).  A position        *)
(* descriptor is the group and the 1-based index of the record in the      *)
(* group file; byte offsets and lengths are a function of it.              *)
(***************************************************************************)
EXTENDS Integers, Graphs

CONSTANTS
    Threads,
    Keys,            \* integers, in key order
    Values,
    ValueLen,        \* [Values -> Nat]
    Pivots,          \* the persisted pivot list, Seq(Keys), sorted
    KEY_LENGTH,
    MAX_BUFFER_SIZE,
    DISK_SIZE,
    MaxGcLoops,      \* the 10000 of BufferManager::flush's wait-for-GC loop
    Ops,             \* subset of {"put", "get", "del", "gc", "range"} the clients call
    MaxOps,          \* operations per thread
    RangeNum,        \* numKeys of getRange
    None, Garbage, Nobody, Auto

GROUP_NUM == Len(Pivots) + 1
Groups == 0 .. GROUP_NUM - 1
EmptyMap == [k \in {} |-> None]

VARIABLES
    buffers, bufferSizes,          \* BufferManager
    files,                         \* group -> Seq([key, val]): the group@g@ files
    buffered,                      \* group -> records at the end of files[g] still in its FILE buffer
    index,                         \* key -> position or None: LevelDB
    increments, totalDbSize,       \* ValueLog
    bufOwner, idxOwner, fileOwner, \* the recursive mutexes
    pc, op, nops,                  \* per thread: program counter, current call, calls made
    L1,                            \* Server::get: the layout read before locking
    pbuf, psize,                   \* Server::put: the group buffer swapped out for its flush
    fbuf, fsize, fpend,            \* flush(i): swapped buffer, its size, new layouts
    cur,                           \* loop cursor of flushAll and of the lock-all loop
    gcg, gcLoop,                   \* gc: its group; flush: wait-for-GC iterations
    res,                           \* the value a get returned
    halted,                        \* exit(0) was called
    kv, seen, delPre               \* history: logical store, <<key, value>> pairs a call may return

storeVars  == <<buffers, bufferSizes, files, buffered, index, increments, totalDbSize>>
lockVars   == <<bufOwner, idxOwner, fileOwner>>
localVars  == <<L1, pbuf, psize, fbuf, fsize, fpend, cur, gcg, gcLoop, res>>
histVars   == <<kv, seen, delPre>>
vars == <<storeVars, lockVars, pc, op, nops, localVars, halted, histVars>>

Pos == [grp : Groups, off : Nat \ {0}]

RecordSize(v) == 4 + KEY_LENGTH + ValueLen[v]
FileBytes(f) == MapThenSumSet(LAMBDA i : RecordSize(f[i].val), DOMAIN f)

\* BufferManager::getBelongingGroup
GetBelongingGroup(k) == Cardinality({i \in 1 .. Len(Pivots) : Pivots[i] < k})

SizeAfterPut(m, size, k, v) ==
    IF k \in DOMAIN m THEN size - ValueLen[m[k]] + ValueLen[v]
                      ELSE size + RecordSize(v)

EraseKey(m, k) == [x \in DOMAIN m \ {k} |-> m[x]]

\* ValueLog::assignValueInfo / Group::read: the value bytes at a position.
\* A position past the end of the file or on another key's record yields
\* bytes that are not this key's value.
ReadRecord(pos, k) ==
    IF pos.off <= Len(files[pos.grp]) /\ files[pos.grp][pos.off].key = k
    THEN files[pos.grp][pos.off].val
    ELSE Garbage

\* Records of map m in key order, and the position of each once laid out
\* after base records.  (The unordered_map iteration order is abstracted to
\* key order.)
Records(m) == LET ks == SetToSortSeq(DOMAIN m, <)
              IN  [i \in 1 .. Len(ks) |-> [key |-> ks[i], val |-> m[ks[i]]]]
\* Mutant: offsets counted from the record after the first appended one.
LayoutOffByOne(m, g, base) ==
    [k \in DOMAIN m |-> [grp |-> g, off |-> base + 1 + Cardinality({x \in DOMAIN m : x <= k})]]
Layout(m, g, base) ==
    [k \in DOMAIN m |-> [grp |-> g, off |-> base + Cardinality({x \in DOMAIN m : x <= k})]]

\* ValueLog::getGroupWithMaxIncr: the first group with the largest counter.
GroupWithMaxIncr ==
    CHOOSE g \in Groups : \A h \in Groups :
        /\ increments[h] <= increments[g]
        /\ h < g => increments[h] < increments[g]

Idle(p) == pc[p] = "Idle"
Free(owner, p) == owner \in {Nobody, p}
Finish(p) == /\ pc' = [pc EXCEPT ![p] = "Idle"]
             /\ nops' = [nops EXCEPT ![p] = @ + 1]
Goto(p, l) == /\ pc' = [pc EXCEPT ![p] = l]
              /\ UNCHANGED nops

DeletingKey(k) == \E q \in Threads : pc[q] = "DelIdx" /\ op[q].key = k
\* History: k takes value v; gets of k and ranges in flight may now return v.
GetInFlight == {"GetIdx", "GetLock", "GetRecheck"}
Watching(q, k) == \/ pc[q] \in GetInFlight /\ op[q].key = k
                  \/ ~Idle(q) /\ op[q].kind = "range"
AddSeen(k, v) ==
    seen' = [q \in Threads |-> IF Watching(q, k) THEN seen[q] \cup {<<k, v>>} ELSE seen[q]]
\* The pairs a call starting now over keys ks may return.
SeenAtStart(ks) ==
    {<<k, kv[k]>> : k \in ks} \cup {<<k, None>> : k \in {k \in ks : DeletingKey(k)}}
SetKV(k, v) == kv' = [kv EXCEPT ![k] = v] /\ AddSeen(k, v)

-----------------------------------------------------------------------------
(* Group::batchPut with ValueLog::groupBatchPut's counters: append map m   *)
(* to group g's file, remember the new layouts, add its size.  The fseek   *)
(* to the end writes out what the FILE buffer held; the fwrite leaves the  *)
(* new records in it (an append is taken to fit the FILE buffer).          *)
\* Mutant: the append is not added to the total size.
GroupBatchPutUncounted(p, g, m, size) ==
    /\ files' = [files EXCEPT ![g] = @ \o Records(m)]
    /\ buffered' = [buffered EXCEPT ![g] = Len(Records(m))]
    /\ fpend' = [fpend EXCEPT ![p] = Layout(m, g, Len(files[g]))]
    /\ increments' = [increments EXCEPT ![g] = @ + Cardinality(DOMAIN m)]
    /\ UNCHANGED totalDbSize

GroupBatchPut(p, g, m, size) ==
    /\ files' = [files EXCEPT ![g] = @ \o Records(m)]
    /\ buffered' = [buffered EXCEPT ![g] = Len(Records(m))]
    /\ fpend' = [fpend EXCEPT ![p] = Layout(m, g, Len(files[g]))]
    /\ increments' = [increments EXCEPT ![g] = @ + Cardinality(DOMAIN m)]
    /\ totalDbSize' = totalDbSize + size

\* LevelDBKeyManager::batchPut of the layouts the last append produced.
BatchPut(p) == index' = [k \in Keys |-> IF k \in DOMAIN fpend[p] THEN fpend[p][k] ELSE index[k]]

(***************************************************************************)
(* Server::put.  BufferManager::put upserts into the group buffer under    *)
(* the buffer lock; when the group exceeds MAX_BUFFER_SIZE, Server::put    *)
(* keeps the lock and calls flush(idx), which swaps the buffer out.        *)
(***************************************************************************)
PutStart(p, k, v) ==
    /\ Idle(p) /\ ~halted /\ "put" \in Ops /\ nops[p] < MaxOps
    /\ bufOwner = Nobody
    /\ op' = [op EXCEPT ![p] = [kind |-> "put", key |-> k, val |-> v]]
    /\ SetKV(k, v)
    /\ LET g    == GetBelongingGroup(k)
           nb   == (k :> v) @@ buffers[g]
           size == SizeAfterPut(buffers[g], bufferSizes[g], k, v)
       IN  \/ /\ size <= MAX_BUFFER_SIZE
              /\ buffers' = [buffers EXCEPT ![g] = nb]
              /\ bufferSizes' = [bufferSizes EXCEPT ![g] = size]
              /\ Finish(p)
              /\ UNCHANGED <<bufOwner, pbuf, psize, gcLoop>>
           \/ /\ size > MAX_BUFFER_SIZE
              /\ buffers' = [buffers EXCEPT ![g] = EmptyMap]
              /\ bufferSizes' = [bufferSizes EXCEPT ![g] = 0]
              /\ bufOwner' = p
              /\ pbuf' = [pbuf EXCEPT ![p] = nb]
              /\ psize' = [psize EXCEPT ![p] = size]
              /\ gcLoop' = [gcLoop EXCEPT ![p] = 0]
              /\ Goto(p, "FlushCheck")
    /\ UNCHANGED <<files, buffered, index, increments, totalDbSize, idxOwner, fileOwner,
                   L1, fbuf, fsize, fpend, cur, gcg, res, halted, delPre>>

\* Mutant: the wait-for-GC loop never counts its iterations.
FlushCheckNoCount(p) ==
    /\ pc[p] = "FlushCheck" /\ ~halted
    /\ \/ /\ totalDbSize >= DISK_SIZE
          /\ gcg' = [gcg EXCEPT ![p] = GroupWithMaxIncr]
          /\ Goto(p, "GcIdx")
          /\ UNCHANGED <<halted, gcLoop>>
       \/ /\ totalDbSize < DISK_SIZE
          /\ Goto(p, "PutAppend")
          /\ UNCHANGED <<halted, gcLoop, gcg>>
    /\ UNCHANGED <<storeVars, lockVars, op, L1, pbuf, psize, fbuf, fsize, fpend, cur,
                   res, histVars>>

\* flush's wait-for-GC loop: while the store is at the disk budget, run
\* gc(INVALID_GROUP_ID); on the 10000th iteration, exit(0).
FlushCheck(p) ==
    /\ pc[p] = "FlushCheck" /\ ~halted
    /\ \/ /\ totalDbSize >= DISK_SIZE
          /\ gcLoop[p] + 1 = MaxGcLoops
          /\ halted' = TRUE
          /\ UNCHANGED <<pc, nops, gcLoop, gcg>>
       \/ /\ totalDbSize >= DISK_SIZE
          /\ gcLoop[p] + 1 < MaxGcLoops
          /\ gcLoop' = [gcLoop EXCEPT ![p] = @ + 1]
          /\ gcg' = [gcg EXCEPT ![p] = GroupWithMaxIncr]
          /\ Goto(p, "GcIdx")
          /\ UNCHANGED halted
       \/ /\ totalDbSize < DISK_SIZE
          /\ Goto(p, "PutAppend")
          /\ UNCHANGED <<halted, gcLoop, gcg>>
    /\ UNCHANGED <<storeVars, lockVars, op, L1, pbuf, psize, fbuf, fsize, fpend, cur,
                   res, histVars>>

PutAppend(p) ==
    LET g == GetBelongingGroup(op[p].key) IN
    /\ pc[p] = "PutAppend" /\ ~halted
    /\ Free(fileOwner[g], p)
    /\ GroupBatchPut(p, g, pbuf[p], psize[p])
    /\ Goto(p, "PutIndex")
    /\ UNCHANGED <<buffers, bufferSizes, index, lockVars, op, L1, pbuf, psize, fbuf, fsize,
                   cur, gcg, gcLoop, res, halted, histVars>>

\* The index update, then Server::put unlocks the buffer.
PutIndex(p) ==
    /\ pc[p] = "PutIndex" /\ ~halted
    /\ Free(idxOwner, p)
    /\ BatchPut(p)
    /\ bufOwner' = Nobody
    /\ Finish(p)
    /\ UNCHANGED <<buffers, bufferSizes, files, buffered, increments, totalDbSize, idxOwner, fileOwner,
                   op, localVars, halted, histVars>>


(***************************************************************************)
(* Server::get: the buffer first, then the index; lock the group file,     *)
(* read the index again and retry unless the layout is unchanged; read     *)
(* the record while holding the file lock.                                 *)
(***************************************************************************)
GetBuf(p, k) ==
    LET g == GetBelongingGroup(k) IN
    /\ Idle(p) /\ ~halted /\ "get" \in Ops /\ nops[p] < MaxOps
    /\ bufOwner = Nobody
    /\ op' = [op EXCEPT ![p] = [kind |-> "get", key |-> k, val |-> None]]
    /\ seen' = [seen EXCEPT ![p] = SeenAtStart({k})]
    /\ \/ /\ k \in DOMAIN buffers[g]
          /\ res' = [res EXCEPT ![p] = buffers[g][k]]
          /\ Finish(p)
       \/ /\ k \notin DOMAIN buffers[g]
          /\ Goto(p, "GetIdx")
          /\ UNCHANGED res
    /\ UNCHANGED <<storeVars, lockVars, L1, pbuf, psize, fbuf, fsize, fpend, cur, gcg, gcLoop,
                   halted, kv, delPre>>

\* Mutant: the first index lookup keeps the index lock across the file lock.
GetIdxHoldingIndex(p) ==
    /\ pc[p] = "GetIdx" /\ ~halted
    /\ Free(idxOwner, p)
    /\ \/ /\ index[op[p].key] = None
          /\ res' = [res EXCEPT ![p] = None]
          /\ Finish(p)
          /\ UNCHANGED <<L1, idxOwner>>
       \/ /\ index[op[p].key] /= None
          /\ L1' = [L1 EXCEPT ![p] = index[op[p].key]]
          /\ idxOwner' = p
          /\ Goto(p, "GetLock")
          /\ UNCHANGED res
    /\ UNCHANGED <<storeVars, bufOwner, fileOwner, op, pbuf, psize, fbuf, fsize, fpend, cur,
                   gcg, gcLoop, halted, histVars>>

GetIdx(p) ==
    /\ pc[p] = "GetIdx" /\ ~halted
    /\ Free(idxOwner, p)
    /\ \/ /\ index[op[p].key] = None
          /\ res' = [res EXCEPT ![p] = None]
          /\ Finish(p)
          /\ UNCHANGED L1
       \/ /\ index[op[p].key] /= None
          /\ L1' = [L1 EXCEPT ![p] = index[op[p].key]]
          /\ Goto(p, "GetLock")
          /\ UNCHANGED res
    /\ UNCHANGED <<storeVars, lockVars, op, pbuf, psize, fbuf, fsize, fpend, cur, gcg, gcLoop,
                   halted, histVars>>

GetLock(p) ==
    /\ pc[p] = "GetLock" /\ ~halted
    /\ Free(fileOwner[L1[p].grp], p)
    /\ fileOwner' = [fileOwner EXCEPT ![L1[p].grp] = p]
    /\ Goto(p, "GetRecheck")
    /\ UNCHANGED <<storeVars, bufOwner, idxOwner, op, localVars, halted, histVars>>

\* The second lookup runs under the file lock; LevelDBKeyManager::get takes
\* and drops the index lock within the step.  A key deleted meanwhile
\* yields a default ValueLayout whose position fields are never written, so
\* layoutCompare reads uninitialised memory: either outcome is possible.
GetRecheck(p) ==
    LET k    == op[p].key
        same == index[k] = L1[p]
    IN
    /\ pc[p] = "GetRecheck" /\ ~halted
    /\ Free(idxOwner, p)
    /\ idxOwner' = IF idxOwner = p THEN Nobody ELSE idxOwner
    /\ fileOwner' = [fileOwner EXCEPT ![L1[p].grp] = Nobody]
    /\ \/ /\ same \/ index[k] = None
          /\ res' = [res EXCEPT ![p] = ReadRecord(L1[p], k)]
          /\ buffered' = [buffered EXCEPT ![L1[p].grp] = 0]
          /\ Finish(p)
       \/ /\ ~same
          /\ Goto(p, "GetIdx")
          /\ UNCHANGED <<res, buffered>>
    /\ UNCHANGED <<buffers, bufferSizes, files, index, increments, totalDbSize, bufOwner, op, L1, pbuf, psize, fbuf, fsize, fpend,
                   cur, gcg, gcLoop, halted, histVars>>

(***************************************************************************)
(* Server::del: BufferManager::del under the buffer lock, then             *)
(* LevelDBKeyManager::deleteKey under the index lock.                      *)
(***************************************************************************)
\* Mutant: the record size is subtracted whether or not the key is buffered.
DelBufUnchecked(p, k) ==
    LET g == GetBelongingGroup(k) IN
    /\ Idle(p) /\ ~halted /\ "del" \in Ops /\ nops[p] < MaxOps
    /\ bufOwner = Nobody
    /\ op' = [op EXCEPT ![p] = [kind |-> "del", key |-> k, val |-> None]]
    /\ buffers' = [buffers EXCEPT ![g] = EraseKey(@, k)]
    /\ bufferSizes' = [bufferSizes EXCEPT ![g] = @ - RecordSize(CHOOSE v \in Values : TRUE)]
    /\ delPre' = [delPre EXCEPT ![p] = kv[k]]
    /\ AddSeen(k, None)
    /\ Goto(p, "DelIdx")
    /\ UNCHANGED <<files, buffered, index, increments, totalDbSize, lockVars, localVars, halted, kv>>

DelBuf(p, k) ==
    LET g == GetBelongingGroup(k) IN
    /\ Idle(p) /\ ~halted /\ "del" \in Ops /\ nops[p] < MaxOps
    /\ bufOwner = Nobody
    /\ op' = [op EXCEPT ![p] = [kind |-> "del", key |-> k, val |-> None]]
    /\ buffers' = [buffers EXCEPT ![g] = EraseKey(@, k)]
    /\ bufferSizes' = [bufferSizes EXCEPT ![g] =
                          IF k \in DOMAIN buffers[g] THEN @ - RecordSize(buffers[g][k]) ELSE @]
    /\ delPre' = [delPre EXCEPT ![p] = kv[k]]
    /\ AddSeen(k, None)
    /\ Goto(p, "DelIdx")
    /\ UNCHANGED <<files, buffered, index, increments, totalDbSize, lockVars, localVars, halted, kv>>

\* A value of k written after a delete's buffer step and not yet indexed:
\* still buffered, or swapped out by a flush that holds the buffer lock.
PendingWrite(k) ==
    \/ k \in DOMAIN buffers[GetBelongingGroup(k)]
    \/ \E q \in Threads :
           \/ op[q].kind = "put" /\ ~Idle(q) /\ k \in DOMAIN pbuf[q]
           \/ pc[q] \in {"FAAppend", "FAIndex"} /\ k \in DOMAIN fbuf[q]

\* History: the delete takes effect here, after any put of the key that was
\* indexed meanwhile and before one still pending, an order both overlaps allow.
DelIdx(p) ==
    LET k == op[p].key IN
    /\ pc[p] = "DelIdx" /\ ~halted
    /\ Free(idxOwner, p)
    /\ index' = [index EXCEPT ![k] = None]
    /\ Finish(p)
    /\ IF PendingWrite(k)
       THEN UNCHANGED <<kv, seen>>
       ELSE SetKV(k, None)
    /\ UNCHANGED <<buffers, bufferSizes, files, buffered, increments, totalDbSize, lockVars, op,
                   localVars, halted, delPre>>

(***************************************************************************)
(* GcManager::gc(groupId): buffer lock, index lock, the group's file lock, *)
(* then Server::getRange(lower, upper) (flushAll, lock every file, scan),  *)
(* the rewrite and the index update.  A put thread enters at GcIdx from    *)
(* its wait-for-GC loop, already holding the buffer lock.                  *)
(***************************************************************************)
GcStart(p, target) ==
    /\ Idle(p) /\ ~halted /\ "gc" \in Ops /\ nops[p] < MaxOps
    /\ bufOwner = Nobody
    /\ bufOwner' = p
    /\ op' = [op EXCEPT ![p] = [kind |-> "gc", key |-> None, val |-> None]]
    /\ gcg' = [gcg EXCEPT ![p] = IF target = Auto THEN GroupWithMaxIncr ELSE target]
    /\ Goto(p, "GcIdx")
    /\ UNCHANGED <<storeVars, idxOwner, fileOwner, L1, pbuf, psize, fbuf, fsize, fpend, cur,
                   gcLoop, res, halted, histVars>>

GcIdx(p) ==
    /\ pc[p] = "GcIdx" /\ ~halted
    /\ Free(idxOwner, p)
    /\ idxOwner' = p
    /\ Goto(p, "GcFile")
    /\ UNCHANGED <<storeVars, bufOwner, fileOwner, op, localVars, halted, histVars>>

GcFile(p) ==
    /\ pc[p] = "GcFile" /\ ~halted
    /\ Free(fileOwner[gcg[p]], p)
    /\ fileOwner' = [fileOwner EXCEPT ![gcg[p]] = p]
    /\ cur' = [cur EXCEPT ![p] = 0]
    /\ Goto(p, "FASwap")
    /\ UNCHANGED <<storeVars, bufOwner, idxOwner, op, L1, pbuf, psize, fbuf, fsize, fpend,
                   gcg, gcLoop, res, halted, histVars>>

(***************************************************************************)
(* BufferManager::flushAll, run by getRange with the buffer lock held:     *)
(* flush(i, false) for every group i, i.e. swap the buffer out, append it  *)
(* under file lock i and update the index, without the disk-budget check.  *)
(* At the end a client getRange's unlock releases the buffer.              *)
(***************************************************************************)
FASwap(p) ==
    LET i == cur[p] IN
    /\ pc[p] = "FASwap" /\ ~halted
    /\ \/ /\ i < GROUP_NUM
          /\ buffers' = [buffers EXCEPT ![i] = EmptyMap]
          /\ bufferSizes' = [bufferSizes EXCEPT ![i] = 0]
          /\ fbuf' = [fbuf EXCEPT ![p] = buffers[i]]
          /\ fsize' = [fsize EXCEPT ![p] = bufferSizes[i]]
          /\ IF buffers[i] = EmptyMap
             THEN /\ cur' = [cur EXCEPT ![p] = i + 1] /\ Goto(p, "FASwap")
             ELSE /\ Goto(p, "FAAppend") /\ UNCHANGED cur
          /\ UNCHANGED bufOwner
       \/ /\ i = GROUP_NUM
          /\ cur' = [cur EXCEPT ![p] = 0]
          /\ bufOwner' = IF op[p].kind = "range" THEN Nobody ELSE bufOwner
          /\ Goto(p, "LockAll")
          /\ UNCHANGED <<buffers, bufferSizes, fbuf, fsize>>
    /\ UNCHANGED <<files, buffered, index, increments, totalDbSize, idxOwner, fileOwner, op, L1, pbuf,
                   psize, fpend, gcg, gcLoop, res, halted, histVars>>

FAAppend(p) ==
    /\ pc[p] = "FAAppend" /\ ~halted
    /\ Free(fileOwner[cur[p]], p)
    /\ GroupBatchPut(p, cur[p], fbuf[p], fsize[p])
    /\ Goto(p, "FAIndex")
    /\ UNCHANGED <<buffers, bufferSizes, index, lockVars, op, L1, pbuf, psize, fbuf, fsize,
                   cur, gcg, gcLoop, res, halted, histVars>>

FAIndex(p) ==
    /\ pc[p] = "FAIndex" /\ ~halted
    /\ Free(idxOwner, p)
    /\ BatchPut(p)
    /\ cur' = [cur EXCEPT ![p] = @ + 1]
    /\ Goto(p, "FASwap")
    /\ UNCHANGED <<buffers, bufferSizes, files, buffered, increments, totalDbSize, lockVars, op, L1,
                   pbuf, psize, fbuf, fsize, fpend, gcg, gcLoop, res, halted, histVars>>

\* getRange locks every group file in increasing id order.
LockAll(p) ==
    LET i == cur[p] IN
    /\ pc[p] = "LockAll" /\ ~halted
    /\ i < GROUP_NUM
    /\ Free(fileOwner[i], p)
    /\ fileOwner' = [fileOwner EXCEPT ![i] = p]
    /\ cur' = [cur EXCEPT ![p] = i + 1]
    /\ Goto(p, IF i + 1 = GROUP_NUM THEN "Scan" ELSE "LockAll")
    /\ UNCHANGED <<storeVars, bufOwner, idxOwner, op, L1, pbuf, psize, fbuf, fsize, fpend,
                   gcg, gcLoop, res, halted, histVars>>

\* BufferManager::getGroupBound and the two-sided LevelDBKeyManager::getKeys:
\* the indexed keys of group g's range (pivot[g-1], pivot[g]], open below
\* for group 0 and above for the last group.
InGroupBound(k, g) ==
    /\ g = 0 \/ Pivots[g] < k
    /\ g = GROUP_NUM - 1 \/ k <= Pivots[g + 1]
GroupKeys(g) == {k \in Keys : index[k] /= None /\ InGroupBound(k, g)}

\* ValueLog::groupRewrite with Group::rewrite: stat g's file, truncate it,
\* write the records of m (the live keys gc read) from offset 0, subtract
\* the stat size, add the new one and zero the group's write counter.  The
\* stat (FileManager::getFileSize) sees what the FILE buffer has written
\* out: all of it when gc read a record of g (Group::read's fseek writes the
\* buffer out), else all but the last append.  resetFile's fclose writes
\* out and truncates; the rewritten records stay in the new FILE buffer.
GroupRewrite(g, m) ==
    LET stat == IF DOMAIN m /= {} THEN files[g]
                ELSE SubSeq(files[g], 1, Len(files[g]) - buffered[g])
    IN  /\ files' = [files EXCEPT ![g] = Records(m)]
        /\ totalDbSize' = totalDbSize - FileBytes(stat) + FileBytes(Records(m))
        /\ increments' = [increments EXCEPT ![g] = 0]
        /\ buffered' = [buffered EXCEPT ![g] = Len(Records(m))]

\* Mutant: the index is not re-pointed at the rewritten records.
GcScanNoIndex(p) ==
    LET g == gcg[p] IN
    /\ pc[p] = "Scan" /\ op[p].kind /= "range" /\ ~halted
    /\ GroupRewrite(g, [k \in GroupKeys(g) |-> ReadRecord(index[k], k)])
    /\ fileOwner' = [i \in Groups |-> IF fileOwner[i] = p THEN Nobody ELSE fileOwner[i]]
    /\ idxOwner' = Nobody
    /\ IF op[p].kind = "put"
       THEN /\ Goto(p, "FlushCheck") /\ UNCHANGED bufOwner
       ELSE /\ Finish(p) /\ bufOwner' = Nobody
    /\ UNCHANGED <<buffers, bufferSizes, index, op, localVars, halted, histVars>>

(* The rest of gc, with every lock it needs already held: getRange over    *)
(* the group's bound (getKeys, the reads, its unlocks), groupRewrite, the  *)
(* index batchPut and the release of the file, index and (unless nested in *)
(* a put's flush) buffer locks.                                            *)
GcScan(p) ==
    LET g      == gcg[p]
        live   == GroupKeys(g)
        m      == [k \in live |-> ReadRecord(index[k], k)]
        lay    == Layout(m, g, 0)
        nested == op[p].kind = "put"
    IN
    /\ pc[p] = "Scan" /\ op[p].kind /= "range" /\ ~halted
    /\ GroupRewrite(g, m)
    /\ index' = [k \in Keys |-> IF k \in live THEN lay[k] ELSE index[k]]
    /\ fileOwner' = [i \in Groups |-> IF fileOwner[i] = p THEN Nobody ELSE fileOwner[i]]
    /\ idxOwner' = Nobody
    /\ IF nested
       THEN /\ Goto(p, "FlushCheck") /\ UNCHANGED bufOwner
       ELSE /\ Finish(p) /\ bufOwner' = Nobody
    /\ UNCHANGED <<buffers, bufferSizes, op, localVars, halted, histVars>>

(***************************************************************************)
(* Server::getRange(startingKey, numKeys) after pivots exist: flushAll,    *)
(* lock every file, LevelDBKeyManager::getKeys, unlock the groups not      *)
(* involved, read the values, unlock the rest.                             *)
(***************************************************************************)
\* Mutant: getRange skips its flushAll and reads only what is indexed.
RangeStartNoFlush(p, k) ==
    /\ Idle(p) /\ ~halted /\ "range" \in Ops /\ nops[p] < MaxOps
    /\ op' = [op EXCEPT ![p] = [kind |-> "range", key |-> k, val |-> None]]
    /\ cur' = [cur EXCEPT ![p] = 0]
    /\ seen' = [seen EXCEPT ![p] = SeenAtStart(Keys)]
    /\ Goto(p, "LockAll")
    /\ UNCHANGED <<storeVars, lockVars, L1, pbuf, psize, fbuf, fsize, fpend,
                   gcg, gcLoop, res, halted, kv, delPre>>

RangeStart(p, k) ==
    /\ Idle(p) /\ ~halted /\ "range" \in Ops /\ nops[p] < MaxOps
    /\ bufOwner = Nobody
    /\ bufOwner' = p
    /\ op' = [op EXCEPT ![p] = [kind |-> "range", key |-> k, val |-> None]]
    /\ cur' = [cur EXCEPT ![p] = 0]
    /\ seen' = [seen EXCEPT ![p] = SeenAtStart(Keys)]
    /\ Goto(p, "FASwap")
    /\ UNCHANGED <<storeVars, idxOwner, fileOwner, L1, pbuf, psize, fbuf, fsize, fpend,
                   gcg, gcLoop, res, halted, kv, delPre>>

\* Mutant: the count loop of getKeys stops one key late.
RangeKeysOneMore(start) ==
    LET after == {k \in Keys : k >= start /\ index[k] /= None}
    IN  {k \in after : Cardinality({x \in after : x < k}) <= RangeNum}

\* The first RangeNum indexed keys at or after the start key.
RangeKeys(start) ==
    LET after == {k \in Keys : k >= start /\ index[k] /= None}
    IN  {k \in after : Cardinality({x \in after : x < k}) < RangeNum}

RangeScan(p) ==
    /\ pc[p] = "Scan" /\ op[p].kind = "range" /\ ~halted
    /\ Free(idxOwner, p)
    /\ res' = [res EXCEPT ![p] = [k \in RangeKeys(op[p].key) |-> ReadRecord(index[k], k)]]
    /\ buffered' = [g \in Groups |-> IF \E k \in RangeKeys(op[p].key) : index[k].grp = g
                                     THEN 0 ELSE buffered[g]]
    /\ fileOwner' = [i \in Groups |-> IF fileOwner[i] = p THEN Nobody ELSE fileOwner[i]]
    /\ Finish(p)
    /\ UNCHANGED <<buffers, bufferSizes, files, index, increments, totalDbSize, bufOwner,
                   idxOwner, op, L1, pbuf, psize, fbuf, fsize, fpend, cur, gcg, gcLoop, halted,
                   histVars>>

-----------------------------------------------------------------------------

\* A process that has opened every group file and run gcAll: every live
\* key has one record in its group file, the index points at it, the
\* rewritten records are still in the FILE buffer, the buffers are
\* empty and the write-since-GC counters are zero.
InitStore(kv0) ==
    LET live(g) == [k \in {k \in Keys : kv0[k] /= None /\ GetBelongingGroup(k) = g} |-> kv0[k]]
    IN  /\ files = [g \in Groups |-> Records(live(g))]
        /\ index = [k \in Keys |-> IF kv0[k] = None THEN None
                                   ELSE Layout(live(GetBelongingGroup(k)),
                                               GetBelongingGroup(k), 0)[k]]
        /\ totalDbSize = MapThenSumSet(LAMBDA g : FileBytes(Records(live(g))), Groups)
        /\ buffered = [g \in Groups |-> Len(files[g])]

Init ==
    /\ kv \in [Keys -> Values \cup {None}]
    /\ InitStore(kv)
    /\ buffers = [g \in Groups |-> EmptyMap]
    /\ bufferSizes = [g \in Groups |-> 0]
    /\ increments = [g \in Groups |-> 0]
    /\ bufOwner = Nobody /\ idxOwner = Nobody
    /\ fileOwner = [g \in Groups |-> Nobody]
    /\ pc = [p \in Threads |-> "Idle"]
    /\ op = [p \in Threads |-> [kind |-> "none", key |-> None, val |-> None]]
    /\ nops = [p \in Threads |-> 0]
    /\ L1 = [p \in Threads |-> None]
    /\ pbuf = [p \in Threads |-> EmptyMap] /\ psize = [p \in Threads |-> 0]
    /\ fbuf = [p \in Threads |-> EmptyMap] /\ fsize = [p \in Threads |-> 0]
    /\ fpend = [p \in Threads |-> EmptyMap]
    /\ cur = [p \in Threads |-> 0]
    /\ gcg = [p \in Threads |-> 0] /\ gcLoop = [p \in Threads |-> 0]
    /\ res = [p \in Threads |-> None]
    /\ halted = FALSE
    /\ seen = [p \in Threads |-> {}]
    /\ delPre = [p \in Threads |-> None]

Step(p) ==
    \/ FlushCheck(p) \/ PutAppend(p) \/ PutIndex(p)
    \/ GetIdx(p) \/ GetLock(p) \/ GetRecheck(p)
    \/ DelIdx(p)
    \/ GcIdx(p) \/ GcFile(p) \/ GcScan(p)
    \/ FASwap(p) \/ FAAppend(p) \/ FAIndex(p) \/ LockAll(p)
    \/ RangeScan(p)

Call(p) ==
    \/ \E k \in Keys, v \in Values : PutStart(p, k, v)
    \/ \E k \in Keys : GetBuf(p, k) \/ DelBuf(p, k) \/ RangeStart(p, k)
    \/ \E t \in Groups \cup {Auto} : GcStart(p, t)

\* Every client has made its calls, or the process has exited.
Stopped ==
    /\ halted \/ \A p \in Threads : Idle(p) /\ nops[p] = MaxOps
    /\ UNCHANGED vars

Next == \/ \E p \in Threads : Call(p) \/ Step(p)
        \/ Stopped

\* Each thread keeps executing a call it has started; starting calls is up
\* to the clients and carries no fairness.
Fairness == \A p \in Threads : WF_vars(Step(p))

Spec == Init /\ [][Next]_vars /\ Fairness



-----------------------------------------------------------------------------
(* Properties *)

TypeOK ==
    /\ \A g \in Groups : buffers[g] \in [DOMAIN buffers[g] -> Values]
    /\ bufferSizes \in [Groups -> Nat]
    /\ \A g \in Groups : files[g] \in Seq([key : Keys, val : Values])
    /\ \A g \in Groups : buffered[g] \in 0 .. Len(files[g])
    /\ index \in [Keys -> Pos \cup {None}]
    /\ increments \in [Groups -> Nat]
    /\ totalDbSize \in Int
    /\ bufOwner \in Threads \cup {Nobody} /\ idxOwner \in Threads \cup {Nobody}
    /\ fileOwner \in [Groups -> Threads \cup {Nobody}]
    /\ nops \in [Threads -> 0 .. MaxOps]
    /\ cur \in [Threads -> 0 .. GROUP_NUM]

\* What a get issued now would return, read straight off the state: the
\* buffered value, else the record the index points at.
Visible(k) ==
    LET g == GetBelongingGroup(k) IN
    IF k \in DOMAIN buffers[g] THEN buffers[g][k]
    ELSE IF index[k] = None THEN None
    ELSE ReadRecord(index[k], k)

\* Whenever the buffer lock is free (no flush, gc or flushAll in progress)
\* every key not being deleted reads back as the last value written to it:
\* flushes, flushAll from range scans and garbage collections (client or
\* forced by the disk budget) move values between buffer, log and index
\* without losing, resurrecting or corrupting any.
StoreMatchesHistory ==
    bufOwner = Nobody =>
        \A k \in Keys : ~DeletingKey(k) => Visible(k) = kv[k]

\* A get returns a value the key held at some moment between the call and
\* the return (never garbage, never a value overwritten before the call).
ReadReturnsCurrent ==
    \A p \in Threads : Idle(p) /\ op[p].kind = "get" => <<op[p].key, res[p]>> \in seen[p]

\* A getRange returns, for each key it returns, a value the key held at
\* some moment between the call and the return: its flushAll writes the
\* buffers out and indexes them before the scan reads the index, so a key
\* overwritten in a buffer never comes back with its older logged value.
RangeReturnsCurrent ==
    \A p \in Threads : Idle(p) /\ op[p].kind = "range" =>
        \A k \in DOMAIN res[p] : <<k, res[p][k]>> \in seen[p]

\* The running total on-disk size equals the bytes in the group files.
\* groupRewrite's stat misses records still in the FILE buffer, so the
\* code does not keep this (MCDFDBEngine_sizedrift.cfg).
DbSizeMatchesFiles ==
    totalDbSize = MapThenSumSet(LAMBDA g : FileBytes(files[g]), Groups)

\* The running total on-disk size is never below the bytes in the group
\* files, so flush's disk-budget check never lets the files grow past
\* DISK_SIZE unnoticed.  groupRewrite subtracts a stat that may miss the
\* last append of the group (still in the FILE buffer) and groupBatchPut
\* adds exactly what it appends: the total may drift up, never down.
DbSizeCoversFiles ==
    totalDbSize >= MapThenSumSet(LAMBDA g : FileBytes(files[g]), Groups)

\* The lock each thread's next step is blocked on, if any.
Needs(p) ==
    CASE pc[p] \in {"PutAppend"}              -> <<"file", GetBelongingGroup(op[p].key)>>
      [] pc[p] \in {"GcFile"}                 -> <<"file", gcg[p]>>
      [] pc[p] \in {"FAAppend", "LockAll"}    -> <<"file", cur[p]>>
      [] pc[p] = "GetLock"                    -> <<"file", L1[p].grp>>
      [] pc[p] \in {"PutIndex", "GcIdx", "FAIndex", "GetIdx", "GetRecheck", "DelIdx"}
                                              -> <<"idx">>
      [] pc[p] = "Scan" /\ op[p].kind = "range" -> <<"idx">>
      [] OTHER                                -> <<"none">>

Owner(l) == CASE l[1] = "file" -> fileOwner[l[2]]
              [] l[1] = "idx"  -> idxOwner
              [] OTHER         -> Nobody

WaitsFor == {<<p, q>> \in Threads \X Threads : p /= q /\ Owner(Needs(p)) = q}

\* No set of threads waits in a cycle on locks the others hold: the lock
\* orders of put (buffer, file, index), get (file, index), del, gc (buffer,
\* index, files) and getRange (buffer, files, index) are compatible.
NoLockCycle == ~HasCycle([node |-> Threads, edge |-> WaitsFor])

\* Every call a thread has started returns, unless the process exits.
OperationsComplete == \A p \in Threads : ~Idle(p) ~> (Idle(p) \/ halted)


\* The bytes of the records the index points at: what the group files would
\* hold once every group had been compacted.
LiveBytes ==
    MapThenSumSet(LAMBDA k : RecordSize(files[index[k].grp][index[k].off].val),
                  {k \in Keys : index[k] /= None})

\* Spec sections 5 and 7(e): the process exits from flush's wait-for-GC loop
\* only when compaction cannot bring the store under DISK_SIZE, i.e. when the
\* live records alone reach it.  The loop's gc(INVALID_GROUP_ID) compacts
\* the group getGroupWithMaxIncr names; once every write-since-GC counter is
\* zero (after a restart, or after the first forced GC) that is group 0 on
\* every iteration, whatever dead bytes the other groups hold.
ExitOnlyWhenDiskFull == halted => LiveBytes >= DISK_SIZE

\* Spec sections 4.1 and 5: no flush appends to a value log while the total
\* on-disk size is at or above DISK_SIZE; it must force GC (or stop) first.
\* BufferManager::flush runs its wait-for-GC loop only when needLock is set,
\* so the flush(i, false) calls of flushAll (range scans, gc) skip it.
AppendsWithinBudget ==
    [][totalDbSize' > totalDbSize => totalDbSize < DISK_SIZE]_vars

=============================================================================
