-------------------------- MODULE BufferPartition --------------------------
(***************************************************************************)
(* The Buffer Manager's in-memory state (src/src/buffer_manager.cpp):      *)
(* the unpartitioned initialBuffer, the one-time pivot generation that     *)
(* splits it into GROUP_NUM per-group buffers, and the per-group buffers   *)
(* with their incrementally maintained byte-size counters.                 *)
(*                                                                         *)
(* Keys are integers so that their order is the order of the padded key    *)
(* strings; values are model values whose length is ValueLen[v].  The      *)
(* durable half of a flush (value log append, index update) is modelled in *)
(* DFDBEngine; here a flush is the buffer swap that BufferManager::flush   *)
(* performs under its lock.                                                *)
(***************************************************************************)
EXTENDS Integers, SequencesExt

CONSTANTS
    Keys,                      \* finite set of integers: the padded keys, in key order
    Values,                    \* model values
    ValueLen,                  \* [Values -> Nat]: value.length()
    GROUP_NUM,
    MAX_INITIAL_BUFFER_AMOUNT, \* initialBuffer.size() above this triggers pivot generation
    MAX_BUFFER_SIZE,           \* bufferSizes[idx] above this triggers a flush
    KEY_LENGTH

ASSUME GROUP_NUM >= 2

VARIABLES
    initialBuffer,      \* key -> value, before pivots exist
    initialBufferSize,
    pivots,             \* Seq(Keys); <<>> until generated
    metaPivots,         \* the pivot list persisted under PIVOTS_KEY
    buffers,            \* group -> (key -> value)
    bufferSizes         \* group -> bytes

vars == <<initialBuffer, initialBufferSize, pivots, metaPivots, buffers, bufferSizes>>

Groups == 0 .. GROUP_NUM - 1
EmptyMap == [k \in {} |-> 0]

\* sizeof(uint32_t) + KEY_LENGTH + value.length()
RecordSize(v) == 4 + KEY_LENGTH + ValueLen[v]

MapSize(m) == MapThenSumSet(LAMBDA k : RecordSize(m[k]), DOMAIN m)

PivotsGenerated == pivots /= <<>>

\* lower_bound(pivots, key) - pivots.begin()
GetBelongingGroup(k) == Cardinality({i \in 1 .. Len(pivots) : pivots[i] < k})

\* Mutant: the selection starts at position 0 instead of n % (GROUP_NUM - 1).
PivotPositionsFromZero(n) ==
    LET gap == n \div (GROUP_NUM - 1)
    IN  {i \in 0 .. n - 1 : i % gap = 0}

\* The 0-based positions the loop `for (i = firstIndex; i < n; i += gap)` visits.
\* With n < GROUP_NUM - 1, firstIndex = n and gap = 0: the loop body never runs.
PivotPositions(n) ==
    LET firstIndex == n % (GROUP_NUM - 1)
        gap        == n \div (GROUP_NUM - 1)
    IN  {i \in firstIndex .. n - 1 : (i - firstIndex) % gap = 0}

SelectPivots(sorted) ==
    LET pos == SetToSortSeq(PivotPositions(Len(sorted)), <)
    IN  [j \in 1 .. Len(pos) |-> sorted[pos[j] + 1]]

\* Mutant: the cursor advances before the pivot key is placed, so the pivot
\* lands in the next group.
RECURSIVE RedistributeLate(_, _, _, _)
RedistributeLate(ks, piv, ptr, acc) ==
    IF ks = <<>> THEN acc
    ELSE LET k == Head(ks) IN
         IF ptr = Len(piv)
         THEN RedistributeLate(Tail(ks), piv, ptr, (k :> ptr) @@ acc)
         ELSE IF k <= piv[ptr + 1]
              THEN LET np == IF k = piv[ptr + 1] THEN ptr + 1 ELSE ptr
                   IN  RedistributeLate(Tail(ks), piv, np, (k :> np) @@ acc)
              ELSE RedistributeLate(Tail(ks), piv, ptr, acc)

\* Mutant: keys after the last pivot are not placed in the last group.
RECURSIVE RedistributeNoLast(_, _, _, _)
RedistributeNoLast(ks, piv, ptr, acc) ==
    IF ks = <<>> THEN acc
    ELSE LET k == Head(ks) IN
         IF ptr = Len(piv)
         THEN RedistributeNoLast(Tail(ks), piv, ptr, acc)
         ELSE IF k <= piv[ptr + 1]
              THEN RedistributeNoLast(Tail(ks), piv, IF k = piv[ptr + 1] THEN ptr + 1 ELSE ptr,
                                      (k :> ptr) @@ acc)
              ELSE RedistributeNoLast(Tail(ks), piv, ptr, acc)

\* The redistribution walk over the sorted keys with the 0-based cursor ptr:
\* a key goes to group ptr when ptr is past the last pivot or key <= pivots[ptr];
\* the cursor advances after the pivot itself; any other key is skipped.
RECURSIVE Redistribute(_, _, _, _)
Redistribute(ks, piv, ptr, acc) ==
    IF ks = <<>> THEN acc
    ELSE LET k == Head(ks) IN
         IF ptr = Len(piv)
         THEN Redistribute(Tail(ks), piv, ptr, (k :> ptr) @@ acc)
         ELSE IF k <= piv[ptr + 1]
              THEN Redistribute(Tail(ks), piv, IF k = piv[ptr + 1] THEN ptr + 1 ELSE ptr,
                                (k :> ptr) @@ acc)
              ELSE Redistribute(Tail(ks), piv, ptr, acc)

GroupMap(m, assign, g) == [k \in {x \in DOMAIN assign : assign[x] = g} |-> m[k]]

\* Mutant: an overwrite is counted as a new record.
SizeAfterPutAppendOnly(m, size, k, v) == size + RecordSize(v)

(* The size update of put: an overwrite swaps the value length, a new key   *)
(* adds a whole record.                                                     *)
SizeAfterPut(m, size, k, v) ==
    IF k \in DOMAIN m THEN size - ValueLen[m[k]] + ValueLen[v]
                      ELSE size + RecordSize(v)

-----------------------------------------------------------------------------

\* A restarted process: the constructor drained the INITIAL group into
\* initialBuffer (at most MAX_INITIAL_BUFFER_AMOUNT keys, since more would
\* have partitioned it) and summed its record sizes.
Init ==
    /\ initialBuffer \in UNION {[S -> Values] :
                          S \in {S \in SUBSET Keys : Cardinality(S) <= MAX_INITIAL_BUFFER_AMOUNT}}
    /\ initialBufferSize = MapSize(initialBuffer)
    /\ pivots = <<>>
    /\ metaPivots = <<>>
    /\ buffers = [g \in Groups |-> EmptyMap]
    /\ bufferSizes = [g \in Groups |-> 0]

\* Pivot generation and redistribution, once ib holds too many keys: the
\* pivots are appended, the joined list is written as the metadata, and the
\* walk adds every key to its group buffer (buffers[ptr][_key] = _value) and
\* its record size to the group's counter.
GeneratePivots(ib) ==
    LET sorted == SetToSortSeq(DOMAIN ib, <)
        piv    == SelectPivots(sorted)
        assign == Redistribute(sorted, piv, 0, EmptyMap)
    IN  /\ pivots' = pivots \o piv
        /\ metaPivots' = piv
        /\ buffers' = [g \in Groups |-> GroupMap(ib, assign, g) @@ buffers[g]]
        /\ bufferSizes' = [g \in Groups |-> bufferSizes[g] + MapSize(GroupMap(ib, assign, g))]
        /\ initialBuffer' = EmptyMap
        /\ initialBufferSize' = 0

\* BufferManager::put before pivots exist.
PutInitial(k, v) ==
    /\ ~PivotsGenerated
    /\ LET ib == (k :> v) @@ initialBuffer IN
       \/ /\ Cardinality(DOMAIN ib) <= MAX_INITIAL_BUFFER_AMOUNT
          /\ initialBuffer' = ib
          /\ initialBufferSize' = SizeAfterPut(initialBuffer, initialBufferSize, k, v)
          /\ UNCHANGED <<pivots, metaPivots, buffers, bufferSizes>>
       \/ /\ Cardinality(DOMAIN ib) > MAX_INITIAL_BUFFER_AMOUNT
          /\ GeneratePivots(ib)

\* BufferManager::put once pivots exist, followed by Server::put's swap-out
\* of the group buffer when put reports that it exceeds MAX_BUFFER_SIZE.
PutPartitioned(k, v) ==
    /\ PivotsGenerated
    /\ LET idx  == GetBelongingGroup(k)
           size == SizeAfterPut(buffers[idx], bufferSizes[idx], k, v)
       IN  IF size > MAX_BUFFER_SIZE
           THEN /\ buffers' = [buffers EXCEPT ![idx] = EmptyMap]
                /\ bufferSizes' = [bufferSizes EXCEPT ![idx] = 0]
           ELSE /\ buffers' = [buffers EXCEPT ![idx] = (k :> v) @@ @]
                /\ bufferSizes' = [bufferSizes EXCEPT ![idx] = size]
    /\ UNCHANGED <<initialBuffer, initialBufferSize, pivots, metaPivots>>

EraseKey(m, k) == [x \in DOMAIN m \ {k} |-> m[x]]

\* Mutant: del subtracts the record size without checking that the key is buffered.
DelUnchecked(k) ==
    \/ /\ ~PivotsGenerated
       /\ initialBuffer' = EraseKey(initialBuffer, k)
       /\ initialBufferSize' = initialBufferSize - RecordSize(CHOOSE v \in Values : TRUE)
       /\ UNCHANGED <<pivots, metaPivots, buffers, bufferSizes>>
    \/ /\ PivotsGenerated
       /\ LET idx == GetBelongingGroup(k) IN
          /\ buffers' = [buffers EXCEPT ![idx] = EraseKey(@, k)]
          /\ bufferSizes' = [bufferSizes EXCEPT ![idx] = @ - RecordSize(CHOOSE v \in Values : TRUE)]
       /\ UNCHANGED <<initialBuffer, initialBufferSize, pivots, metaPivots>>

\* BufferManager::del: erase from the buffer the key belongs to.
Del(k) ==
    \/ /\ ~PivotsGenerated
       /\ initialBuffer' = EraseKey(initialBuffer, k)
       /\ initialBufferSize' = IF k \in DOMAIN initialBuffer
                               THEN initialBufferSize - RecordSize(initialBuffer[k])
                               ELSE initialBufferSize
       /\ UNCHANGED <<pivots, metaPivots, buffers, bufferSizes>>
    \/ /\ PivotsGenerated
       /\ LET idx == GetBelongingGroup(k) IN
          /\ buffers' = [buffers EXCEPT ![idx] = EraseKey(@, k)]
          /\ bufferSizes' = [bufferSizes EXCEPT ![idx] =
                                IF k \in DOMAIN buffers[idx] THEN @ - RecordSize(buffers[idx][k])
                                                             ELSE @]
       /\ UNCHANGED <<initialBuffer, initialBufferSize, pivots, metaPivots>>

\* BufferManager::flushAll: swap out every group buffer under the lock.
FlushAll ==
    /\ PivotsGenerated
    /\ buffers' = [g \in Groups |-> EmptyMap]
    /\ bufferSizes' = [g \in Groups |-> 0]
    /\ UNCHANGED <<initialBuffer, initialBufferSize, pivots, metaPivots>>

Next ==
    \/ \E k \in Keys, v \in Values : PutInitial(k, v) \/ PutPartitioned(k, v)
    \/ \E k \in Keys : Del(k)
    \/ FlushAll

Spec == Init /\ [][Next]_vars

-----------------------------------------------------------------------------
(* Properties *)

TypeOK ==
    /\ initialBuffer \in UNION {[S -> Values] : S \in SUBSET Keys}
    /\ initialBufferSize \in Nat
    /\ pivots \in Seq(Keys)
    /\ metaPivots \in Seq(Keys)
    /\ buffers \in [Groups -> UNION {[S -> Values] : S \in SUBSET Keys}]
    /\ bufferSizes \in [Groups -> Nat]

\* Every key in a group buffer sits where get, del and later puts look for
\* it: pivots exist (otherwise they read initialBuffer) and getBelongingGroup
\* (lower_bound over the pivots) names that group.  The redistribution walk
\* at pivot generation and the lookup agree, ties included.  (A generation
\* that yields no pivot, n < GROUP_NUM - 1, is reached only by the
\* MCBufferPartition_fewkeys configuration.)
PartitionMatchesLookup ==
    \A g \in Groups : \A k \in DOMAIN buffers[g] :
        PivotsGenerated /\ GetBelongingGroup(k) = g

\* The incrementally maintained size counters equal the bytes of the records
\* they count; Group::batchPut mallocs exactly bufferSize bytes and writes the
\* records into it, so a counter below the true size overflows that block.
SizeCountersExact ==
    /\ initialBufferSize = MapSize(initialBuffer)
    /\ \A g \in Groups : bufferSizes[g] = MapSize(buffers[g])

\* Once generated, the pivots are exactly GROUP_NUM - 1 keys, sorted, and the
\* list persisted to the index store's metadata is the one in use.
PivotsComplete ==
    PivotsGenerated =>
        /\ Len(pivots) = GROUP_NUM - 1
        /\ IsSorted(pivots, <)
        /\ metaPivots = pivots

\* Spec section 4.1 and 8: the initial partitions are evenly sized, each
\* partition's key count differing from n / GROUP_NUM by at most the
\* remainder n % GROUP_NUM.
PartitionsBalanced ==
    [][~PivotsGenerated /\ PivotsGenerated' =>
         LET n == Cardinality(UNION {DOMAIN buffers'[g] : g \in Groups}) IN
         \A g \in Groups :
             LET d == GROUP_NUM * Cardinality(DOMAIN buffers'[g]) - n IN
             /\ d <= GROUP_NUM * (n % GROUP_NUM)
             /\ -d <= GROUP_NUM * (n % GROUP_NUM)]_vars

=============================================================================
