----------------------------- MODULE IndexScan -----------------------------
(***************************************************************************)
(* The range scans of LevelDBKeyManager (leveldb_key_manager.cpp) over the *)
(* keys LevelDB holds, and the group bounds gc scans with                  *)
(* (BufferManager::getGroupBound).  A scan runs under the index lock, so   *)
(* it is one step over a fixed key set; its iterator loops are recursive   *)
(* operators over the sorted keys, with the iterator a position in them.   *)
(* Positions and values are left out: StoreLifecycle models them.          *)
(*                                                                         *)
(* LevelDB also holds the reserved key PIVOTS_KEY (written by writeMeta    *)
(* when the pivots are generated).  Its value is in a header that is not   *)
(* in the repository, so where it sorts among the user keys is chosen in   *)
(* Init from PivotsKeyChoices.                                             *)
(***************************************************************************)
EXTENDS KeyCodec

CONSTANTS
    Chars,              \* the bytes a client's keys are made of
    PivotsKeyChoices,   \* where PIVOTS_KEY may sort: strings that are no key
    Pivots,             \* the pivots generatePivots chose, GROUP_NUM - 1 keys
    GROUP_NUM,
    MaxNum,             \* the largest count a getRange(start, count) asks for
    INF_LOWER_BOUND, INF_UPPER_BOUND,
    Crash,              \* the process died in the scan
    NoScan

\* What a client may pass in, one byte longer than a key may be.
RawKeys == UNION {[1 .. n -> Chars] : n \in 1 .. KEY_LENGTH + 1}

\* The keys LevelDB can hold: validated, padded client keys.
Keys == {ValidateKey(k) : k \in RawKeys} \ {INVALID_KEY}

ASSUME /\ Len(Pivots) = GROUP_NUM - 1
       /\ PivotsKeyChoices \cap Keys = {}

VARIABLES
    lsm,        \* the keys LevelDB holds, PIVOTS_KEY included
    pivotsKey,  \* the value of PIVOTS_KEY
    pivots,     \* BufferManager::pivots, the process's pivot list
    result      \* the scan since the last index write: call, arguments, result

vars == <<lsm, pivotsKey, pivots, result>>

Groups == 0 .. GROUP_NUM - 1

\* specialKeys = {PIVOTS_KEY} (constructor, line 12)
SpecialKeys == {pivotsKey}

\* BufferManager::getBelongingGroup: lower_bound(pivots, key) - pivots.begin()
GetBelongingGroup(k) == Cardinality({i \in 1 .. Len(pivots) : KeyLess(pivots[i], k)})

\* BufferManager::getGroupBound(groupId): <<lower, upper>>.
GetGroupBound(g) ==
    IF g = 0 THEN <<INF_LOWER_BOUND, pivots[1]>>
    ELSE IF g = GROUP_NUM - 1 THEN <<pivots[GROUP_NUM - 1], INF_UPPER_BOUND>>
    ELSE <<pivots[g], pivots[g + 1]>>

---------------------------------------------------------------------------
(* The LevelDB iterator over the sorted keys s: a position in 0..Len(s)+1, *)
(* valid inside 1..Len(s).                                                 *)

Valid(s, i) == i \in 1 .. Len(s)

\* it->Seek(target): the first key at or after target, else past the end.
Seek(s, target) ==
    LET ge == {i \in 1 .. Len(s) : ~KeyLess(s[i], target)}
    IN  IF ge = {} THEN Len(s) + 1 ELSE Min(ge)

\* getKeys(startingKey, num), lines 120-131: reserved keys are skipped and
\* not counted (i-- before the loop's i++).
RECURSIVE ScanCountSpecialCounted(_, _, _, _)
ScanCountSpecialCounted(s, i, num, acc) ==
    IF Len(acc) >= num \/ ~Valid(s, i) THEN acc
    ELSE IF s[i] \in SpecialKeys
         THEN ScanCountSpecialCounted(s, i + 1, num - 1, acc)
         ELSE ScanCountSpecialCounted(s, i + 1, num, Append(acc, s[i]))

RECURSIVE ScanCount(_, _, _, _)
ScanCount(s, i, num, acc) ==
    IF Len(acc) >= num \/ ~Valid(s, i) THEN acc
    ELSE IF s[i] \in SpecialKeys THEN ScanCount(s, i + 1, num, acc)
    ELSE ScanCount(s, i + 1, num, Append(acc, s[i]))

\* LevelDBKeyManager::getKeys(startingKey, num, ...), lines 108-135.
GetKeysCount(db, start, num) ==
    LET s == SortKeys(db) IN ScanCount(s, Seek(s, start), num, <<>>)

RECURSIVE ScanBackwardKeepSpecial(_, _, _)
ScanBackwardKeepSpecial(s, i, acc) ==
    IF ~Valid(s, i) THEN acc
    ELSE ScanBackwardKeepSpecial(s, i - 1, Append(acc, s[i]))

\* The backward loop of getKeys(INF_LOWER_BOUND, endingKey), lines 154-167.
RECURSIVE ScanBackward(_, _, _)
ScanBackward(s, i, acc) ==
    IF ~Valid(s, i) THEN acc
    ELSE IF s[i] \in SpecialKeys THEN ScanBackward(s, i - 1, acc)
    ELSE ScanBackward(s, i - 1, Append(acc, s[i]))

\* The forward loop of getKeys(startingKey, endingKey), lines 186-209.
RECURSIVE ScanForward(_, _, _, _)
ScanForward(s, i, hi, acc) ==
    IF ~Valid(s, i) THEN acc
    ELSE IF s[i] \in SpecialKeys THEN ScanForward(s, i + 1, hi, acc)
    ELSE IF hi /= INF_UPPER_BOUND /\ KeyLess(hi, s[i]) THEN acc
    ELSE ScanForward(s, i + 1, hi, Append(acc, s[i]))

\* getKeys with the start key kept: the `== startingKey` skip dropped.
GetKeysBoundedKeepStart(db, lo, hi) ==
    LET s == SortKeys(db) IN
    IF lo = INF_LOWER_BOUND
    THEN LET i == Seek(s, hi) IN
         IF ~Valid(s, i) THEN Crash
         ELSE Reverse(ScanBackward(s, IF KeyLess(hi, s[i]) THEN i - 1 ELSE i, <<>>))
    ELSE LET i == Seek(s, lo) IN
         IF ~Valid(s, i) THEN Crash
         ELSE ScanForward(s, i, hi, <<>>)

\* LevelDBKeyManager::getKeys(startingKey, endingKey, ...), lines 137-213.
\* Both branches call it->key() right after the Seek without Valid()
\* (lines 148 and 178).  On an iterator past the end, DBIter::key()
\* dereferences the merging iterator's null current child (or fails its
\* assert in a debug build): the process dies, which the scan returns as
\* Crash.
GetKeysBounded(db, lo, hi) ==
    LET s == SortKeys(db) IN
    IF lo = INF_LOWER_BOUND
    THEN LET i == Seek(s, hi) IN
         IF ~Valid(s, i) THEN Crash
         ELSE Reverse(ScanBackward(s, IF KeyLess(hi, s[i]) THEN i - 1 ELSE i, <<>>))
    ELSE LET i == Seek(s, lo) IN
         IF ~Valid(s, i) THEN Crash
         ELSE ScanForward(s, IF s[i] = lo THEN i + 1 ELSE i, hi, <<>>)

---------------------------------------------------------------------------
(* Init: the store has just been partitioned: generatePivots has set the   *)
(* pivots and stored them under PIVOTS_KEY with writeMeta                  *)
(* (buffer_manager.cpp:93-116), and no buffer was flushed yet.             *)
Init ==
    /\ pivotsKey \in PivotsKeyChoices
    /\ lsm = {pivotsKey}
    /\ pivots = Pivots
    /\ result = NoScan

\* LevelDBKeyManager::batchPut: a flush or a gc re-index writes a batch.
\* A scan holds the index lock, so it never sees half a batch: a batch of
\* one key reaches every key set a larger batch does.
BatchPut ==
    /\ \E k \in Keys : lsm' = lsm \cup {k}
    /\ result' = NoScan
    /\ UNCHANGED <<pivotsKey, pivots>>

\* LevelDBKeyManager::deleteKey (Server::del).
DeleteKey ==
    /\ \E k \in Keys : lsm' = lsm \ {k}
    /\ result' = NoScan
    /\ UNCHANGED <<pivotsKey, pivots>>

\* A restart: the BufferManager constructor finds PIVOTS_KEY and splits
\* the stored list at '|' (buffer_manager.cpp:25-42).  A wrong count is
\* only printed.
Restart ==
    /\ pivots' = Split(PivotInfo(Pivots), BAR)
    /\ result' = NoScan
    /\ UNCHANGED <<lsm, pivotsKey>>

\* Server::getRange(startingKey, numKeys) after the pivots exist: the start
\* key is validated (an invalid one returns nothing), getKeys, and the keys
\* are trimmed before they are returned (server.cpp:113-172).
GetRangeCount ==
    /\ \E raw \in RawKeys, num \in 1 .. MaxNum :
          LET start == ValidateKey(raw)
              found == IF start = INVALID_KEY THEN <<>>
                       ELSE GetKeysCount(lsm, start, num)
          IN  result' = [call |-> "count", start |-> start, num |-> num,
                         keys |-> [i \in DOMAIN found |-> Trim(found[i])]]
    /\ UNCHANGED <<lsm, pivotsKey, pivots>>

\* GcManager::gc(groupId): getGroupBound, then Server::getRange(lower,
\* upper) and its getKeys(lower, upper); this form does not trim.
GcScan ==
    /\ \E g \in Groups :
          LET b == GetGroupBound(g) IN
          result' = [call |-> "gc", grp |-> g,
                     keys |-> GetKeysBounded(lsm, b[1], b[2])]
    /\ UNCHANGED <<lsm, pivotsKey, pivots>>

Next == BatchPut \/ DeleteKey \/ Restart \/ GetRangeCount \/ GcScan

Spec == Init /\ [][Next]_vars

---------------------------------------------------------------------------
TypeOK ==
    /\ lsm \subseteq Keys \cup {pivotsKey}
    /\ pivotsKey \in lsm
    /\ result = NoScan \/ result.keys = Crash \/ result.keys \in Seq(Seq(0 .. 255))
    /\ result /= NoScan /\ result.call = "gc" /\ result.keys /= Crash =>
          \A i \in DOMAIN result.keys : result.keys[i] \in Keys

\* The user keys LevelDB holds that satisfy P, in ascending order.
UserKeysSorted(P(_)) == SortKeys({k \in lsm \ {pivotsKey} : P(k)})

\* A gc scan of group g that returns returns exactly the indexed user keys
\* that getBelongingGroup routes to g, in ascending order: the range
\* (pivot[g-1], pivot[g]] of getGroupBound and the seek, start-key skip and
\* reserved-key skip of getKeys agree with lower_bound.  A key missed here
\* is left out of groupRewrite and its value is lost.
GcScanCoversGroup ==
    result /= NoScan /\ result.call = "gc" /\ result.keys /= Crash =>
        result.keys = UserKeysSorted(LAMBDA k : GetBelongingGroup(k) = result.grp)

\* getRange(start, count) returns the first `count` user keys at or after
\* the padded start key, in ascending order and without their padding; the
\* reserved key neither appears nor uses up the count; an invalid start
\* key returns nothing.
RangeScanReturnsFirstN ==
    result /= NoScan /\ result.call = "count" =>
        LET all  == IF result.start = INVALID_KEY THEN <<>>
                    ELSE UserKeysSorted(LAMBDA k : ~KeyLess(k, result.start))
            some == SubSeq(all, 1, IF result.num < Len(all) THEN result.num ELSE Len(all))
        IN  result.keys = [i \in DOMAIN some |-> Trim(some[i])]

\* Every key getRange(start, count) returns is one a client can pass back:
\* validating it again gives the padded key LevelDB holds (validateKey
\* and trim are inverse on the keys put accepts).
RangeKeysReadBack ==
    result /= NoScan /\ result.call = "count" =>
        \A i \in DOMAIN result.keys : ValidateKey(result.keys[i]) \in lsm \ {pivotsKey}

\* The keys getRange(start, count) returns are in ascending std::string
\* order (spec: range scans return keys in ascending order).  The scan
\* walks the padded keys, and the padding blank sorts above the bytes
\* below it.
RangeKeysAscending ==
    result /= NoScan /\ result.call = "count" =>
        \A i \in 1 .. Len(result.keys) - 1 : KeyLess(result.keys[i], result.keys[i + 1])

\* The bounded getKeys never reads the key of an iterator that is past the
\* end, so gc's range scan returns instead of killing the process.
ScanNeverReadsInvalid ==
    result /= NoScan => result.keys /= Crash

\* The pivots a restarted process reads back are the pivots that were
\* generated (spec: the delimiter never occurs inside a valid key).
PivotsSurviveRestart == pivots = Pivots

=============================================================================
