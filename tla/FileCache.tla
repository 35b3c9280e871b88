------------------------------ MODULE FileCache ------------------------------
(***************************************************************************)
(* The File Handle Cache (FileManager) and the file accesses its callers   *)
(* make.  FileManager keeps the FILE handles of the group files in an LRU  *)
(* list of FILE_LRU_CAPACITY FileWrappers and a recursive mutex per group  *)
(* in fileMutexes.  openFile opens a file that is not in the list, puts    *)
(* its wrapper in (the least recently used wrapper is evicted, and its     *)
(* destructor fcloses the handle) and creates a new mutex for the group;   *)
(* resetFile fcloses the group's handle and reopens the file empty.        *)
(*                                                                         *)
(* A thread's call is the sequence of FileManager calls and file I/O its   *)
(* code makes, one instruction per step, with the buffer lock, the one     *)
(* other lock taken around them.  The index lock and the bytes read and    *)
(* written are DFDBEngine's and StoreLifecycle's; leaving a lock out only  *)
(* adds interleavings.                                                     *)
(***************************************************************************)
EXTENDS Integers, SequencesExt

CONSTANTS
    Threads,
    GROUP_NUM,
    FILE_LRU_CAPACITY,
    Calls,          \* subset of {"put", "get", "gc"} the threads make
    InitMutexed,    \* the groups this process has opened a file of
    InitOpened,     \* the open ones, least recently used first
    InitIndexed,    \* the groups the index holds positions in
    MaxCalls,       \* calls, over all threads
    MaxFopens,      \* handle and mutex names
    Buf,            \* the BufferManager's mutex
    NoOwner, NoFp, NoMutex

Groups == 0 .. GROUP_NUM - 1
Fps == 1 .. MaxFopens

VARIABLES
    openedFiles,    \* the LruList: Seq(Groups), least recently used first
    fpOf,           \* group -> the FILE* of its FileWrapper, or NoFp
    closed,         \* the FILE*s fclose was called on
    fopens,         \* fopen calls: the last handle or mutex name used
    fileMutexes,    \* group -> its mutex, or NoMutex (getFileMutex returns nullptr)
    owner, depth,   \* mutex -> holding thread, recursion count
    indexed,        \* the groups LevelDB holds positions in
    prog, pc, fp,   \* per thread: its call's instructions, the next one, its FILE*
    calls

vars == <<openedFiles, fpOf, closed, fopens, fileMutexes, owner, depth, indexed,
          prog, pc, fp, calls>>

Mutexes == Fps \cup {Buf}

I(op, on) == [op |-> op, on |-> on]

Idle(t) == pc[t] > Len(prog[t])
Cur(t) == prog[t][pc[t]]
Advance(t) == pc' = [pc EXCEPT ![t] = @ + 1]

\* FileManager::getFileMutex, and the buffer lock.
MutexOf(on) == IF on = Buf THEN Buf ELSE fileMutexes[on]

-----------------------------------------------------------------------------
(***************************************************************************)
(* The calls.                                                              *)
(***************************************************************************)
\* Group::batchPut(g): openFile, then the file lock, the fwrite, the
\* unlock; LevelDBKeyManager::batchPut then indexes the new positions.
BatchPut(g) == <<I("open", g), I("lock", g), I("fwrite", g), I("unlock", g), I("index", g)>>

\* ValueLog::assignValueInfo(key, layout): openFile, then the file lock,
\* fseek and fread, the unlock.
AssignValueInfoProg(g) == <<I("open", g), I("lock", g), I("fread", g), I("unlock", g)>>

\* Mutant: the read path does not take the group's lock before openFile.
GetProgOpenFirst(g) == AssignValueInfoProg(g)

\* Server::get, once the index has a position in g: the file lock, the
\* read, the unlock.
GetProg(g) == <<I("lock", g)>> \o AssignValueInfoProg(g) \o <<I("unlock", g)>>

\* Group::read of one coalesced block.
ReadProg(g) == <<I("open", g), I("lock", g), I("fread", g), I("unlock", g)>>

\* Group::rewrite: the file lock, resetFile, the fwrite, the unlock.
RewriteProg(g) == <<I("lock", g), I("reset", g), I("fwrite", g), I("unlock", g)>>

UnlockIn(S) == SelectSeq([i \in 1 .. GROUP_NUM |-> I("unlock", i - 1)], LAMBDA x : x.on \in S)

\* BufferManager::flushAll: under the buffer lock, flush(i, false) of every
\* group; the buffers of F are not empty and are batchPut.
FlushAllProg(F) ==
    <<I("lock", Buf)>>
    \o FlattenSeq([i \in 1 .. GROUP_NUM |-> IF i - 1 \in F THEN BatchPut(i - 1) ELSE <<>>])
    \o <<I("unlock", Buf)>>

\* Server::getRange(lower, upper): flushAll, lock every group file, unlock
\* the groups no key of the range is in, read the others (inv), unlock them.
GetRangeBoundProg(F, inv) ==
    FlushAllProg(F)
    \o [i \in 1 .. GROUP_NUM |-> I("lock", i - 1)]
    \o UnlockIn(Groups \ inv)
    \o FlattenSeq([i \in 1 .. GROUP_NUM |-> IF i - 1 \in inv THEN ReadProg(i - 1) ELSE <<>>])
    \o UnlockIn(inv)

\* GcManager::gc(g): the buffer lock, g's file lock, the range scan of g's
\* bound (whose keys are in g once it is indexed), Group::rewrite, unlocks.
GcProg(g, F) ==
    LET inv == IF g \in indexed \cup F THEN {g} ELSE {}
    IN  <<I("lock", Buf), I("lock", g)>> \o GetRangeBoundProg(F, inv) \o RewriteProg(g)
        \o <<I("unlock", g), I("unlock", Buf)>>

\* Server::put whose buffer overflows: the buffer lock, held across
\* BufferManager::flush(g) and its batchPut, then released.
PutProg(g) == <<I("lock", Buf)>> \o BatchPut(g) \o <<I("unlock", Buf)>>

Prog(c, g, F) ==
    CASE c = "put" -> PutProg(g)
      [] c = "get" -> GetProg(g)
      [] c = "gc"  -> GcProg(g, F)

-----------------------------------------------------------------------------
(***************************************************************************)
(* The steps.                                                              *)
(***************************************************************************)
\* A thread begins a call: a put that flushes g, a get of a key indexed in
\* g, or gc(g) with the groups F whose buffers flushAll finds non-empty.
Start(t) ==
    /\ Idle(t) /\ calls < MaxCalls
    /\ \E c \in Calls, g \in Groups :
          /\ c = "get" => g \in indexed
          /\ \E F \in IF c = "gc" THEN SUBSET Groups ELSE {{}} :
                prog' = [prog EXCEPT ![t] = Prog(c, g, F)]
    /\ pc' = [pc EXCEPT ![t] = 1]
    /\ calls' = calls + 1
    /\ UNCHANGED <<openedFiles, fpOf, closed, fopens, fileMutexes, owner, depth, indexed, fp>>

\* LruList::put: the least recently used entry leaves a list over capacity.
Evict(lru) == IF Len(lru) > FILE_LRU_CAPACITY THEN {Head(lru)} ELSE {}

\* Mutant: a new mutex is stored for g on every openFile, hit or miss.
OpenEffectsNewMutex(t, g, reset) ==
    LET miss == g \notin Range(openedFiles)
        lru  == Append(Remove(openedFiles, g), g)
        ev   == Evict(lru)
        got  == IF miss THEN fopens + 1 ELSE fpOf[g]
        last == fopens + 1 + (IF miss THEN 1 ELSE 0) + (IF reset THEN 1 ELSE 0)
    IN  /\ last <= MaxFopens
        /\ openedFiles' = IF ev = {} THEN lru ELSE Tail(lru)
        /\ fopens' = last
        /\ fpOf' = [x \in Groups |-> IF x \in ev THEN NoFp
                                     ELSE IF x = g THEN (IF reset THEN last - 1 ELSE got)
                                     ELSE fpOf[x]]
        /\ closed' = closed \cup {fpOf[x] : x \in ev} \cup (IF reset THEN {got} ELSE {})
        /\ fileMutexes' = [fileMutexes EXCEPT ![g] = last]
        /\ fp' = [fp EXCEPT ![t] = IF reset THEN last - 1 ELSE got]

(* FileManager::openFile(g), and with reset FileManager::resetFile(g),     *)
(* which calls openFile and then fcloses the wrapper's handle and fopens   *)
(* the file "w+".  A miss fopens the file, puts the wrapper in the LRU     *)
(* list, which evicts the least recently used one when over capacity, and  *)
(* stores a new mutex for g.  The thread keeps the handle returned.        *)
OpenEffects(t, g, reset) ==
    LET miss == g \notin Range(openedFiles)
        lru  == Append(Remove(openedFiles, g), g)
        ev   == Evict(lru)
        got  == IF miss THEN fopens + 1 ELSE fpOf[g]
        last == fopens + (IF miss THEN 1 ELSE 0) + (IF reset THEN 1 ELSE 0)
    IN  /\ last <= MaxFopens
        /\ openedFiles' = IF ev = {} THEN lru ELSE Tail(lru)
        /\ fopens' = last
        /\ fpOf' = [x \in Groups |-> IF x \in ev THEN NoFp
                                     ELSE IF x = g THEN (IF reset THEN last ELSE got)
                                     ELSE fpOf[x]]
        /\ closed' = closed \cup {fpOf[x] : x \in ev} \cup (IF reset THEN {got} ELSE {})
        /\ fileMutexes' = IF miss THEN [fileMutexes EXCEPT ![g] = fopens + 1] ELSE fileMutexes
        /\ fp' = [fp EXCEPT ![t] = IF reset THEN last ELSE got]

OpenFile(t) ==
    /\ ~Idle(t) /\ Cur(t).op = "open"
    /\ OpenEffects(t, Cur(t).on, FALSE)
    /\ Advance(t)
    /\ UNCHANGED <<owner, depth, indexed, prog, calls>>

ResetFile(t) ==
    /\ ~Idle(t) /\ Cur(t).op = "reset"
    /\ OpenEffects(t, Cur(t).on, TRUE)
    /\ Advance(t)
    /\ UNCHANGED <<owner, depth, indexed, prog, calls>>

\* operateFileMutex(g, LOCK): recursive_mutex::lock of getFileMutex(g);
\* a null mutex would crash the process (MutexExistsWhenLocked).
Lock(t) ==
    LET m == MutexOf(Cur(t).on) IN
    /\ ~Idle(t) /\ Cur(t).op = "lock"
    /\ m /= NoMutex
    /\ owner[m] \in {NoOwner, t}
    /\ owner' = [owner EXCEPT ![m] = t]
    /\ depth' = [depth EXCEPT ![m] = @ + 1]
    /\ Advance(t)
    /\ UNCHANGED <<openedFiles, fpOf, closed, fopens, fileMutexes, indexed, prog, fp, calls>>

\* Mutant: unlock releases the mutex whatever the recursion count.
UnlockAll(t) ==
    LET m == MutexOf(Cur(t).on) IN
    /\ ~Idle(t) /\ Cur(t).op = "unlock"
    /\ m /= NoMutex
    /\ depth' = IF owner[m] = t THEN [depth EXCEPT ![m] = 0] ELSE depth
    /\ owner' = IF owner[m] = t THEN [owner EXCEPT ![m] = NoOwner] ELSE owner
    /\ Advance(t)
    /\ UNCHANGED <<openedFiles, fpOf, closed, fopens, fileMutexes, indexed, prog, fp, calls>>

\* Mutant: the owner is not cleared when the count reaches zero.
UnlockKeepingOwner(t) ==
    LET m == MutexOf(Cur(t).on) IN
    /\ ~Idle(t) /\ Cur(t).op = "unlock"
    /\ m /= NoMutex
    /\ depth' = IF owner[m] = t THEN [depth EXCEPT ![m] = @ - 1] ELSE depth
    /\ UNCHANGED owner
    /\ Advance(t)
    /\ UNCHANGED <<openedFiles, fpOf, closed, fopens, fileMutexes, indexed, prog, fp, calls>>

(* operateFileMutex(g, UNLOCK) of the mutex getFileMutex(g) returns now.   *)
(* Unlocking a mutex the thread does not hold is undefined; glibc's        *)
(* recursive mutex refuses it with EPERM, which recursive_mutex::unlock    *)
(* ignores, so the step changes nothing (UnlockOwnsMutex).                 *)
Unlock(t) ==
    LET m == MutexOf(Cur(t).on) IN
    /\ ~Idle(t) /\ Cur(t).op = "unlock"
    /\ m /= NoMutex
    /\ depth' = IF owner[m] = t THEN [depth EXCEPT ![m] = @ - 1] ELSE depth
    /\ owner' = IF owner[m] = t /\ depth[m] = 1 THEN [owner EXCEPT ![m] = NoOwner] ELSE owner
    /\ Advance(t)
    /\ UNCHANGED <<openedFiles, fpOf, closed, fopens, fileMutexes, indexed, prog, fp, calls>>

\* fseek and fread or fwrite on the thread's FILE*.
FileIo(t) ==
    /\ ~Idle(t) /\ Cur(t).op \in {"fread", "fwrite"}
    /\ Advance(t)
    /\ UNCHANGED <<openedFiles, fpOf, closed, fopens, fileMutexes, owner, depth, indexed,
                   prog, fp, calls>>

\* LevelDBKeyManager::batchPut of the positions the flush wrote.
Index(t) ==
    /\ ~Idle(t) /\ Cur(t).op = "index"
    /\ indexed' = indexed \cup {Cur(t).on}
    /\ Advance(t)
    /\ UNCHANGED <<openedFiles, fpOf, closed, fopens, fileMutexes, owner, depth, prog, fp, calls>>

\* Every call has been made and has returned.
Done ==
    /\ calls = MaxCalls /\ \A t \in Threads : Idle(t)
    /\ UNCHANGED vars

(* The FileManager constructor starts with no handle and no mutex; a      *)
(* process that has run for a while has opened the files of InitMutexed   *)
(* and still holds the handles of InitOpened.                              *)
Init ==
    /\ openedFiles = InitOpened
    /\ fpOf = [g \in Groups |-> IF g \in Range(InitOpened)
                                THEN GROUP_NUM + CHOOSE i \in DOMAIN InitOpened : InitOpened[i] = g
                                ELSE NoFp]
    /\ fileMutexes = [g \in Groups |-> IF g \in InitMutexed THEN g + 1 ELSE NoMutex]
    /\ fopens = GROUP_NUM + Len(InitOpened)
    /\ closed = {}
    /\ owner = [m \in Mutexes |-> NoOwner] /\ depth = [m \in Mutexes |-> 0]
    /\ indexed = InitIndexed
    /\ prog = [t \in Threads |-> <<>>] /\ pc = [t \in Threads |-> 1]
    /\ fp = [t \in Threads |-> NoFp]
    /\ calls = 0

Next ==
    \/ \E t \in Threads :
          Start(t) \/ OpenFile(t) \/ ResetFile(t) \/ Lock(t) \/ Unlock(t) \/ FileIo(t) \/ Index(t)
    \/ Done

Spec == Init /\ [][Next]_vars

-----------------------------------------------------------------------------
(* Properties *)

Instr == [op : {"open", "reset", "lock", "unlock", "fread", "fwrite", "index"}, on : Groups \cup {Buf}]

TypeOK ==
    /\ openedFiles \in Seq(Groups) /\ Len(openedFiles) <= FILE_LRU_CAPACITY
    /\ fpOf \in [Groups -> Fps \cup {NoFp}] /\ closed \subseteq Fps
    /\ fileMutexes \in [Groups -> Fps \cup {NoMutex}]
    /\ owner \in [Mutexes -> Threads \cup {NoOwner}] /\ depth \in [Mutexes -> Nat]
    /\ \A m \in Mutexes : (owner[m] = NoOwner) = (depth[m] = 0)
    /\ indexed \subseteq Groups
    /\ prog \in [Threads -> Seq(Instr)] /\ fp \in [Threads -> Fps \cup {NoFp}]

InIo(t, g) == ~Idle(t) /\ Cur(t).op \in {"fread", "fwrite"} /\ Cur(t).on = g

\* Spec section 6 (shared resources): no thread reads or writes through a
\* FILE* that has been fclosed, by an LRU eviction or by gc's resetFile,
\* since the thread got it from openFile or resetFile.
FpOpenWhenUsed == \A t \in Threads : ~Idle(t) /\ Cur(t).op \in {"fread", "fwrite"} => fp[t] \notin closed

\* The group file lock serialises file I/O: no two threads fseek and
\* fread or fwrite the same group file at once, across the recursive
\* locking of Server::get, getRange and gc.
FileIoExclusive == \A g \in Groups, t1, t2 \in Threads : t1 /= t2 => ~(InIo(t1, g) /\ InIo(t2, g))

\* operateFileMutex(g, UNLOCK) only unlocks a mutex its thread holds: the
\* mutex getFileMutex returns at the unlock is the one locked before.
UnlockOwnsMutex ==
    \A t \in Threads : ~Idle(t) /\ Cur(t).op = "unlock" /\ MutexOf(Cur(t).on) /= NoMutex
                           => owner[MutexOf(Cur(t).on)] = t

\* No thread calls lock or unlock on the mutex of a group whose file this
\* process has never opened: getFileMutex returns nullptr for it.
MutexExistsWhenLocked ==
    \A t \in Threads : ~Idle(t) /\ Cur(t).op \in {"lock", "unlock"} => MutexOf(Cur(t).on) /= NoMutex
=============================================================================
