---------------------------- MODULE YCSBAdapter ----------------------------
(***************************************************************************)
(* The YCSB binding (src/ycsb/db/fencekv_db.h): every call of the FenceKV  *)
(* adapter takes the adapter's std::mutex for the whole Server call, so    *)
(* however many YCSB client threads run, at most one of them is inside     *)
(* the engine.  Read is Server::get, Scan is Server::getRange(key, len),   *)
(* Insert and Update are Server::put, Delete is Server::del; the adapter   *)
(* never calls gc, which happens only when a flush meets the disk budget.  *)
(* Every method returns 0 whatever the Server returned.                    *)
(*                                                                         *)
(* The engine's steps are DFDBEngine's.  The abstract map of KVStore is    *)
(* read off the engine's state, including the write a call has in flight. *)
(***************************************************************************)
EXTENDS DFDBEngine

\* FenceKV's mutex_: a thread may enter the engine only while no other
\* thread is inside a call.
AdapterFree(p) == \A q \in Threads \ {p} : Idle(q)

\* FenceKV::Read: get, result ignored.
Read(p, k) == AdapterFree(p) /\ GetBuf(p, k)

\* FenceKV::Scan: getRange(key, len).
Scan(p, k) == AdapterFree(p) /\ RangeStart(p, k)

\* FenceKV::Insert: put of the first field's value.
Insert(p, k, v) == AdapterFree(p) /\ PutStart(p, k, v)

\* FenceKV::Update: the same put.
Update(p, k, v) == Insert(p, k, v)

\* FenceKV::Delete: del.
Delete(p, k) == AdapterFree(p) /\ DelBuf(p, k)

\* The YCSB load phase starts from an empty database.
YInit == Init /\ kv = [k \in Keys |-> None]

YNext ==
    \/ \E p \in Threads :
           \/ \E k \in Keys : Read(p, k) \/ Scan(p, k) \/ Delete(p, k)
           \/ \E k \in Keys, v \in Values : Insert(p, k, v) \/ Update(p, k, v)
           \/ Step(p)
    \/ Stopped

YSpec == YInit /\ [][YNext]_vars /\ Fairness

-----------------------------------------------------------------------------
(* The refinement mapping.                                                 *)

\* The value of k a call has taken but not yet indexed: the group buffer a
\* put's flush swapped out, or the buffer flushAll is writing.
InFlight(k) ==
    {pbuf[q][k] : q \in {q \in Threads : op[q].kind = "put" /\ ~Idle(q) /\ k \in DOMAIN pbuf[q]}}
    \cup {fbuf[q][k] : q \in {q \in Threads : pc[q] \in {"FAAppend", "FAIndex"}
                                              /\ k \in DOMAIN fbuf[q]}}

\* The map a client sees: the write in flight, else the delete in flight,
\* else what a get would read from the buffer and the index.
YStore ==
    [k \in Keys |->
        IF InFlight(k) /= {} THEN CHOOSE v \in InFlight(k) : TRUE
        ELSE IF \E q \in Threads : pc[q] = "DelIdx" /\ op[q].key = k THEN None
        ELSE Visible(k)]

\* Calls started: the count KVStore advances once per client call.
Started == MapThenSumSet(LAMBDA p : nops[p] + IF Idle(p) THEN 0 ELSE 1, Threads)

KV == INSTANCE KVStore WITH store <- YStore, calls <- Started

\* Refinement: behind the adapter's mutex the engine implements KVStore.
\* Only Insert, Update and Delete change the map, each one key, at the call;
\* flushes, the forced GC a flush runs at the disk budget and the flushAll
\* of a Scan move values between buffer, log and index without a client
\* seeing any change.
KVSpec == KV!Spec

\* The present keys of the map from start on, the first RangeNum of them.
StoreRange(start) ==
    LET after == {k \in Keys : k >= start /\ YStore[k] /= None}
    IN  {k \in after : Cardinality({x \in after : x < k}) < RangeNum}

\* What a Read or a Scan returns is the map at its return: get yields the
\* key's value (None if absent), getRange the first RangeNum present keys
\* from the start key with their values, read back through the index and
\* the group files after the Scan's flushAll.
ResultsMatchStore ==
    [][\A p \in Threads :
         nops'[p] > nops[p] =>
             /\ op'[p].kind = "get" => res'[p] = YStore[op'[p].key]
             /\ op'[p].kind = "range" => res'[p] = [k \in StoreRange(op'[p].key) |-> YStore[k]]
      ]_vars

=============================================================================
