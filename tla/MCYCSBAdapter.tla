--------------------------- MODULE MCYCSBAdapter ---------------------------
(* Two YCSB client threads over two keys split by one pivot; records of 7 *)
(* and 9 bytes, a group buffer of 8 bytes and a disk budget of 9 bytes, so *)
(* the second flush already runs the forced GC.                           *)
EXTENDS YCSBAdapter

CONSTANTS t1, t2, v1, v2

MCThreads == {t1, t2}
MCKeys == {1, 2}
MCValues == {v1, v2}
MCValueLen == [v \in MCValues |-> IF v = v1 THEN 1 ELSE 3]
MCPivots == <<1>>
MCSymmetry == Permutations(MCThreads)
=============================================================================
