--------------------------- MODULE MCDFDBEngine ----------------------------
(* Two client threads, two keys split by one pivot into two groups, two    *)
(* values whose records are 7 and 9 bytes: a buffered v1 stays below       *)
(* MAX_BUFFER_SIZE, a v2 makes its group flush.                            *)
EXTENDS DFDBEngine

CONSTANTS t1, t2, v1, v2

MCThreads == {t1, t2}
MCKeys == {1, 2}
MCValues == {v1, v2}
MCValueLen == [v \in MCValues |-> IF v = v1 THEN 1 ELSE 3]
MCPivots == <<1>>
MCSymmetry == Permutations(MCThreads)
=============================================================================
