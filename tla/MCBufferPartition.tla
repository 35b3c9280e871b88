------------------------- MODULE MCBufferPartition -------------------------
(* Groups over six ordered keys and two values of different length.      *)
(* lastPut is an observation variable: the arguments of the latest put,   *)
(* so that a property can name the write the pivot generation must keep.  *)
EXTENDS BufferPartition

CONSTANTS v1, v2

VARIABLE lastPut

MCValues == {v1, v2}
MCValueLen == [v \in MCValues |-> IF v = v1 THEN 1 ELSE 3]
MCKeys == 1 .. 6

mcvars == <<vars, lastPut>>

MCInit == Init /\ lastPut = <<>>

MCNext ==
    \/ \E k \in Keys, v \in Values :
           /\ PutInitial(k, v) \/ PutPartitioned(k, v)
           /\ lastPut' = <<k, v>>
    \/ /\ (\E k \in Keys : Del(k)) \/ FlushAll
       /\ UNCHANGED lastPut

MCSpec == MCInit /\ [][MCNext]_mcvars

\* The BufferManager::put that generates the pivots loses and invents no
\* write: the group buffers after it hold exactly the keys of the
\* initialBuffer plus the key this put writes, each with its latest value,
\* the put's own value for its key.
PartitionKeepsEveryWrite ==
    [][~PivotsGenerated /\ PivotsGenerated' =>
         LET ib == (lastPut'[1] :> lastPut'[2]) @@ initialBuffer IN
         /\ UNION {DOMAIN buffers'[g] : g \in Groups} = DOMAIN ib
         /\ \A g \in Groups : \A x \in DOMAIN buffers'[g] : buffers'[g][x] = ib[x]]_mcvars
=============================================================================
