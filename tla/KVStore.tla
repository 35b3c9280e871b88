------------------------------ MODULE KVStore ------------------------------
(***************************************************************************)
(* What the engine promises a client (spec sections 4.6 and 8): a map     *)
(* from keys to values that only client calls change, a put setting one   *)
(* key and a delete removing one; any other call (get, getRange, gc)      *)
(* leaves it as it is.  calls counts the client calls; restarts, flushes  *)
(* and their timing are invisible at this level.                           *)
(***************************************************************************)
EXTENDS Naturals

CONSTANTS Keys, Values, None

VARIABLES store, calls

Init == store = [k \in Keys |-> None] /\ calls = 0

Put(k, v) == store' = [store EXCEPT ![k] = v] /\ calls' = calls + 1

Del(k) == store' = [store EXCEPT ![k] = None] /\ calls' = calls + 1

Read == calls' = calls + 1 /\ UNCHANGED store

Next == Read \/ \E k \in Keys : Del(k) \/ \E v \in Values : Put(k, v)

Spec == Init /\ [][Next]_<<store, calls>>
=============================================================================
