------------------------- MODULE MCStoreLifecycle --------------------------
(* Two keys and two values whose records are 7 and 9 bytes: one v2, or  *)
(* two v1s, overflow a group buffer of 8 bytes; the second key            *)
(* partitions the store into two groups.                                   *)
EXTENDS StoreLifecycle

CONSTANTS v1, v2

MCValues == {v1, v2}
MCValueLen == [v \in MCValues |-> IF v = v1 THEN 1 ELSE 3]
MCKeys == 1 .. 2
=============================================================================
