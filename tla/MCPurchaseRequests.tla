---------------------------- MODULE MCPurchaseRequests ----------------------------
(***************************************************************************)
(* Instances of PurchaseRequests for TLC: sessions s1 and s2 on instance   *)
(* w1, two inventories of one store.                                       *)
(***************************************************************************)
EXTENDS PurchaseRequests, TLC

CONSTANTS s1, s2, w1, w2, u1, u2, i1, i2, store1, store2

MCHostOf == [s \in Sessions |-> w1]
MCStoreOf == [i \in Inventories |-> store1]
MCInitStock == [i \in Inventories |-> 2]
MCUnitStock == [i \in Inventories |-> 1]
MCNoMaxOrderQty == [i \in Inventories |-> None]
MCMaxOrderQty == [i \in Inventories |-> IF i = i1 THEN 1 ELSE None]

\* s1 and s2 run the same handlers on the same instance.
SessionSymmetry == Permutations({s1, s2})
\* u1 and u2 may do the same with the same inventories.
SessionAndUserSymmetry == Permutations({s1, s2}) \cup Permutations({u1, u2})
=============================================================================
