-------------------------- MODULE MCReconcileBacklog --------------------------
(***************************************************************************)
(* A small backlog for TLC.                                                *)
(***************************************************************************)
EXTENDS ReconcileBacklog

CONSTANTS g1, g2, g3, k1, k2, k3

MCGroups == {g1, g2, g3}
MCParked == {g1, g2}
MCKeys == {k1, k2, k3}
MCKeyOf == [g \in Groups |->
    CASE g = g1 -> k1 [] g = g2 -> k2 [] g = g3 -> k3]

OneInventory == {1}
MCQuantity == [i \in Inventories |-> 3]
UnitDemands == {[i \in Inventories |-> 1]}
=============================================================================
