---------------------------- MODULE MCPlaceOrder ----------------------------
(***************************************************************************)
(* Small instances of PlaceOrder for TLC.                                  *)
(***************************************************************************)
EXTENDS PlaceOrder, TLC

CONSTANTS g1, g2, k1, k2

OneGroup == {g1}
TwoGroups == {g1, g2}
RequestSymmetry == Permutations(Groups)

OneInventory == {1}
TwoInventories == {1, 2}

Quantity(n) == [i \in Inventories |-> n]
MCQuantity1 == Quantity(1)
MCQuantity2 == Quantity(2)

\* Every order takes one unit of everything.
UnitDemands == {[i \in Inventories |-> 1]}

OneKey == {k1}
TwoKeys == {k1, k2}
SameKey == [g \in Groups |-> k1]
OwnKey == [g \in Groups |-> IF g = g1 THEN k1 ELSE k2]
=============================================================================
