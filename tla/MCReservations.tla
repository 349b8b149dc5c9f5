--------------------------- MODULE MCReservations ---------------------------
(***************************************************************************)
(* Small instances of Reservations for TLC.                                *)
(***************************************************************************)
EXTENDS Reservations, TLC

CONSTANTS g1, g2, g3

MCGroups2 == {g1, g2}
MCGroups3 == {g1, g2, g3}
GroupSymmetry == Permutations(Groups)

OneInventory == {1}
TwoInventories == {1, 2}

Quantity(n) == [i \in Inventories |-> n]
MCQuantity1 == Quantity(1)
MCQuantity2 == Quantity(2)

\* Orders of one or two units of a single inventory.
SingleDemands == {[i \in Inventories |-> n] : n \in 1 .. MaxQuantity}
\* Orders of one inventory or of both, at most one unit each.
PairDemands == {d \in [Inventories -> 0 .. 1] : \E i \in Inventories : d[i] > 0}
=============================================================================
