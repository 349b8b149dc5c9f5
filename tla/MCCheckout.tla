------------------------------ MODULE MCCheckout ------------------------------
(***************************************************************************)
(* Small instance of Checkout for TLC: a warehouse that stocks nothing and *)
(* is the closest, a near and a far one; a catalogue with a tax code the   *)
(* gateway does not know, and a product that is not in it.                 *)
(***************************************************************************)
EXTENDS Checkout

CONSTANTS bare, near, far, none, apples, keyboard, ghost

MCWarehouses == {bare, near, far}
MCDistance == [w \in Warehouses |-> CASE w = bare -> 0 [] w = near -> 1 [] w = far -> 2]
MCProducts == {apples, keyboard}
MCStocked == {near, far} \X Products
Standard == [price |-> 5, taxCode |-> "STANDARD"]
Unknown == [price |-> 5, taxCode |-> "IMPORT"]
Electronics == [price |-> 15, taxCode |-> "ELECTRONICS"]
MCEntries == {Standard, Unknown, Electronics}
MCInitialCatalogs == {[p \in Products |-> IF p = apples THEN Standard ELSE Electronics]}
MCTaxRates == [c \in {"STANDARD", "ELECTRONICS"} |-> IF c = "STANDARD" THEN 10 ELSE 21]

Item(p, n) == [product |-> p, quantity |-> n]
MCBodies == {<<Item(apples, 1), Item(keyboard, 2)>>,
             <<Item(apples, 1), Item(apples, 1)>>,
             <<Item(keyboard, 2), Item(ghost, 1)>>,
             <<Item(apples, 0)>>,
             << >>}
=============================================================================
