----------------------------- MODULE StockLedger -----------------------------
(***************************************************************************)
(* What the reservations promise of an inventory, said without rows,       *)
(* transactions, locks, clocks or jobs: four numbers and five steps.       *)
(*                                                                         *)
(* Units are reserved only while the stock covers them; what is reserved   *)
(* may be given back or sold; what is sold leaves the books only by being  *)
(* shipped.  The ledger may be overdrawn in two ways, and keeps a record   *)
(* of it in debt: units are sold that were not reserved any more, and      *)
(* units are shipped that were not sold.                                   *)
(***************************************************************************)
EXTENDS Integers

CONSTANTS
    Inventories,
    InitialStock,    \* units at the start, per inventory
    MaxUnits         \* the most units one reservation takes

VARIABLES
    stock,           \* units that have not been shipped
    reserved,        \* units set aside for orders that are not paid
    sold,            \* units of paid orders that have not been shipped
    debt             \* units by which the stock may be promised twice

vars == <<stock, reserved, sold, debt>>

Nothing == [i \in Inventories |-> 0]

Init ==
    /\ stock = InitialStock
    /\ reserved = Nothing
    /\ sold = Nothing
    /\ debt = Nothing

\* n more units of i are set aside, if the stock covers them.
Reserve(i, n) ==
    /\ reserved[i] + sold[i] + n <= stock[i] + debt[i]
    /\ reserved' = [reserved EXCEPT ![i] = @ + n]
    /\ UNCHANGED <<stock, sold, debt>>

\* Some of what is reserved is not any more.
GiveBack ==
    /\ reserved' \in [Inventories -> Nat]
    /\ \A i \in Inventories : reserved'[i] <= reserved[i]
    /\ UNCHANGED <<stock, sold, debt>>

\* Some of what is reserved is sold.
Sell ==
    /\ reserved' \in [Inventories -> Nat]
    /\ sold' \in [Inventories -> Nat]
    /\ \A i \in Inventories :
         /\ reserved'[i] <= reserved[i]
         /\ reserved'[i] + sold'[i] = reserved[i] + sold[i]
    /\ UNCHANGED <<stock, debt>>

\* Units are sold that are not reserved, on credit.
Overdraw ==
    /\ sold' \in [Inventories -> Nat]
    /\ debt' \in [Inventories -> Nat]
    /\ \A i \in Inventories :
         /\ sold[i] <= sold'[i]
         /\ sold'[i] - sold[i] = debt'[i] - debt[i]
    /\ UNCHANGED <<stock, reserved>>

\* n units of i leave the stock, s of them sold.
Ship(i, n, s) ==
    /\ s <= sold[i]
    /\ stock' = [stock EXCEPT ![i] = @ - n]
    /\ sold' = [sold EXCEPT ![i] = @ - s]
    /\ debt' = [debt EXCEPT ![i] = @ + (n - s)]
    /\ UNCHANGED reserved

Next ==
    \/ GiveBack
    \/ \E i \in Inventories : \E n \in 0 .. MaxUnits : Reserve(i, n)
    \/ Sell
    \/ Overdraw
    \/ \E i \in Inventories : \E n \in 0 .. stock[i] : \E s \in 0 .. n : Ship(i, n, s)

Spec == Init /\ [][Next]_vars

-----------------------------------------------------------------------------
TypeOK ==
    /\ stock \in [Inventories -> Nat]
    /\ reserved \in [Inventories -> Nat]
    /\ sold \in [Inventories -> Nat]
    /\ debt \in [Inventories -> Nat]

\* The promise of createReservations: what is promised is there, up to the
\* recorded debt.
Covered == \A i \in Inventories : reserved[i] + sold[i] <= stock[i] + debt[i]
=============================================================================
