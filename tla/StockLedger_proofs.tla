-------------------------- MODULE StockLedger_proofs --------------------------
(***************************************************************************)
(* What the ledger promises, proved of the ledger alone, for every stock,  *)
(* every set of inventories and every size of an order.                    *)
(***************************************************************************)
EXTENDS StockLedger, TLAPS

LEMMA LedgerStepTypes ==
    ASSUME TypeOK, [Next]_vars
    PROVE  TypeOK'
<1>1. ASSUME NEW i \in Inventories, NEW n \in 0 .. MaxUnits, Reserve(i, n)
      PROVE  TypeOK'
  BY <1>1 DEF TypeOK, Reserve
<1>2. ASSUME NEW i \in Inventories, NEW n \in 0 .. stock[i], NEW s \in 0 .. n,
             Ship(i, n, s)
      PROVE  TypeOK'
  BY <1>2 DEF TypeOK, Ship
<1>3. CASE GiveBack \/ Sell \/ Overdraw \/ UNCHANGED vars
  BY <1>3 DEF TypeOK, GiveBack, Sell, Overdraw, vars
<1> QED
  BY <1>1, <1>2, <1>3 DEF Next

LEMMA LedgerStepCovered ==
    ASSUME TypeOK, TypeOK', Covered, [Next]_vars
    PROVE  Covered'
<1> SUFFICES ASSUME NEW j \in Inventories
             PROVE  reserved'[j] + sold'[j] <= stock'[j] + debt'[j]
  BY DEF Covered
<1>1. reserved[j] + sold[j] <= stock[j] + debt[j]
  BY DEF Covered
<1>2. /\ stock[j] \in Nat /\ reserved[j] \in Nat /\ sold[j] \in Nat /\ debt[j] \in Nat
      /\ stock'[j] \in Nat /\ reserved'[j] \in Nat /\ sold'[j] \in Nat /\ debt'[j] \in Nat
  BY DEF TypeOK
<1>3. ASSUME NEW i \in Inventories, NEW n \in 0 .. MaxUnits, Reserve(i, n)
      PROVE  reserved'[j] + sold'[j] <= stock'[j] + debt'[j]
  BY <1>1, <1>2, <1>3 DEF TypeOK, Reserve
<1>4. ASSUME NEW i \in Inventories, NEW n \in 0 .. stock[i], NEW s \in 0 .. n,
             Ship(i, n, s)
      PROVE  reserved'[j] + sold'[j] <= stock'[j] + debt'[j]
  BY <1>1, <1>2, <1>4 DEF TypeOK, Ship
<1>5. CASE GiveBack \/ Sell \/ Overdraw \/ UNCHANGED vars
  BY <1>1, <1>2, <1>5 DEF GiveBack, Sell, Overdraw, vars
<1> QED
  BY <1>3, <1>4, <1>5 DEF Next

\* The promise createReservations makes, as the ledger keeps it: what is set
\* aside and what is sold is there, up to the debt on record.
THEOREM LedgerIsCovered ==
    ASSUME InitialStock \in [Inventories -> Nat]
    PROVE  Spec => []Covered
<1>1. Init => TypeOK /\ Covered
  BY DEF Init, TypeOK, Covered, Nothing
<1>2. TypeOK /\ Covered /\ [Next]_vars => (TypeOK /\ Covered)'
  BY LedgerStepTypes, LedgerStepCovered
<1> QED
  BY <1>1, <1>2, PTL DEF Spec
=============================================================================
