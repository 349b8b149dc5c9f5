------------------------ MODULE Reservations_proofs -------------------------
(***************************************************************************)
(* Machine-checked proofs about Reservations, for any finite set of groups *)
(* and inventories, any stock and demands, any number of overlapping       *)
(* fulfillment runs and any bound on the clock.                            *)
(***************************************************************************)
EXTENDS Reservations, FiniteSetTheorems, TLAPS

-----------------------------------------------------------------------------
(* Lemmas on the smallest item of the loops.                               *)

LEMMA LeastOfNaturals ==
    ASSUME NEW S, S \subseteq Nat, S # {}
    PROVE  /\ Least(S) \in S
           /\ \A j \in S : Least(S) <= j
<1>1. PICK x \in S : \A y \in S : ~(<<y, x>> \in OpToRel(<, Nat))
  BY WFMin, NatLessThanWellFounded, Zenon
<1>2. \A y \in S : x <= y
  <2> SUFFICES ASSUME NEW y \in S PROVE x <= y
    OBVIOUS
  <2>1. <<y, x>> \in Nat \X Nat
    OBVIOUS
  <2>2. ~(y < x)
    BY <1>1, <2>1 DEF OpToRel
  <2> QED
    BY <2>2
<1> QED
  BY <1>2 DEF Least

LEMMA LeastItem ==
    ASSUME NEW S \in SUBSET Inventories, S # {}
    PROVE  Least(S) \in Inventories /\ Least(S) \in S
BY LeastOfNaturals, FiniteAssumption

-----------------------------------------------------------------------------
(* Lemmas on sums of quantities.                                           *)

DemandOK == demand \in [Groups -> Demands]

LEMMA DemandType ==
    ASSUME DemandOK
    PROVE  \A g \in Groups, i \in Inventories : demand[g][i] \in 0 .. MaxQuantity
BY QuantityAssumption DEF DemandOK

LEMMA UnitsFinite ==
    ASSUME DemandOK, NEW S, NEW i
    PROVE  IsFiniteSet(Units(S, i))
<1>1. IsFiniteSet(1 .. MaxQuantity)
  BY FS_Interval, QuantityAssumption
<1>2. IsFiniteSet(Groups \X (1 .. MaxQuantity))
  BY <1>1, FS_Product, FiniteAssumption
<1>3. Units(S, i) \in SUBSET (Groups \X (1 .. MaxQuantity))
  BY DEF Units
<1> QED
  BY <1>2, <1>3, FS_Subset

LEMMA SumType ==
    ASSUME DemandOK, NEW S, NEW i
    PROVE  SumQuantity(S, i) \in Nat
BY UnitsFinite, FS_CardinalityType DEF SumQuantity

LEMMA SumMonotone ==
    ASSUME DemandOK, NEW T, NEW S \in SUBSET T, NEW i
    PROVE  SumQuantity(S, i) <= SumQuantity(T, i)
<1>1. Units(S, i) \in SUBSET Units(T, i)
  BY DEF Units
<1> QED
  BY <1>1, UnitsFinite, FS_Subset DEF SumQuantity

LEMMA SumOfUnion ==
    ASSUME DemandOK, NEW S, NEW T, NEW i
    PROVE  /\ SumQuantity(S \cup T, i) <= SumQuantity(S, i) + SumQuantity(T, i)
           /\ S \cap T = {} => SumQuantity(S \cup T, i)
                                 = SumQuantity(S, i) + SumQuantity(T, i)
<1>1. Units(S \cup T, i) = Units(S, i) \cup Units(T, i)
  BY DEF Units
<1>2. SumQuantity(S \cup T, i) = SumQuantity(S, i) + SumQuantity(T, i)
                                   - Cardinality(Units(S, i) \cap Units(T, i))
  BY <1>1, UnitsFinite, FS_Union DEF SumQuantity
<1>3. IsFiniteSet(Units(S, i) \cap Units(T, i))
  BY UnitsFinite, FS_Intersection
<1>4. Cardinality(Units(S, i) \cap Units(T, i)) \in Nat
  BY <1>3, FS_CardinalityType
<1>5. ASSUME S \cap T = {}
      PROVE  Cardinality(Units(S, i) \cap Units(T, i)) = 0
  <2>1. Units(S, i) \cap Units(T, i) = {}
    BY <1>5 DEF Units
  <2> QED
    BY <2>1, FS_EmptySet
<1> QED
  BY <1>2, <1>4, <1>5, SumType

LEMMA SumOfOne ==
    ASSUME DemandOK, NEW g \in Groups, NEW i \in Inventories
    PROVE  SumQuantity({g}, i) = demand[g][i]
<1> DEFINE d == demand[g][i]
<1>1. d \in 0 .. MaxQuantity
  BY DemandType
<1>2. Units({g}, i) = {g} \X (1 .. d)
  BY <1>1, QuantityAssumption DEF Units
<1>3. IsFiniteSet({g}) /\ Cardinality({g}) = 1
  BY FS_Singleton
<1>4. d \in Nat
  BY <1>1, QuantityAssumption
<1> HIDE DEF d
<1>5. IsFiniteSet(1 .. d) /\ Cardinality(1 .. d) = d
  <2>1. IsFiniteSet(1 .. d) /\ Cardinality(1 .. d) = IF 1 > d THEN 0 ELSE d - 1 + 1
    BY <1>4, FS_Interval
  <2> QED
    BY <1>4, <2>1
<1>6. Cardinality({g} \X (1 .. d)) = Cardinality({g}) * Cardinality(1 .. d)
  BY <1>3, <1>5, FS_Product, Zenon
<1>7. Cardinality({g} \X (1 .. d)) = d
  BY <1>3, <1>4, <1>5, <1>6
<1>8. SumQuantity({g}, i) = d
  BY <1>2, <1>7, Zenon DEF SumQuantity
<1> QED
  BY <1>8 DEF d

LEMMA SumOfNone ==
    ASSUME NEW i
    PROVE  SumQuantity({}, i) = 0
<1>1. Units({}, i) = {}
  BY DEF Units
<1> QED
  BY <1>1, FS_EmptySet DEF SumQuantity

\* A fact of bookkeeping: what a set and the rest of it sum up to.
LEMMA SumOfParts ==
    ASSUME DemandOK, NEW T, NEW S \in SUBSET T, NEW i
    PROVE  SumQuantity(T, i) = SumQuantity(S, i) + SumQuantity(T \ S, i)
<1>1. T = S \cup (T \ S) /\ S \cap (T \ S) = {}
  OBVIOUS
<1> QED
  BY <1>1, SumOfUnion

-----------------------------------------------------------------------------
(* The part of the invariant about control: types, the loop over the       *)
(* items, the lock, and where the rows of the history variables stand.     *)

ControlInv ==
    /\ TypeOK
    /\ \A g \in Groups : txNow[g] <= now
    /\ LoopTodo
    /\ LockHeld
    /\ LateRowsSettled
    /\ ShippedRowsReleased

LEMMA ControlInit == Init => ControlInv
<1> SUFFICES ASSUME Init PROVE ControlInv
  OBVIOUS
<1>1. TypeOK
  BY QuantityAssumption DEF Init, TypeOK, Stages, RowStatus
<1> QED
  BY <1>1 DEF Init, ControlInv, LoopTodo, LockHeld, LateRowsSettled,
     ShippedRowsReleased

\* The item a loop works on is one of its order.
LEMMA CurrentItem ==
    ASSUME ControlInv, NEW g \in Groups,
           stage[g] \in {"next", "begun", "locked", "checked"}
    PROVE  Least(todo[g]) \in Inventories /\ Least(todo[g]) \in todo[g]
BY LeastItem DEF ControlInv, TypeOK, LoopTodo

LEMMA RollBackControl ==
    ASSUME ControlInv, NEW g \in Groups, RollBack(g), stage[g] # "idle"
    PROVE  ControlInv'
<1> USE DEF ControlInv, RollBack, rowVars, stockVars, runVars
<1>1. TypeOK'
  BY DEF TypeOK, Stages
<1>2. LoopTodo'
  BY DEF LoopTodo, TypeOK
<1>3. LockHeld'
  BY LeastItem DEF LockHeld, LoopTodo, TypeOK
<1>4. LateRowsSettled' /\ ShippedRowsReleased'
  BY DEF LateRowsSettled, ShippedRowsReleased
<1> QED
  BY <1>1, <1>2, <1>3, <1>4

LEMMA StopRunControl ==
    ASSUME ControlInv, NEW w \in FulfillRuns, StopRun(w)
    PROVE  ControlInv'
<1> USE DEF ControlInv, StopRun, rowVars, txVars, stockVars
<1>1. TypeOK'
  BY DEF TypeOK
<1> QED
  BY <1>1 DEF LoopTodo, LockHeld, LateRowsSettled, ShippedRowsReleased

LEMMA ControlStep ==
    ASSUME ControlInv, [Next]_vars
    PROVE  ControlInv'
<1> USE DEF ControlInv
<1> demand \in [Groups -> Demands] /\ status \in [Groups -> [Inventories -> RowStatus]]
  BY DEF TypeOK
<1>1. ASSUME NEW g \in Groups, CreateReservations(g)
      PROVE  ControlInv'
  <2> USE <1>1 DEF CreateReservations, stockVars, runVars
  <2>1. todo'[g] # {}
    BY QuantityAssumption DEF TypeOK
  <2>2. TypeOK'
    BY BoundAssumption DEF TypeOK, Stages
  <2>3. LoopTodo'
    BY <2>1 DEF LoopTodo, TypeOK
  <2>4. LockHeld'
    BY DEF LockHeld, TypeOK
  <2> QED
    BY <2>2, <2>3, <2>4 DEF LateRowsSettled, ShippedRowsReleased
<1>2. ASSUME NEW g \in Groups, BeginTransaction(g)
      PROVE  ControlInv'
  <2> USE <1>2 DEF BeginTransaction, rowVars, stockVars, runVars
  <2>1. TypeOK'
    BY DEF TypeOK, Stages
  <2>2. LoopTodo' /\ LockHeld'
    BY DEF LoopTodo, LockHeld, TypeOK
  <2>3. \A h \in Groups : txNow'[h] <= now'
    BY DEF TypeOK
  <2> QED
    BY <2>1, <2>2, <2>3 DEF LateRowsSettled, ShippedRowsReleased
<1>3. ASSUME NEW g \in Groups, LockForReservation(g)
      PROVE  ControlInv'
  <2> USE <1>3 DEF LockForReservation, AcquireLock, rowVars, stockVars, runVars
  <2>0. Least(todo[g]) \in Inventories
    BY CurrentItem
  <2>1. TypeOK'
    BY <2>0 DEF TypeOK, Stages
  <2>2. LoopTodo'
    BY DEF LoopTodo, TypeOK
  <2>3. LockHeld'
    BY <2>0, NoGroupAssumption DEF LockHeld, TypeOK
  <2> QED
    BY <2>1, <2>2, <2>3 DEF LateRowsSettled, ShippedRowsReleased
<1>4. ASSUME NEW g \in Groups, GetAvailable(g)
      PROVE  ControlInv'
  <2> USE <1>4 DEF GetAvailable, Available, rowVars, stockVars, runVars
  <2>0. Least(todo[g]) \in Inventories
    BY CurrentItem
  <2>1. quantity[Least(todo[g])] - SumQuantity(Held(Least(todo[g]), txNow[g]), Least(todo[g])) \in Int
    BY <2>0, SumType DEF DemandOK, TypeOK
  <2>2. TypeOK'
    BY <2>1 DEF TypeOK, Stages
  <2>3. LoopTodo' /\ LockHeld'
    BY DEF LoopTodo, LockHeld, TypeOK
  <2> QED
    BY <2>2, <2>3 DEF LateRowsSettled, ShippedRowsReleased
<1>5. ASSUME NEW g \in Groups, InsertReservation(g)
      PROVE  ControlInv'
  <2> DEFINE i == Least(todo[g])
  <2> USE <1>5 DEF InsertReservation, stockVars, runVars
  <2>0. i \in Inventories /\ i \in todo[g] /\ status[g][i] = "none"
    BY CurrentItem DEF LoopTodo
  <2>1. TypeOK'
    BY <2>0 DEF TypeOK, Stages, RowStatus
  <2>2. \A h \in Groups, j \in Inventories :
          status'[h][j] = IF h = g /\ j = i THEN "active" ELSE status[h][j]
    BY <2>0
  <2>3. LoopTodo'
    BY <2>0, <2>2 DEF LoopTodo, TypeOK
  <2>4. LockHeld'
    <3> SUFFICES ASSUME NEW h \in Groups, stage'[h] \in {"locked", "checked"}
                 PROVE  lockedBy'[Least(todo'[h])] = h
      BY DEF LockHeld
    <3>1. h # g /\ todo'[h] = todo[h] /\ stage'[h] = stage[h]
      BY DEF TypeOK
    <3>2. lockedBy[Least(todo[h])] = h /\ lockedBy[i] = g
      BY <3>1 DEF LockHeld
    <3> QED
      BY <3>1, <3>2 DEF TypeOK
  <2>5. LateRowsSettled' /\ ShippedRowsReleased'
    BY <2>0, <2>2 DEF LateRowsSettled, ShippedRowsReleased, TypeOK
  <2> QED
    BY <2>1, <2>3, <2>4, <2>5
<1>6. ASSUME NEW g \in Groups, InsufficientInventory(g)
      PROVE  ControlInv'
  BY <1>6, RollBackControl DEF InsufficientInventory
<1>7. ASSUME NEW g \in Groups, AbortReservation(g)
      PROVE  ControlInv'
  BY <1>7, RollBackControl DEF AbortReservation
<1>8. ASSUME NEW g \in Groups, ConfirmReservations(g)
      PROVE  ControlInv'
  <2> USE <1>8 DEF ConfirmReservations, txVars, stockVars, runVars
  <2>1. \A h \in Groups, j \in Inventories :
          status'[h][j] = IF h = g /\ status[h][j] = "active"
                          THEN "confirmed" ELSE status[h][j]
    BY DEF UpdateGroup
  <2>2. TypeOK'
    BY DEF TypeOK, UpdateGroup, RowStatus
  <2>3. LoopTodo' /\ LockHeld'
    BY <2>1 DEF LoopTodo, LockHeld, TypeOK
  <2>4. LateRowsSettled'
    <3> SUFFICES ASSUME NEW j \in Inventories, NEW h \in late'[j]
                 PROVE  status'[h][j] \in {"confirmed", "released"}
      BY DEF LateRowsSettled
    <3>1. h \in Groups /\ (h \in late[j] \/ (h = g /\ status[h][j] = "active"))
      BY DEF TypeOK
    <3> QED
      BY <2>1, <3>1 DEF LateRowsSettled
  <2>5. ShippedRowsReleased'
    BY <2>1 DEF ShippedRowsReleased, TypeOK
  <2> QED
    BY <2>2, <2>3, <2>4, <2>5
<1>9. ASSUME NEW g \in Groups, ReleaseReservations(g)
      PROVE  ControlInv'
  <2> USE <1>9 DEF ReleaseReservations, txVars, stockVars, runVars
  <2>1. \A h \in Groups, j \in Inventories :
          status'[h][j] = IF h = g /\ status[h][j] = "active"
                          THEN "released" ELSE status[h][j]
    BY DEF UpdateGroup
  <2>2. TypeOK'
    BY DEF TypeOK, UpdateGroup, RowStatus
  <2>3. LoopTodo' /\ LockHeld'
    <3>1. \A h \in Groups : \A j \in Inventories :
            status[h][j] = "none" => status'[h][j] = "none"
      BY <2>1
    <3> QED
      BY <3>1 DEF LoopTodo, LockHeld, TypeOK
  <2>4. LateRowsSettled'
    BY <2>1 DEF LateRowsSettled, TypeOK
  <2>5. ShippedRowsReleased'
    BY <2>1 DEF ShippedRowsReleased, TypeOK
  <2> QED
    BY <2>2, <2>3, <2>4, <2>5
<1>10. ASSUME ExpireReservations
       PROVE  ControlInv'
  <2> USE <1>10 DEF ExpireReservations, txVars, stockVars, runVars
  <2>1. \A h \in Groups, j \in Inventories :
          status'[h][j] = IF h \in Expired(j) THEN "released" ELSE status[h][j]
    OBVIOUS
  <2>2. \A h \in Groups, j \in Inventories :
          h \in Expired(j) => status[h][j] = "active"
    BY DEF Expired, InStatus
  <2>3. TypeOK'
    BY DEF TypeOK, RowStatus
  <2>4. LoopTodo' /\ LockHeld'
    <3>1. \A h \in Groups : \A j \in Inventories :
            status[h][j] = "none" => status'[h][j] = "none"
      BY <2>1, <2>2
    <3> QED
      BY <3>1 DEF LoopTodo, LockHeld, TypeOK
  <2>5. LateRowsSettled' /\ ShippedRowsReleased'
    BY <2>1, <2>2 DEF LateRowsSettled, ShippedRowsReleased, TypeOK
  <2> QED
    BY <2>3, <2>4, <2>5
<1>11. ASSUME NEW w \in FulfillRuns, StartFulfillment(w)
       PROVE  ControlInv'
  <2> USE <1>11 DEF StartFulfillment, FindConfirmedGrouped, rowVars, txVars, stockVars
  <2>1. TypeOK'
    BY DEF TypeOK, InStatus
  <2> QED
    BY <2>1 DEF LoopTodo, LockHeld, LateRowsSettled, ShippedRowsReleased
<1>12. ASSUME NEW w \in FulfillRuns, FulfillInventory(w)
       PROVE  ControlInv'
  <2> DEFINE i == Least(Pending(w))
             rows == batch[w][i]
             shipped == rows \cap InStatus("confirmed", i)
  <2>0. i \in Inventories
    <3>1. Pending(w) \in SUBSET Inventories /\ Pending(w) # {}
      BY <1>12 DEF FulfillInventory, DecrementQuantity, Releasable, Pending
    <3> QED
      BY <3>1, LeastItem
  <2>1. /\ SumQuantity(rows, i) \in Nat
        /\ SumQuantity(rows \ shipped, i) \in Nat
        /\ SumQuantity(rows, i) <= quantity[i]
        /\ quantity[i] \in Nat
    BY <1>12, <2>0, SumType DEF FulfillInventory, DecrementQuantity, Releasable, DemandOK, TypeOK
  <2>2. \A h \in Groups, j \in Inventories :
          status'[h][j] = IF h \in shipped /\ j = i THEN "released" ELSE status[h][j]
    BY <1>12, <2>0 DEF FulfillInventory, DecrementQuantity, Releasable
  <2>3. TypeOK'
    BY <1>12, <2>0, <2>1 DEF FulfillInventory, DecrementQuantity, Releasable, TypeOK, txVars, RowStatus
  <2>4. \A h \in Groups : h \in shipped => status[h][i] = "confirmed"
    BY DEF InStatus
  <2>5. LoopTodo' /\ LockHeld'
    BY <1>12, <2>0, <2>2, <2>4
    DEF FulfillInventory, DecrementQuantity, Releasable, LoopTodo, LockHeld, TypeOK, txVars
  <2>6. LateRowsSettled'
    BY <1>12, <2>0, <2>2, <2>4 DEF FulfillInventory, DecrementQuantity, Releasable, LateRowsSettled, TypeOK
  <2>7. ShippedRowsReleased'
    BY <1>12, <2>0, <2>2, <2>4 DEF FulfillInventory, DecrementQuantity, Releasable,
         ShippedRowsReleased, TypeOK
  <2> QED
    BY <1>12, <2>3, <2>5, <2>6, <2>7 DEF FulfillInventory, DecrementQuantity, Releasable, txVars
<1>13. ASSUME NEW w \in FulfillRuns,
              \/ FinishFulfillment(w)
              \/ FulfillmentRejected(w)
              \/ CrashFulfillment(w)
       PROVE  ControlInv'
  BY <1>13, StopRunControl DEF FinishFulfillment, FulfillmentRejected, CrashFulfillment
<1>14. ASSUME Tick
       PROVE  ControlInv'
  <2> USE <1>14 DEF Tick, rowVars, txVars, stockVars, runVars
  <2>1. TypeOK'
    BY DEF TypeOK
  <2>2. \A h \in Groups : txNow'[h] <= now'
    BY DEF TypeOK
  <2> QED
    BY <2>1, <2>2 DEF LoopTodo, LockHeld, LateRowsSettled, ShippedRowsReleased
<1>15. ASSUME UNCHANGED vars
       PROVE  ControlInv'
  BY <1>15 DEF vars, TypeOK, LoopTodo, LockHeld, LateRowsSettled, ShippedRowsReleased
<1> QED
  BY <1>1, <1>2, <1>3, <1>4, <1>5, <1>6, <1>7, <1>8, <1>9, <1>10, <1>11, <1>12,
     <1>13, <1>14, <1>15 DEF Next, Create, Fulfill

-----------------------------------------------------------------------------
(* The part about quantities.                                              *)

QuantityInv == CheckStillGood /\ OversellAccounted /\ StockConserved

\* What may count against inventory i: its stock, and what history excuses.
Ceiling(i) == quantity[i] + SumQuantity(late[i], i) + excess[i]

LEMMA CeilingType ==
    ASSUME ControlInv, NEW i \in Inventories
    PROVE  /\ quantity[i] \in Nat /\ excess[i] \in Nat
           /\ Ceiling(i) \in Nat
           /\ SumQuantity(fulfilled[i], i) \in Nat
           /\ \A S : SumQuantity(S, i) \in Nat
BY SumType DEF ControlInv, TypeOK, DemandOK, Ceiling

\* A sum over the new values of the rows, written with the old demands.
LEMMA SumAfter ==
    ASSUME UNCHANGED demand, NEW i
    PROVE  /\ SumQuantity(Held(i, now), i)' = SumQuantity(Held(i, now)', i)
           /\ SumQuantity(late[i], i)' = SumQuantity(late'[i], i)
           /\ SumQuantity(fulfilled[i], i)' = SumQuantity(fulfilled'[i], i)
BY DEF SumQuantity, Units

\* Whatever leaves the stock alone and lets no further row count preserves the
\* quantities, unless it performs the availability check.
LEMMA QuietStep ==
    ASSUME ControlInv, QuantityInv,
           UNCHANGED <<demand, quantity, late, fulfilled, excess>>,
           \A i \in Inventories : Held(i, now)' \subseteq Held(i, now),
           \A g \in Groups : stage'[g] = "checked" =>
               stage[g] = "checked" /\ todo'[g] = todo[g] /\ available'[g] = available[g]
    PROVE  QuantityInv'
<1>0. DemandOK
  BY DEF DemandOK, ControlInv, TypeOK
<1>1. ASSUME NEW i \in Inventories
      PROVE  /\ SumQuantity(Held(i, now), i)' \in Nat
             /\ SumQuantity(Held(i, now), i)' <= SumQuantity(Held(i, now), i)
             /\ SumQuantity(late[i], i)' = SumQuantity(late[i], i)
             /\ SumQuantity(fulfilled[i], i)' = SumQuantity(fulfilled[i], i)
  BY <1>0, <1>1, SumAfter, SumMonotone, SumType
<1>2. CheckStillGood'
  <2> SUFFICES ASSUME NEW g \in Groups, stage'[g] = "checked",
                      NEW i, i = Least(todo'[g])
               PROVE  available'[g] + SumQuantity(Held(i, now), i)'
                        <= quantity'[i] + SumQuantity(late[i], i)' + excess'[i]
    BY DEF CheckStillGood
  <2>1. /\ stage[g] = "checked" /\ i = Least(todo[g]) /\ available'[g] = available[g]
        /\ i \in Inventories
    BY CurrentItem
  <2>2. available[g] + SumQuantity(Held(i, now), i) <= Ceiling(i)
    BY <2>1 DEF QuantityInv, CheckStillGood, Ceiling
  <2>3. available[g] \in Int
    BY DEF ControlInv, TypeOK
  <2> QED
    BY <1>1, <2>1, <2>2, <2>3, CeilingType DEF Ceiling
<1>3. OversellAccounted'
  <2> SUFFICES ASSUME NEW i \in Inventories
               PROVE  SumQuantity(Held(i, now), i)'
                        <= quantity'[i] + SumQuantity(late[i], i)' + excess'[i]
    BY DEF OversellAccounted
  <2>1. SumQuantity(Held(i, now), i) <= Ceiling(i)
    BY DEF QuantityInv, OversellAccounted, Ceiling
  <2> QED
    BY <1>1, <2>1, CeilingType DEF Ceiling
<1>4. StockConserved'
  BY <1>1 DEF QuantityInv, StockConserved
<1> QED
  BY <1>2, <1>3, <1>4 DEF QuantityInv

LEMMA GetAvailableQuantity ==
    ASSUME ControlInv, QuantityInv, NEW g \in Groups, GetAvailable(g)
    PROVE  QuantityInv'
<1> DEFINE i == Least(todo[g])
<1> USE DEF GetAvailable, Available, rowVars, stockVars, runVars
<1>0. i \in Inventories /\ DemandOK
  BY CurrentItem DEF DemandOK, ControlInv, TypeOK
<1>1. \A j \in Inventories : Held(j, now)' = Held(j, now)
  BY DEF Held, Unexpired, InStatus
<1>2. \A j \in Inventories :
        /\ SumQuantity(Held(j, now), j)' = SumQuantity(Held(j, now), j)
        /\ SumQuantity(late[j], j)' = SumQuantity(late[j], j)
        /\ SumQuantity(fulfilled[j], j)' = SumQuantity(fulfilled[j], j)
  BY <1>1, SumAfter
<1>3. available'[g] + SumQuantity(Held(i, now), i) <= Ceiling(i)
  <2>1. Held(i, now) \in SUBSET Held(i, txNow[g])
    BY DEF Held, Unexpired, InStatus, ControlInv, TypeOK
  <2>2. SumQuantity(Held(i, now), i) <= SumQuantity(Held(i, txNow[g]), i)
    BY <1>0, <2>1, SumMonotone
  <2>3. available'[g] = quantity[i] - SumQuantity(Held(i, txNow[g]), i)
    BY DEF ControlInv, TypeOK
  <2>4. /\ quantity[i] \in Nat /\ excess[i] \in Nat
        /\ SumQuantity(late[i], i) \in Nat
        /\ SumQuantity(Held(i, now), i) \in Nat
        /\ SumQuantity(Held(i, txNow[g]), i) \in Nat
    BY <1>0, CeilingType
  <2> QED
    BY <2>2, <2>3, <2>4 DEF Ceiling
<1>4. CheckStillGood'
  <2> SUFFICES ASSUME NEW h \in Groups, stage'[h] = "checked",
                      NEW j, j = Least(todo[h])
               PROVE  available'[h] + SumQuantity(Held(j, now), j)'
                        <= quantity[j] + SumQuantity(late[j], j)' + excess[j]
    BY DEF CheckStillGood
  <2>1. CASE h = g
    BY <1>0, <1>2, <1>3, <2>1 DEF Ceiling
  <2>2. CASE h # g
    <3>1. stage[h] = "checked" /\ available'[h] = available[h]
      BY <2>2 DEF ControlInv, TypeOK
    <3>2. j \in Inventories
      BY <3>1, CurrentItem
    <3> QED
      BY <1>2, <3>1, <3>2 DEF QuantityInv, CheckStillGood
  <2> QED
    BY <2>1, <2>2
<1>5. OversellAccounted' /\ StockConserved'
  BY <1>2 DEF QuantityInv, OversellAccounted, StockConserved
<1> QED
  BY <1>4, <1>5 DEF QuantityInv

\* The insert uses up what the check found, and the lock keeps every other
\* check of the same inventory away.
LEMMA InsertQuantity ==
    ASSUME ControlInv, QuantityInv, NEW g \in Groups, InsertReservation(g)
    PROVE  QuantityInv'
<1> SUFFICES ASSUME NEW i, i = Least(todo[g])
             PROVE  QuantityInv'
  OBVIOUS
<1> USE DEF InsertReservation, stockVars, runVars
<1>0. i \in Inventories /\ DemandOK
  BY CurrentItem DEF DemandOK, ControlInv, TypeOK
<1>1. \A h \in Groups, j \in Inventories :
        status'[h][j] = IF h = g /\ j = i THEN "active" ELSE status[h][j]
  BY <1>0 DEF ControlInv, TypeOK
<1>2. \A j \in Inventories : j # i => Held(j, now)' = Held(j, now)
  BY <1>1 DEF Held, Unexpired, InStatus
<1>3. Held(i, now)' \in SUBSET (Held(i, now) \cup {g})
  BY <1>0, <1>1 DEF Held, Unexpired, InStatus
<1>4. \A j \in Inventories :
        /\ SumQuantity(late[j], j)' = SumQuantity(late[j], j)
        /\ SumQuantity(fulfilled[j], j)' = SumQuantity(fulfilled[j], j)
        /\ j # i => SumQuantity(Held(j, now), j)' = SumQuantity(Held(j, now), j)
  BY <1>2, SumAfter
<1>5. SumQuantity(Held(i, now), i)' <= Ceiling(i)
  <2>1. SumQuantity(Held(i, now)', i) <= SumQuantity(Held(i, now) \cup {g}, i)
    BY <1>0, <1>3, SumMonotone
  <2>2. SumQuantity(Held(i, now) \cup {g}, i)
          <= SumQuantity(Held(i, now), i) + demand[g][i]
    <3>1. SumQuantity(Held(i, now) \cup {g}, i)
            <= SumQuantity(Held(i, now), i) + SumQuantity({g}, i)
      BY <1>0, SumOfUnion
    <3> QED
      BY <1>0, <3>1, SumOfOne
  <2>3. available[g] + SumQuantity(Held(i, now), i) <= Ceiling(i)
    BY DEF QuantityInv, CheckStillGood, Ceiling
  <2>4. demand[g][i] <= available[g]
    OBVIOUS
  <2>5. /\ SumQuantity(Held(i, now)', i) \in Nat
        /\ SumQuantity(Held(i, now) \cup {g}, i) \in Nat
        /\ SumQuantity(Held(i, now), i) \in Nat
        /\ Ceiling(i) \in Nat
    BY <1>0, CeilingType
  <2>6. demand[g][i] \in Int /\ available[g] \in Int
    BY <1>0, DemandType, QuantityAssumption DEF ControlInv, TypeOK
  <2>7. SumQuantity(Held(i, now), i)' = SumQuantity(Held(i, now)', i)
    BY SumAfter
  <2> QED
    BY <2>1, <2>2, <2>3, <2>4, <2>5, <2>6, <2>7
<1>6. CheckStillGood'
  <2> SUFFICES ASSUME NEW h \in Groups, stage'[h] = "checked",
                      NEW j, j = Least(todo'[h])
               PROVE  available[h] + SumQuantity(Held(j, now), j)'
                        <= quantity[j] + SumQuantity(late[j], j)' + excess[j]
    BY DEF CheckStillGood
  <2>1. h # g /\ stage[h] = "checked" /\ j = Least(todo[h])
    BY DEF ControlInv, TypeOK
  <2>2. j \in Inventories
    BY <2>1, CurrentItem
  <2>3. lockedBy[j] = h /\ lockedBy[i] = g
    BY <2>1 DEF ControlInv, LockHeld
  <2>4. j # i
    BY <2>1, <2>3
  <2> QED
    BY <1>4, <2>1, <2>2, <2>4 DEF QuantityInv, CheckStillGood
<1>7. OversellAccounted'
  <2> SUFFICES ASSUME NEW j \in Inventories
               PROVE  SumQuantity(Held(j, now), j)'
                        <= quantity[j] + SumQuantity(late[j], j)' + excess[j]
    BY DEF OversellAccounted
  <2>1. CASE j = i
    BY <1>4, <1>5, <2>1 DEF Ceiling
  <2>2. CASE j # i
    BY <1>4, <2>2 DEF QuantityInv, OversellAccounted
  <2> QED
    BY <2>1, <2>2
<1>8. StockConserved'
  BY <1>4 DEF QuantityInv, StockConserved
<1> QED
  BY <1>6, <1>7, <1>8 DEF QuantityInv

\* A confirmation of rows that still count changes nothing; one of rows that
\* had lapsed raises what counts and what history excuses by the same amount.
LEMMA ConfirmQuantity ==
    ASSUME ControlInv, QuantityInv, NEW g \in Groups, ConfirmReservations(g)
    PROVE  QuantityInv'
<1> USE DEF ConfirmReservations, txVars, stockVars, runVars
<1>0. DemandOK
  BY DEF DemandOK, ControlInv, TypeOK
<1>1. \A h \in Groups, j \in Inventories :
        status'[h][j] = IF h = g /\ status[h][j] = "active"
                        THEN "confirmed" ELSE status[h][j]
  BY DEF UpdateGroup, ControlInv, TypeOK
<1>2. ASSUME NEW j \in Inventories
      PROVE  /\ SumQuantity(Held(j, now), j)' - SumQuantity(late[j], j)'
                   <= SumQuantity(Held(j, now), j) - SumQuantity(late[j], j)
             /\ SumQuantity(Held(j, now), j)' \in Nat
             /\ SumQuantity(late[j], j)' \in Nat
  <2>0. /\ SumQuantity(Held(j, now), j)' = SumQuantity(Held(j, now)', j)
        /\ SumQuantity(late[j], j)' = SumQuantity(late'[j], j)
        /\ \A S : SumQuantity(S, j) \in Nat
    BY <1>0, SumAfter, SumType
  <2>1. CASE status[g][j] = "active" /\ expiresAt[g] <= now
    <3>1. late'[j] = late[j] \cup {g}
      BY <1>2, <2>1 DEF ControlInv, TypeOK
    <3>2. late[j] \cap {g} = {}
      BY <1>2, <2>1 DEF ControlInv, LateRowsSettled
    <3>3. Held(j, now)' \in SUBSET (Held(j, now) \cup {g})
      BY <1>1, <1>2 DEF Held, Unexpired, InStatus
    <3>4. SumQuantity(late'[j], j) = SumQuantity(late[j], j) + SumQuantity({g}, j)
      BY <1>0, <3>1, <3>2, SumOfUnion
    <3>5. SumQuantity(Held(j, now)', j) <= SumQuantity(Held(j, now) \cup {g}, j)
      BY <1>0, <3>3, SumMonotone
    <3>6. SumQuantity(Held(j, now) \cup {g}, j)
            <= SumQuantity(Held(j, now), j) + SumQuantity({g}, j)
      BY <1>0, SumOfUnion
    <3> HIDE DEF ConfirmReservations
    <3> QED
      BY <2>0, <3>4, <3>5, <3>6
  <2>2. CASE ~(status[g][j] = "active" /\ expiresAt[g] <= now)
    <3>1. late'[j] = late[j]
      BY <1>2, <2>2 DEF ControlInv, TypeOK
    <3>2. Held(j, now)' \in SUBSET Held(j, now)
      BY <1>1, <1>2, <2>2 DEF Held, Unexpired, InStatus, ControlInv, TypeOK
    <3> QED
      BY <1>0, <2>0, <3>1, <3>2, SumMonotone
  <2> QED
    BY <2>1, <2>2
<1>3. CheckStillGood'
  <2> SUFFICES ASSUME NEW h \in Groups, stage[h] = "checked",
                      NEW j, j = Least(todo[h])
               PROVE  available[h] + SumQuantity(Held(j, now), j)'
                        <= quantity[j] + SumQuantity(late[j], j)' + excess[j]
    BY DEF CheckStillGood
  <2>1. j \in Inventories
    BY CurrentItem
  <2>2. available[h] + SumQuantity(Held(j, now), j)
          <= quantity[j] + SumQuantity(late[j], j) + excess[j]
    BY DEF QuantityInv, CheckStillGood
  <2>3. available[h] \in Int
    BY DEF ControlInv, TypeOK
  <2> HIDE DEF ConfirmReservations
  <2> QED
    BY <1>2, <2>1, <2>2, <2>3, CeilingType
<1>4. OversellAccounted'
  <2> SUFFICES ASSUME NEW j \in Inventories
               PROVE  SumQuantity(Held(j, now), j)'
                        <= quantity[j] + SumQuantity(late[j], j)' + excess[j]
    BY DEF OversellAccounted
  <2>1. SumQuantity(Held(j, now), j) <= quantity[j] + SumQuantity(late[j], j) + excess[j]
    BY DEF QuantityInv, OversellAccounted
  <2> HIDE DEF ConfirmReservations
  <2> QED
    BY <1>2, <2>1, CeilingType
<1>5. StockConserved'
  BY SumAfter DEF QuantityInv, StockConserved
<1> QED
  BY <1>3, <1>4, <1>5 DEF QuantityInv

\* The loop of fulfillReservations takes the sum it read off the stock; of the
\* rows it read, those still confirmed stop counting and the others are excess.
LEMMA FulfillQuantity ==
    ASSUME ControlInv, QuantityInv, NEW w \in FulfillRuns, FulfillInventory(w)
    PROVE  QuantityInv'
<1> SUFFICES ASSUME NEW i, i = Least(Pending(w)),
                    NEW rows, rows = batch[w][i],
                    NEW shipped, shipped = rows \cap InStatus("confirmed", i)
             PROVE  QuantityInv'
  OBVIOUS
<1>0. DemandOK /\ i \in Inventories
  <2>1. Pending(w) \in SUBSET Inventories /\ Pending(w) # {}
    BY DEF FulfillInventory, DecrementQuantity, Releasable, Pending
  <2> QED
    BY <2>1, LeastItem DEF DemandOK, ControlInv, TypeOK
<1>1. /\ SumQuantity(rows, i) <= quantity[i]
      /\ quantity' = [quantity EXCEPT ![i] = @ - SumQuantity(rows, i)]
      /\ status' = [g \in Groups |-> IF g \in shipped
                                     THEN [status[g] EXCEPT ![i] = "released"]
                                     ELSE status[g]]
      /\ fulfilled' = [fulfilled EXCEPT ![i] = @ \cup shipped]
      /\ excess' = [excess EXCEPT ![i] = @ + SumQuantity(rows \ shipped, i)]
      /\ UNCHANGED <<demand, expiresAt, now, stage, late, todo, available>>
  BY DEF FulfillInventory, DecrementQuantity, Releasable, txVars
<1>2. SumQuantity(rows, i) = SumQuantity(shipped, i) + SumQuantity(rows \ shipped, i)
  BY <1>0, SumOfParts
<1>3. \A S, j : SumQuantity(S, j) \in Nat
  BY <1>0, SumType
<1>4. \A j \in Inventories :
        /\ SumQuantity(Held(j, now), j)' = SumQuantity(Held(j, now)', j)
        /\ SumQuantity(late[j], j)' = SumQuantity(late[j], j)
        /\ SumQuantity(fulfilled[j], j)' = SumQuantity(fulfilled'[j], j)
  BY <1>1, SumAfter
<1>5. /\ quantity'[i] = quantity[i] - SumQuantity(rows, i)
      /\ excess'[i] = excess[i] + SumQuantity(rows \ shipped, i)
      /\ fulfilled'[i] = fulfilled[i] \cup shipped
      /\ \A j \in Inventories : j # i =>
           quantity'[j] = quantity[j] /\ excess'[j] = excess[j] /\ fulfilled'[j] = fulfilled[j]
  BY <1>0, <1>1 DEF ControlInv, TypeOK
<1>6. \A g \in Groups, j \in Inventories :
        status'[g][j] = IF g \in shipped /\ j = i THEN "released" ELSE status[g][j]
  BY <1>0, <1>1 DEF ControlInv, TypeOK
<1>7. SumQuantity(Held(i, now)', i) = SumQuantity(Held(i, now), i) - SumQuantity(shipped, i)
  <2>1. shipped \in SUBSET Held(i, now)
    BY DEF Held
  <2>2. Held(i, now)' = Held(i, now) \ shipped
    BY <1>0, <1>1, <1>6 DEF Held, Unexpired, InStatus
  <2>3. SumQuantity(Held(i, now), i)
          = SumQuantity(shipped, i) + SumQuantity(Held(i, now) \ shipped, i)
    BY <1>0, <2>1, SumOfParts
  <2> QED
    BY <1>3, <2>2, <2>3
<1>8. \A j \in Inventories : j # i => Held(j, now)' = Held(j, now)
  BY <1>1, <1>6 DEF Held, Unexpired, InStatus
<1>9. SumQuantity(fulfilled'[i], i) = SumQuantity(fulfilled[i], i) + SumQuantity(shipped, i)
  <2>1. fulfilled[i] \cap shipped = {}
    BY <1>0 DEF ControlInv, ShippedRowsReleased, InStatus
  <2> QED
    BY <1>0, <1>5, <2>1, SumOfUnion
\* On every inventory, what may count falls by no more than what does count.
<1>10. ASSUME NEW j \in Inventories
       PROVE  /\ SumQuantity(Held(j, now), j)' - quantity'[j] - excess'[j]
                    = SumQuantity(Held(j, now), j) - quantity[j] - excess[j]
              /\ SumQuantity(Held(j, now), j)' \in Nat
              /\ quantity'[j] \in Int /\ excess'[j] \in Int
  <2>1. quantity[j] \in Nat /\ excess[j] \in Nat
    BY CeilingType
  <2>2. CASE j = i
    BY <1>2, <1>3, <1>4, <1>5, <1>7, <2>1, <2>2
  <2>3. CASE j # i
    BY <1>3, <1>4, <1>5, <1>8, <2>1, <2>3
  <2> QED
    BY <2>2, <2>3
<1>11. CheckStillGood'
  <2> SUFFICES ASSUME NEW h \in Groups, stage[h] = "checked",
                      NEW j, j = Least(todo[h])
               PROVE  available[h] + SumQuantity(Held(j, now), j)'
                        <= quantity'[j] + SumQuantity(late[j], j)' + excess'[j]
    BY <1>1 DEF CheckStillGood
  <2>1. j \in Inventories
    BY CurrentItem
  <2>2. available[h] + SumQuantity(Held(j, now), j)
          <= quantity[j] + SumQuantity(late[j], j) + excess[j]
    BY DEF QuantityInv, CheckStillGood
  <2>3. available[h] \in Int
    BY DEF ControlInv, TypeOK
  <2> QED
    BY <1>3, <1>4, <1>10, <2>1, <2>2, <2>3, CeilingType
<1>12. OversellAccounted'
  <2> SUFFICES ASSUME NEW j \in Inventories
               PROVE  SumQuantity(Held(j, now), j)'
                        <= quantity'[j] + SumQuantity(late[j], j)' + excess'[j]
    BY DEF OversellAccounted
  <2>1. SumQuantity(Held(j, now), j) <= quantity[j] + SumQuantity(late[j], j) + excess[j]
    BY DEF QuantityInv, OversellAccounted
  <2> QED
    BY <1>3, <1>4, <1>10, <2>1, CeilingType
<1>13. StockConserved'
  <2> SUFFICES ASSUME NEW j \in Inventories
               PROVE  quantity'[j] + SumQuantity(fulfilled[j], j)' + excess'[j]
                        = InitialQuantity[j]
    BY DEF StockConserved
  <2>1. quantity[j] + SumQuantity(fulfilled[j], j) + excess[j] = InitialQuantity[j]
    BY DEF QuantityInv, StockConserved
  <2>2. /\ quantity[j] \in Nat /\ excess[j] \in Nat
        /\ SumQuantity(fulfilled[j], j)' = SumQuantity(fulfilled'[j], j)
    BY <1>4, CeilingType
  <2>3. CASE j = i
    <3>1. /\ SumQuantity(shipped, j) \in Nat /\ SumQuantity(rows \ shipped, j) \in Nat
          /\ SumQuantity(fulfilled[j], j) \in Nat
      BY <1>3
    <3>2. SumQuantity(rows, j) = SumQuantity(shipped, j) + SumQuantity(rows \ shipped, j)
      BY <1>2, <2>3
    <3>3. SumQuantity(fulfilled'[j], j) = SumQuantity(fulfilled[j], j) + SumQuantity(shipped, j)
      BY <1>9, <2>3
    <3>4. /\ quantity'[j] = quantity[j] - SumQuantity(rows, j)
          /\ excess'[j] = excess[j] + SumQuantity(rows \ shipped, j)
      BY <1>5, <2>3
    <3> QED
      BY <2>1, <2>2, <3>1, <3>2, <3>3, <3>4
  <2>4. CASE j # i
    <3>1. /\ quantity'[j] = quantity[j] /\ excess'[j] = excess[j]
          /\ fulfilled'[j] = fulfilled[j]
      BY <1>5, <2>4
    <3> QED
      BY <2>1, <2>2, <3>1
  <2> QED
    BY <2>3, <2>4
<1> QED
  BY <1>11, <1>12, <1>13 DEF QuantityInv

LEMMA QuantityStep ==
    ASSUME ControlInv, QuantityInv, [Next]_vars
    PROVE  QuantityInv'
<1> USE DEF rowVars, stockVars, txVars, runVars
<1>1. ASSUME NEW g \in Groups, CreateReservations(g)
      PROVE  QuantityInv'
  <2>1. \A i \in Inventories : Held(i, now)' \subseteq Held(i, now)
    BY <1>1 DEF CreateReservations, Held, Unexpired, InStatus, ControlInv, LoopTodo, TypeOK
  <2>2. \A h \in Groups : stage'[h] = "checked" =>
          stage[h] = "checked" /\ todo'[h] = todo[h] /\ available'[h] = available[h]
    BY <1>1 DEF CreateReservations, ControlInv, TypeOK
  <2> QED
    BY <1>1, <2>1, <2>2, QuietStep DEF CreateReservations
<1>2. ASSUME NEW g \in Groups, BeginTransaction(g) \/ LockForReservation(g)
      PROVE  QuantityInv'
  <2>1. \A i \in Inventories : Held(i, now)' \subseteq Held(i, now)
    BY <1>2 DEF BeginTransaction, LockForReservation, AcquireLock, Held, Unexpired, InStatus
  <2>2. \A h \in Groups : stage'[h] = "checked" =>
          stage[h] = "checked" /\ todo'[h] = todo[h] /\ available'[h] = available[h]
    BY <1>2 DEF BeginTransaction, LockForReservation, AcquireLock, ControlInv, TypeOK
  <2> QED
    BY <1>2, <2>1, <2>2, QuietStep DEF BeginTransaction, LockForReservation, AcquireLock
<1>3. ASSUME NEW g \in Groups, InsufficientInventory(g) \/ AbortReservation(g)
      PROVE  QuantityInv'
  <2>0. RollBack(g)
    BY <1>3 DEF InsufficientInventory, AbortReservation
  <2>1. \A i \in Inventories : Held(i, now)' \subseteq Held(i, now)
    BY <2>0 DEF RollBack, Held, Unexpired, InStatus
  <2>2. \A h \in Groups : stage'[h] = "checked" =>
          stage[h] = "checked" /\ todo'[h] = todo[h] /\ available'[h] = available[h]
    BY <2>0 DEF RollBack, ControlInv, TypeOK
  <2> QED
    BY <2>0, <2>1, <2>2, QuietStep DEF RollBack
<1>4. ASSUME NEW g \in Groups, ReleaseReservations(g)
      PROVE  QuantityInv'
  <2>1. \A h \in Groups, j \in Inventories :
          status'[h][j] = IF h = g /\ status[h][j] = "active"
                          THEN "released" ELSE status[h][j]
    BY <1>4 DEF ReleaseReservations, UpdateGroup, ControlInv, TypeOK
  <2>2. \A i \in Inventories : Held(i, now)' \subseteq Held(i, now)
    BY <1>4, <2>1 DEF ReleaseReservations, Held, Unexpired, InStatus
  <2> QED
    BY <1>4, <2>2, QuietStep DEF ReleaseReservations
<1>5. ASSUME ExpireReservations
      PROVE  QuantityInv'
  <2>1. \A h \in Groups, j \in Inventories :
          status'[h][j] = IF h \in Expired(j) THEN "released" ELSE status[h][j]
    BY <1>5 DEF ExpireReservations
  <2>2. \A i \in Inventories : Held(i, now)' \subseteq Held(i, now)
    BY <1>5, <2>1 DEF ExpireReservations, Held, Unexpired, InStatus
  <2> QED
    BY <1>5, <2>2, QuietStep DEF ExpireReservations
<1>6. ASSUME NEW w \in FulfillRuns,
             \/ StartFulfillment(w) \/ FinishFulfillment(w)
             \/ FulfillmentRejected(w) \/ CrashFulfillment(w)
      PROVE  QuantityInv'
  <2>0. UNCHANGED <<demand, now, stage, late, rowVars, txVars, stockVars>>
    BY <1>6 DEF StartFulfillment, FindConfirmedGrouped, FinishFulfillment, FulfillmentRejected,
       CrashFulfillment, StopRun
  <2>1. \A i \in Inventories : Held(i, now)' \subseteq Held(i, now)
    BY <2>0 DEF Held, Unexpired, InStatus
  <2> QED
    BY <2>0, <2>1, QuietStep
<1>7. ASSUME Tick
      PROVE  QuantityInv'
  <2>1. \A i \in Inventories : Held(i, now)' \subseteq Held(i, now)
    BY <1>7 DEF Tick, Held, Unexpired, InStatus, ControlInv, TypeOK
  <2> QED
    BY <1>7, <2>1, QuietStep DEF Tick
<1>8. ASSUME UNCHANGED vars
      PROVE  QuantityInv'
  <2>1. \A i \in Inventories : Held(i, now)' \subseteq Held(i, now)
    BY <1>8 DEF vars, Held, Unexpired, InStatus
  <2> QED
    BY <1>8, <2>1, QuietStep DEF vars
<1> QED
  BY <1>1, <1>2, <1>3, <1>4, <1>5, <1>6, <1>7, <1>8, GetAvailableQuantity,
     InsertQuantity, ConfirmQuantity, FulfillQuantity DEF Next, Create, Fulfill

-----------------------------------------------------------------------------
(* The theorems.                                                           *)

LEMMA QuantityInit == Init => QuantityInv
<1> SUFFICES ASSUME Init PROVE QuantityInv
  OBVIOUS
<1>1. ControlInv
  BY ControlInit
<1>2. CheckStillGood
  BY DEF Init, CheckStillGood
<1>3. ASSUME NEW i \in Inventories
      PROVE  /\ SumQuantity(Held(i, now), i) = 0
             /\ SumQuantity(late[i], i) = 0
             /\ SumQuantity(fulfilled[i], i) = 0
             /\ quantity[i] = InitialQuantity[i] /\ excess[i] = 0
  <2>1. Held(i, now) = {} /\ late[i] = {} /\ fulfilled[i] = {}
    BY <1>3 DEF Init, Held, Unexpired, InStatus
  <2> QED
    BY <1>3, <2>1, SumOfNone DEF Init
<1>4. InitialQuantity \in [Inventories -> Nat]
  BY QuantityAssumption
<1> QED
  BY <1>2, <1>3, <1>4 DEF QuantityInv, OversellAccounted, StockConserved

\* The inductive invariant holds in every state of every behaviour.
THEOREM ReservationInvariant == Spec => []ReservationInv
<1>1. Init => ControlInv /\ QuantityInv
  BY ControlInit, QuantityInit
<1>2. ControlInv /\ QuantityInv /\ [Next]_vars => (ControlInv /\ QuantityInv)'
  BY ControlStep, QuantityStep
<1>3. ControlInv /\ QuantityInv => ReservationInv
  BY DEF ControlInv, QuantityInv, ReservationInv
<1> QED
  BY <1>1, <1>2, <1>3, PTL DEF Spec

\* Every column keeps to its type and its CHECK constraint.
THEOREM TypeCorrect == Spec => []TypeOK
<1>1. ReservationInv => TypeOK
  BY DEF ReservationInv
<1> QED
  BY <1>1, ReservationInvariant, PTL

\* However createReservations, the confirmations, the releases and the jobs
\* interleave, stock is oversold by no more than late confirmations and units
\* shipped twice account for.
THEOREM OversellIsAccounted == Spec => []OversellAccounted
<1>1. ReservationInv => OversellAccounted
  BY DEF ReservationInv
<1> QED
  BY <1>1, ReservationInvariant, PTL

\* The stock, the units shipped and the units taken off in excess always add
\* up to the stock there was.
THEOREM StockIsConserved == Spec => []StockConserved
<1>1. ReservationInv => StockConserved
  BY DEF ReservationInv
<1> QED
  BY <1>1, ReservationInvariant, PTL
=============================================================================
