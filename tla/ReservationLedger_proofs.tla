----------------------- MODULE ReservationLedger_proofs -----------------------
(***************************************************************************)
(* Reservations implements StockLedger: the refinement, for any finite set *)
(* of groups and inventories, any stock and demands, and overlapping runs. *)
(***************************************************************************)
EXTENDS Reservations_proofs

-----------------------------------------------------------------------------
(* The numbers of the ledger.                                              *)

Reserved(i) == SumQuantity(Unexpired(i, now), i)
Sold(i) == SumQuantity(InStatus("confirmed", i), i)
Debt(i) == SumQuantity(late[i], i) + excess[i]

LEMMA LedgerNumbers ==
    ASSUME ControlInv, NEW i \in Inventories
    PROVE  /\ quantity[i] \in Nat /\ Reserved(i) \in Nat /\ Sold(i) \in Nat
           /\ Debt(i) \in Nat /\ excess[i] \in Nat
           /\ \A S : SumQuantity(S, i) \in Nat
BY CeilingType DEF Reserved, Sold, Debt

\* The new numbers, with the old demands.
LEMMA NumbersAfter ==
    ASSUME UNCHANGED demand, NEW i
    PROVE  /\ Reserved(i)' = SumQuantity(Unexpired(i, now)', i)
           /\ Sold(i)' = SumQuantity(InStatus("confirmed", i)', i)
           /\ Debt(i)' = SumQuantity(late'[i], i) + excess'[i]
BY DEF Reserved, Sold, Debt, SumQuantity, Units

\* What counts against an inventory is what is reserved and what is sold.
LEMMA HeldIsReservedAndSold ==
    ASSUME ControlInv, NEW i \in Inventories
    PROVE  SumQuantity(Held(i, now), i) = Reserved(i) + Sold(i)
<1>0. DemandOK
  BY DEF DemandOK, ControlInv, TypeOK
<1>1. /\ Held(i, now) = Unexpired(i, now) \cup InStatus("confirmed", i)
      /\ Unexpired(i, now) \cap InStatus("confirmed", i) = {}
  BY DEF Held, Unexpired, InStatus
<1> QED
  BY <1>0, <1>1, SumOfUnion DEF Reserved, Sold

-----------------------------------------------------------------------------
(* The steps.                                                              *)

\* A step that leaves stock, confirmed rows and history alone and lets no
\* further row be reserved gives back what it gives back.
LEMMA QuietLedger ==
    ASSUME ControlInv, UNCHANGED <<demand, quantity, late, excess>>,
           \A i \in Inventories : InStatus("confirmed", i)' = InStatus("confirmed", i),
           \A i \in Inventories : Unexpired(i, now)' \in SUBSET Unexpired(i, now)
    PROVE  Ledger!GiveBack
<1>0. DemandOK
  BY DEF DemandOK, ControlInv, TypeOK
<1>1. ASSUME NEW i \in Inventories
      PROVE  /\ Reserved(i)' \in Nat /\ Reserved(i)' <= Reserved(i)
             /\ Sold(i)' = Sold(i) /\ Debt(i)' = Debt(i)
  <2>1. /\ Reserved(i)' = SumQuantity(Unexpired(i, now)', i)
        /\ Sold(i)' = SumQuantity(InStatus("confirmed", i)', i)
        /\ Debt(i)' = SumQuantity(late'[i], i) + excess'[i]
    BY NumbersAfter
  <2>2. SumQuantity(Unexpired(i, now)', i) <= SumQuantity(Unexpired(i, now), i)
    BY <1>0, SumMonotone
  <2>3. SumQuantity(Unexpired(i, now)', i) \in Nat
    BY LedgerNumbers
  <2> QED
    BY <2>1, <2>2, <2>3 DEF Reserved, Sold, Debt
<1> QED
  BY <1>1 DEF Ledger!GiveBack, Reserved, Sold, Debt

\* The insert sets its units aside, and what the check found is still there.
LEMMA InsertLedger ==
    ASSUME ControlInv, QuantityInv, NEW g \in Groups, InsertReservation(g)
    PROVE  Ledger!Next
<1> SUFFICES ASSUME NEW i, i = Least(todo[g])
             PROVE  Ledger!Next
  OBVIOUS
<1>0. /\ i \in Inventories /\ DemandOK /\ status[g][i] = "none"
      /\ demand[g][i] \in 0 .. MaxQuantity /\ available[g] \in Int
  BY CurrentItem, DemandType DEF InsertReservation, DemandOK, ControlInv, TypeOK, LoopTodo
<1>1. /\ stage[g] = "checked" /\ demand[g][i] <= available[g]
      /\ UNCHANGED <<demand, expiresAt, now, late, quantity, excess>>
  BY DEF InsertReservation, stockVars
<1>2. \A h \in Groups, j \in Inventories :
        status'[h][j] = IF h = g /\ j = i THEN "active" ELSE status[h][j]
  BY <1>0 DEF InsertReservation, ControlInv, TypeOK
<1>3. \A j \in Inventories : InStatus("confirmed", j)' = InStatus("confirmed", j)
  BY <1>0, <1>2 DEF InStatus
<1>4. CASE expiresAt[g] > now
  <2>1. /\ Unexpired(i, now)' = Unexpired(i, now) \cup {g}
        /\ Unexpired(i, now) \cap {g} = {}
    BY <1>0, <1>1, <1>2, <1>4 DEF Unexpired, InStatus
  <2>2. \A j \in Inventories : j # i => Unexpired(j, now)' = Unexpired(j, now)
    BY <1>1, <1>2 DEF Unexpired, InStatus
  <2>3. Reserved(i)' = Reserved(i) + demand[g][i]
    <3>1. SumQuantity(Unexpired(i, now) \cup {g}, i)
            = SumQuantity(Unexpired(i, now), i) + SumQuantity({g}, i)
      BY <1>0, <2>1, SumOfUnion
    <3>2. SumQuantity({g}, i) = demand[g][i]
      BY <1>0, SumOfOne
    <3>3. Reserved(i)' = SumQuantity(Unexpired(i, now)', i)
      BY <1>1, NumbersAfter
    <3> QED
      BY <2>1, <3>1, <3>2, <3>3 DEF Reserved
  <2>4. \A j \in Inventories :
          /\ Sold(j)' = Sold(j) /\ Debt(j)' = Debt(j)
          /\ j # i => Reserved(j)' = Reserved(j)
    BY <1>1, <1>3, <2>2, NumbersAfter DEF Reserved, Sold, Debt
  <2>5. Reserved(i) + Sold(i) + demand[g][i] <= quantity[i] + Debt(i)
    <3>1. available[g] + SumQuantity(Held(i, now), i)
            <= quantity[i] + SumQuantity(late[i], i) + excess[i]
      BY <1>1 DEF QuantityInv, CheckStillGood
    <3>2. SumQuantity(Held(i, now), i) = Reserved(i) + Sold(i)
      BY <1>0, HeldIsReservedAndSold
    <3>3. Debt(i) = SumQuantity(late[i], i) + excess[i]
      BY DEF Debt
    <3>4. /\ quantity[i] \in Nat /\ Reserved(i) \in Nat /\ Sold(i) \in Nat
          /\ SumQuantity(late[i], i) \in Nat /\ excess[i] \in Nat
      BY <1>0, LedgerNumbers
    <3>5. demand[g][i] \in Int
      BY <1>0, QuantityAssumption
    <3> QED
      BY <1>0, <1>1, <3>1, <3>2, <3>3, <3>4, <3>5
  <2>6. Ledger!Reserve(i, demand[g][i])
    BY <1>0, <1>1, <2>3, <2>4, <2>5 DEF Ledger!Reserve, Reserved, Sold, Debt
  <2> QED
    BY <1>0, <2>6 DEF Ledger!Next
<1>5. CASE ~(expiresAt[g] > now)
  <2>1. \A j \in Inventories : Unexpired(j, now)' \in SUBSET Unexpired(j, now)
    BY <1>1, <1>2, <1>5 DEF Unexpired, InStatus
  <2>2. Ledger!GiveBack
    BY <1>1, <1>3, <2>1, QuietLedger
  <2> QED
    BY <2>2 DEF Ledger!Next
<1> QED
  BY <1>4, <1>5

\* A confirmation in time sells what was reserved; a late one overdraws.
LEMMA ConfirmLedger ==
    ASSUME ControlInv, NEW g \in Groups, ConfirmReservations(g)
    PROVE  Ledger!Next
<1>0. DemandOK
  BY DEF DemandOK, ControlInv, TypeOK
<1>1. UNCHANGED <<demand, expiresAt, now, quantity, excess>>
  BY DEF ConfirmReservations, stockVars
<1>2. \A h \in Groups, j \in Inventories :
        status'[h][j] = IF h = g /\ status[h][j] = "active"
                        THEN "confirmed" ELSE status[h][j]
  BY DEF ConfirmReservations, UpdateGroup, ControlInv, TypeOK
<1>3. \A j \in Inventories :
        late'[j] = IF status[g][j] = "active" /\ expiresAt[g] <= now
                   THEN late[j] \cup {g} ELSE late[j]
  BY DEF ConfirmReservations
<1>4. expiresAt[g] \in Nat /\ now \in Nat
  BY DEF ControlInv, TypeOK
<1>5. CASE expiresAt[g] > now
  <2>1. late' = late
    BY <1>3, <1>4, <1>5 DEF ConfirmReservations, ControlInv, TypeOK
  <2>2. ASSUME NEW j \in Inventories
        PROVE  /\ Reserved(j)' \in Nat /\ Sold(j)' \in Nat
               /\ Reserved(j)' <= Reserved(j)
               /\ Reserved(j)' + Sold(j)' = Reserved(j) + Sold(j)
               /\ Debt(j)' = Debt(j)
    <3> DEFINE moved == {h \in {g} : status[h][j] = "active"}
    <3>1. /\ moved \in SUBSET Unexpired(j, now)
          /\ Unexpired(j, now)' = Unexpired(j, now) \ moved
      BY <1>1, <1>2, <1>5 DEF Unexpired, InStatus
    <3>2. /\ InStatus("confirmed", j)' = InStatus("confirmed", j) \cup moved
          /\ InStatus("confirmed", j) \cap moved = {}
      BY <1>2 DEF InStatus
    <3> HIDE DEF moved
    <3>3. SumQuantity(Unexpired(j, now), j)
            = SumQuantity(moved, j) + SumQuantity(Unexpired(j, now) \ moved, j)
      BY <1>0, <3>1, SumOfParts
    <3>4. SumQuantity(InStatus("confirmed", j) \cup moved, j)
            = SumQuantity(InStatus("confirmed", j), j) + SumQuantity(moved, j)
      BY <1>0, <3>2, SumOfUnion
    <3>5. /\ Reserved(j)' = SumQuantity(Unexpired(j, now)', j)
          /\ Sold(j)' = SumQuantity(InStatus("confirmed", j)', j)
          /\ Debt(j)' = Debt(j)
      BY <1>1, <2>1, NumbersAfter DEF Debt
    <3>6. \A S : SumQuantity(S, j) \in Nat
      BY LedgerNumbers
    <3> QED
      BY <3>1, <3>2, <3>3, <3>4, <3>5, <3>6 DEF Reserved, Sold
  <2>3. Ledger!Sell
    BY <1>1, <2>2 DEF Ledger!Sell, Reserved, Sold, Debt
  <2> QED
    BY <2>3 DEF Ledger!Next
<1>6. CASE ~(expiresAt[g] > now)
  <2>1. ASSUME NEW j \in Inventories
        PROVE  /\ Reserved(j)' = Reserved(j)
               /\ Sold(j)' \in Nat /\ Debt(j)' \in Nat
               /\ Sold(j) <= Sold(j)'
               /\ Sold(j)' - Sold(j) = Debt(j)' - Debt(j)
    <3> DEFINE moved == {h \in {g} : status[h][j] = "active"}
    <3>1. Unexpired(j, now)' = Unexpired(j, now)
      BY <1>1, <1>2, <1>6 DEF Unexpired, InStatus
    <3>2. /\ InStatus("confirmed", j)' = InStatus("confirmed", j) \cup moved
          /\ InStatus("confirmed", j) \cap moved = {}
      BY <1>2 DEF InStatus
    <3>3. late'[j] = late[j] \cup moved /\ late[j] \cap moved = {}
      <4>1. CASE status[g][j] = "active"
        <5>0. expiresAt[g] <= now
          BY <1>4, <1>6
        <5>1. moved = {g} /\ late'[j] = late[j] \cup {g}
          <6>1. moved = {g}
            BY <4>1
          <6>2. late'[j] = late[j] \cup {g}
            BY <1>3, <2>1, <4>1, <5>0, Zenon
          <6> QED
            BY <6>1, <6>2
        <5>2. g \notin late[j]
          BY <2>1, <4>1 DEF ControlInv, LateRowsSettled
        <5> QED
          BY <5>1, <5>2
      <4>2. CASE status[g][j] # "active"
        <5>1. moved = {} /\ late'[j] = late[j]
          BY <1>3, <2>1, <4>2
        <5> QED
          BY <5>1
      <4> QED
        BY <4>1, <4>2
    <3> HIDE DEF moved
    <3>4. /\ SumQuantity(InStatus("confirmed", j) \cup moved, j)
               = SumQuantity(InStatus("confirmed", j), j) + SumQuantity(moved, j)
          /\ SumQuantity(late[j] \cup moved, j)
               = SumQuantity(late[j], j) + SumQuantity(moved, j)
      BY <1>0, <3>2, <3>3, SumOfUnion
    <3>5. /\ Reserved(j)' = Reserved(j)
          /\ Sold(j)' = SumQuantity(InStatus("confirmed", j)', j)
          /\ Debt(j)' = SumQuantity(late'[j], j) + excess[j]
      BY <1>1, <3>1, NumbersAfter DEF Reserved
    <3>6. (\A S : SumQuantity(S, j) \in Nat) /\ excess[j] \in Nat
      BY <2>1, LedgerNumbers
    <3>7. /\ Sold(j) = SumQuantity(InStatus("confirmed", j), j)
          /\ Debt(j) = SumQuantity(late[j], j) + excess[j]
      BY DEF Sold, Debt
    <3>8. /\ Sold(j)' = Sold(j) + SumQuantity(moved, j)
          /\ Debt(j)' = SumQuantity(late[j], j) + SumQuantity(moved, j) + excess[j]
      BY <3>2, <3>3, <3>4, <3>5, <3>7
    <3>9. /\ SumQuantity(moved, j) \in Nat /\ SumQuantity(late[j], j) \in Nat
          /\ Sold(j) \in Nat
      BY <3>6, <3>7
    <3> QED
      BY <3>5, <3>6, <3>7, <3>8, <3>9
  <2>2. Ledger!Overdraw
    BY <1>1, <2>1 DEF Ledger!Overdraw, Reserved, Sold, Debt
  <2> QED
    BY <2>2 DEF Ledger!Next
<1> QED
  BY <1>5, <1>6

\* A transaction of fulfillReservations ships: of the units it takes off the
\* stock, those of rows that were still confirmed were sold.
LEMMA FulfillLedger ==
    ASSUME ControlInv, NEW w \in FulfillRuns, FulfillInventory(w)
    PROVE  Ledger!Next
<1> SUFFICES ASSUME NEW i, i = Least(Pending(w)),
                    NEW rows, rows = batch[w][i],
                    NEW shipped, shipped = rows \cap InStatus("confirmed", i),
                    NEW n, n = SumQuantity(rows, i),
                    NEW s, s = SumQuantity(shipped, i)
             PROVE  Ledger!Next
  OBVIOUS
<1>0. DemandOK /\ i \in Inventories
  <2>1. Pending(w) \in SUBSET Inventories /\ Pending(w) # {}
    BY DEF FulfillInventory, Pending
  <2> QED
    BY <2>1, LeastItem DEF DemandOK, ControlInv, TypeOK
<1>1. /\ SumQuantity(rows, i) <= quantity[i]
      /\ quantity' = [quantity EXCEPT ![i] = @ - SumQuantity(rows, i)]
      /\ status' = [g \in Groups |-> IF g \in shipped
                                     THEN [status[g] EXCEPT ![i] = "released"]
                                     ELSE status[g]]
      /\ excess' = [excess EXCEPT ![i] = @ + SumQuantity(rows \ shipped, i)]
      /\ UNCHANGED <<demand, expiresAt, now, late>>
  BY DEF FulfillInventory, DecrementQuantity, Releasable
<1>2. \A g \in Groups, j \in Inventories :
        status'[g][j] = IF g \in shipped /\ j = i THEN "released" ELSE status[g][j]
  BY <1>0, <1>1 DEF ControlInv, TypeOK
<1>3. SumQuantity(rows, i) = SumQuantity(shipped, i) + SumQuantity(rows \ shipped, i)
  BY <1>0, SumOfParts
<1>4. \A S, j : SumQuantity(S, j) \in Nat
  BY <1>0, SumType
<1>5. \A j \in Inventories : Unexpired(j, now)' = Unexpired(j, now)
  BY <1>1, <1>2 DEF Unexpired, InStatus
<1>6. \A j \in Inventories :
        InStatus("confirmed", j)'
          = IF j = i THEN InStatus("confirmed", j) \ shipped ELSE InStatus("confirmed", j)
  BY <1>2 DEF InStatus
<1>7. SumQuantity(InStatus("confirmed", i), i)
        = SumQuantity(shipped, i) + SumQuantity(InStatus("confirmed", i) \ shipped, i)
  <2>1. shipped \in SUBSET InStatus("confirmed", i)
    OBVIOUS
  <2> QED
    BY <1>0, <2>1, SumOfParts
<1>8. ASSUME NEW j \in Inventories
      PROVE  /\ Reserved(j)' = Reserved(j)
             /\ Sold(j)' = IF j = i THEN Sold(j) - s ELSE Sold(j)
             /\ Debt(j)' = IF j = i THEN Debt(j) + (n - s) ELSE Debt(j)
  <2>1. /\ Reserved(j)' = SumQuantity(Unexpired(j, now)', j)
        /\ Sold(j)' = SumQuantity(InStatus("confirmed", j)', j)
        /\ Debt(j)' = SumQuantity(late[j], j) + excess'[j]
    BY <1>1, NumbersAfter
  <2>2. excess[j] \in Nat
    BY LedgerNumbers
  <2>3. excess'[j] = IF j = i THEN excess[j] + SumQuantity(rows \ shipped, i) ELSE excess[j]
    BY <1>1 DEF ControlInv, TypeOK
  <2>4. Reserved(j)' = Reserved(j)
    BY <1>5, <2>1 DEF Reserved
  <2>5. CASE j = i
    <3>1. Sold(j)' = Sold(j) - s
      <4>1. Sold(j)' = SumQuantity(InStatus("confirmed", i) \ shipped, i)
        BY <1>0, <1>6, <2>1, <2>5
      <4>2. Sold(j) = s + SumQuantity(InStatus("confirmed", i) \ shipped, i)
        BY <1>7, <2>5 DEF Sold
      <4>3. s \in Nat /\ SumQuantity(InStatus("confirmed", i) \ shipped, i) \in Nat
        BY <1>4
      <4> QED
        BY <4>1, <4>2, <4>3
    <3>2. /\ SumQuantity(late[j], j) \in Nat /\ SumQuantity(rows \ shipped, i) \in Nat
          /\ n \in Nat /\ s \in Nat
      BY <1>4
    <3>3. Debt(j)' = Debt(j) + (n - s)
      BY <1>3, <2>1, <2>2, <2>3, <2>5, <3>2 DEF Debt
    <3> QED
      BY <2>4, <2>5, <3>1, <3>3
  <2>6. CASE j # i
    BY <1>6, <2>1, <2>3, <2>4, <2>6 DEF Sold, Debt
  <2> QED
    BY <2>5, <2>6
<1>9. n \in 0 .. quantity[i] /\ s \in 0 .. n /\ s <= Sold(i)
  <2>1. /\ n \in Nat /\ s \in Nat /\ SumQuantity(rows \ shipped, i) \in Nat
        /\ SumQuantity(InStatus("confirmed", i) \ shipped, i) \in Nat
        /\ quantity[i] \in Nat
    BY <1>0, <1>4, LedgerNumbers
  <2> QED
    BY <1>1, <1>3, <1>7, <2>1 DEF Sold
<1>10. quantity' = [quantity EXCEPT ![i] = @ - n]
  BY <1>1
<1>11. Ledger!Ship(i, n, s)
  BY <1>0, <1>8, <1>9, <1>10 DEF Ledger!Ship, Reserved, Sold, Debt
<1> QED
  BY <1>0, <1>9, <1>11 DEF Ledger!Next

LEMMA LedgerStep ==
    ASSUME ReservationInv, [Next]_vars
    PROVE  [Ledger!Next]_(Ledger!vars)
<1> USE DEF rowVars, stockVars, txVars, runVars
<1>0. ControlInv /\ QuantityInv
  BY DEF ReservationInv, ControlInv, QuantityInv
<1>1. ASSUME NEW g \in Groups, CreateReservations(g)
      PROVE  Ledger!GiveBack
  <2>1. \A i \in Inventories : InStatus("confirmed", i)' = InStatus("confirmed", i)
    BY <1>1 DEF CreateReservations, InStatus
  <2>2. \A i \in Inventories : Unexpired(i, now)' \in SUBSET Unexpired(i, now)
    BY <1>0, <1>1 DEF CreateReservations, Unexpired, InStatus, ControlInv, LoopTodo, TypeOK
  <2> QED
    BY <1>0, <1>1, <2>1, <2>2, QuietLedger DEF CreateReservations
<1>2. ASSUME UNCHANGED <<demand, quantity, late, excess, status, expiresAt, now>>
      PROVE  Ledger!GiveBack
  <2>1. \A i \in Inventories : /\ InStatus("confirmed", i)' = InStatus("confirmed", i)
                               /\ Unexpired(i, now)' \in SUBSET Unexpired(i, now)
    BY <1>2 DEF InStatus, Unexpired
  <2> QED
    BY <1>0, <1>2, <2>1, QuietLedger
<1>3. ASSUME NEW g \in Groups, ReleaseReservations(g)
      PROVE  Ledger!GiveBack
  <2>1. \A h \in Groups, j \in Inventories :
          status'[h][j] = IF h = g /\ status[h][j] = "active"
                          THEN "released" ELSE status[h][j]
    BY <1>0, <1>3 DEF ReleaseReservations, UpdateGroup, ControlInv, TypeOK
  <2>2. \A i \in Inventories : InStatus("confirmed", i)' = InStatus("confirmed", i)
    BY <2>1 DEF InStatus
  <2>3. \A i \in Inventories : Unexpired(i, now)' \in SUBSET Unexpired(i, now)
    BY <1>3, <2>1 DEF ReleaseReservations, Unexpired, InStatus
  <2> QED
    BY <1>0, <1>3, <2>2, <2>3, QuietLedger DEF ReleaseReservations
<1>4. ASSUME ExpireReservations
      PROVE  Ledger!GiveBack
  <2>1. \A h \in Groups, j \in Inventories :
          status'[h][j] = IF h \in Expired(j) THEN "released" ELSE status[h][j]
    BY <1>4 DEF ExpireReservations
  <2>2. \A i \in Inventories : InStatus("confirmed", i)' = InStatus("confirmed", i)
    BY <2>1 DEF InStatus, Expired
  <2>3. \A i \in Inventories : Unexpired(i, now)' \in SUBSET Unexpired(i, now)
    BY <1>4, <2>1 DEF ExpireReservations, Unexpired, InStatus
  <2> QED
    BY <1>0, <1>4, <2>2, <2>3, QuietLedger DEF ExpireReservations
<1>5. ASSUME Tick
      PROVE  Ledger!GiveBack
  <2>1. \A i \in Inventories : InStatus("confirmed", i)' = InStatus("confirmed", i)
    BY <1>5 DEF Tick, InStatus
  <2>2. \A i \in Inventories : Unexpired(i, now)' \in SUBSET Unexpired(i, now)
    BY <1>0, <1>5 DEF Tick, Unexpired, InStatus, ControlInv, TypeOK
  <2> QED
    BY <1>0, <1>5, <2>1, <2>2, QuietLedger DEF Tick
<1>6. ASSUME NEW g \in Groups,
             \/ BeginTransaction(g) \/ LockForReservation(g) \/ GetAvailable(g)
             \/ InsufficientInventory(g) \/ AbortReservation(g)
      PROVE  Ledger!GiveBack
  BY <1>2, <1>6 DEF BeginTransaction, LockForReservation, GetAvailable,
     InsufficientInventory, AbortReservation, RollBack
<1>7. ASSUME NEW w \in FulfillRuns,
             \/ StartFulfillment(w) \/ FinishFulfillment(w)
             \/ FulfillmentRejected(w) \/ CrashFulfillment(w)
      PROVE  Ledger!GiveBack
  BY <1>2, <1>7 DEF StartFulfillment, FinishFulfillment, FulfillmentRejected,
     CrashFulfillment, StopRun
<1>8. ASSUME UNCHANGED vars
      PROVE  Ledger!GiveBack
  BY <1>2, <1>8 DEF vars
<1>9. Ledger!GiveBack => Ledger!Next
  BY DEF Ledger!Next
<1> QED
  BY <1>0, <1>1, <1>3, <1>4, <1>5, <1>6, <1>7, <1>8, <1>9,
     InsertLedger, ConfirmLedger, FulfillLedger DEF Next, Create, Fulfill

LEMMA LedgerInit == Init => Ledger!Init
<1> SUFFICES ASSUME Init PROVE Ledger!Init
  OBVIOUS
<1>1. ASSUME NEW i \in Inventories
      PROVE  /\ SumQuantity(Unexpired(i, now), i) = 0
             /\ SumQuantity(InStatus("confirmed", i), i) = 0
             /\ SumQuantity(late[i], i) + excess[i] = 0
  <2>1. Unexpired(i, now) = {} /\ InStatus("confirmed", i) = {} /\ late[i] = {}
    BY <1>1 DEF Init, Unexpired, InStatus
  <2>2. excess[i] = 0
    BY <1>1 DEF Init
  <2>3. /\ SumQuantity(Unexpired(i, now), i) = 0
        /\ SumQuantity(InStatus("confirmed", i), i) = 0
        /\ SumQuantity(late[i], i) = 0
    BY <2>1, SumOfNone, Zenon
  <2> QED
    BY <2>2, <2>3
<1>2. /\ [i \in Inventories |-> SumQuantity(Unexpired(i, now), i)]
           = [i \in Inventories |-> 0]
      /\ [i \in Inventories |-> SumQuantity(InStatus("confirmed", i), i)]
           = [i \in Inventories |-> 0]
      /\ [i \in Inventories |-> SumQuantity(late[i], i) + excess[i]]
           = [i \in Inventories |-> 0]
  BY <1>1
<1> QED
  BY <1>2 DEF Init, Ledger!Init, Ledger!Nothing

\* Every behaviour of the reservations is one of the ledger: createReservations
\* sets aside only what the stock covers, the other transactions and the jobs
\* move units from reserved to sold to shipped, and each unit promised twice is
\* entered in the debt at the step that promises it.
THEOREM ReservationsImplementLedger == Spec => ImplementsLedger
<1>1. Init => Ledger!Init
  BY LedgerInit
<1>2. ReservationInv /\ [Next]_vars => [Ledger!Next]_(Ledger!vars)
  BY LedgerStep
<1> QED
  BY <1>1, <1>2, ReservationInvariant, PTL DEF Spec, ImplementsLedger, Ledger!Spec
=============================================================================
