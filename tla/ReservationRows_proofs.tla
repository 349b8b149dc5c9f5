----------------------- MODULE ReservationRows_proofs -----------------------
(***************************************************************************)
(* Proofs about the life of a reservation row and about fulfillment runs   *)
(* that do not overlap, on top of the invariants of Reservations_proofs.   *)
(***************************************************************************)
EXTENDS Reservations_proofs

-----------------------------------------------------------------------------
(* Every row asks for something, and a run works on rows that exist.       *)

RowsDemanded ==
    /\ \A g \in Groups : \A i \in todo[g] : demand[g][i] > 0
    /\ \A g \in Groups, i \in Inventories : status[g][i] # "none" => demand[g][i] > 0
    /\ \A w \in FulfillRuns, i \in Inventories : \A g \in batch[w][i] : status[g][i] # "none"

\* What a step makes of a row, and which step it was.
LEMMA RowStep ==
    ASSUME ControlInv, [Next]_vars, NEW g \in Groups, NEW i \in Inventories
    PROVE  \/ status'[g][i] = status[g][i]
           \/ /\ status[g][i] = "none" /\ status'[g][i] = "active"
              /\ i \in todo[g]
           \/ status[g][i] = "active" /\ status'[g][i] \in {"confirmed", "released"}
           \/ /\ status[g][i] = "confirmed" /\ status'[g][i] = "released"
              /\ \E w \in FulfillRuns :
                   /\ FulfillInventory(w)
                   /\ i = Least(Pending(w)) /\ g \in batch[w][i]
<1> USE DEF ControlInv
<1> status \in [Groups -> [Inventories -> RowStatus]]
  BY DEF TypeOK
<1>1. ASSUME UNCHANGED status
      PROVE  status'[g][i] = status[g][i]
  BY <1>1
<1>2. ASSUME NEW h \in Groups, InsertReservation(h)
      PROVE  \/ status'[g][i] = status[g][i]
             \/ /\ status[g][i] = "none" /\ status'[g][i] = "active"
                /\ i \in todo[g]
  <2>1. Least(todo[h]) \in Inventories /\ Least(todo[h]) \in todo[h]
    BY <1>2, CurrentItem DEF InsertReservation
  <2>2. status[h][Least(todo[h])] = "none"
    BY <2>1 DEF LoopTodo
  <2> QED
    BY <1>2, <2>1, <2>2 DEF InsertReservation
<1>3. ASSUME NEW h \in Groups, ConfirmReservations(h) \/ ReleaseReservations(h)
      PROVE  \/ status'[g][i] = status[g][i]
             \/ status[g][i] = "active" /\ status'[g][i] \in {"confirmed", "released"}
  BY <1>3 DEF ConfirmReservations, ReleaseReservations, UpdateGroup
<1>4. ASSUME ExpireReservations
      PROVE  \/ status'[g][i] = status[g][i]
             \/ status[g][i] = "active" /\ status'[g][i] \in {"confirmed", "released"}
  BY <1>4 DEF ExpireReservations, Expired, InStatus
<1>5. ASSUME NEW w \in FulfillRuns, FulfillInventory(w)
      PROVE  \/ status'[g][i] = status[g][i]
             \/ /\ status[g][i] = "confirmed" /\ status'[g][i] = "released"
                /\ i = Least(Pending(w)) /\ g \in batch[w][i]
  <2>1. Least(Pending(w)) \in Inventories
    <3>1. Pending(w) \in SUBSET Inventories /\ Pending(w) # {}
      BY <1>5 DEF FulfillInventory, Pending
    <3> QED
      BY <3>1, LeastItem
  <2>2. status' = [h \in Groups |->
                     IF h \in batch[w][Least(Pending(w))]
                              \cap InStatus("confirmed", Least(Pending(w)))
                     THEN [status[h] EXCEPT ![Least(Pending(w))] = "released"]
                     ELSE status[h]]
    BY <1>5 DEF FulfillInventory, Releasable
  <2> QED
    BY <2>1, <2>2 DEF InStatus
<1>6. ASSUME NEW h \in Groups,
             \/ CreateReservations(h) \/ BeginTransaction(h) \/ LockForReservation(h)
             \/ GetAvailable(h) \/ InsufficientInventory(h) \/ AbortReservation(h)
      PROVE  UNCHANGED status
  BY <1>6 DEF CreateReservations, BeginTransaction, LockForReservation, GetAvailable,
     InsufficientInventory, AbortReservation, RollBack, rowVars
<1>7. ASSUME NEW w \in FulfillRuns,
             \/ StartFulfillment(w) \/ FinishFulfillment(w)
             \/ FulfillmentRejected(w) \/ CrashFulfillment(w)
      PROVE  UNCHANGED status
  BY <1>7 DEF StartFulfillment, FinishFulfillment, FulfillmentRejected,
     CrashFulfillment, StopRun, rowVars
<1>8. Tick \/ UNCHANGED vars => UNCHANGED status
  BY DEF Tick, rowVars, vars
<1> QED
  BY <1>1, <1>2, <1>3, <1>4, <1>5, <1>6, <1>7, <1>8 DEF Next, Create, Fulfill

\* What a step makes of the items left and of a batch: they shrink, or hold
\* the items of the order, or the rows that are confirmed.
LEMMA LoopStep ==
    ASSUME ControlInv, [Next]_vars
    PROVE  /\ demand' = demand
           /\ \A g \in Groups : \A i \in todo'[g] : i \in todo[g] \/ demand[g][i] > 0
           /\ \A w \in FulfillRuns, i \in Inventories :
                \/ batch'[w][i] \subseteq batch[w][i]
                \/ batch'[w][i] = InStatus("confirmed", i) /\ UNCHANGED status
<1> USE DEF ControlInv
<1> /\ todo \in [Groups -> SUBSET Inventories]
    /\ batch \in [FulfillRuns -> [Inventories -> SUBSET Groups]]
  BY DEF TypeOK
<1> DEFINE TodoShrinks == /\ demand' = demand
                          /\ \A g \in Groups : \A i \in todo'[g] :
                               i \in todo[g] \/ demand[g][i] > 0
           BatchShrinks == \A w \in FulfillRuns, i \in Inventories :
                \/ batch'[w][i] \subseteq batch[w][i]
                \/ batch'[w][i] = InStatus("confirmed", i) /\ UNCHANGED status
<1>1. ASSUME NEW g \in Groups, Create(g) \/ AbortReservation(g)
      PROVE  TodoShrinks /\ BatchShrinks
  <2>1. UNCHANGED <<demand, batch>>
    BY <1>1 DEF Create, CreateReservations, BeginTransaction, LockForReservation,
       GetAvailable, InsertReservation, InsufficientInventory, AbortReservation,
       RollBack, runVars
  <2>2. \/ UNCHANGED todo
        \/ todo' = [todo EXCEPT ![g] = @ \ {Least(todo[g])}]
        \/ todo' = [todo EXCEPT ![g] = {i \in Inventories : demand[g][i] > 0}]
    BY <1>1 DEF Create, CreateReservations, BeginTransaction, LockForReservation,
       GetAvailable, InsertReservation, InsufficientInventory, AbortReservation,
       RollBack
  <2> QED
    BY <2>1, <2>2
<1>2. ASSUME NEW g \in Groups, ConfirmReservations(g) \/ ReleaseReservations(g)
      PROVE  TodoShrinks /\ BatchShrinks
  BY <1>2 DEF ConfirmReservations, ReleaseReservations, txVars, runVars
<1>3. ASSUME ExpireReservations \/ Tick \/ UNCHANGED vars
      PROVE  TodoShrinks /\ BatchShrinks
  BY <1>3 DEF ExpireReservations, Tick, vars, txVars, runVars
<1>4. ASSUME NEW w \in FulfillRuns, Fulfill(w) \/ CrashFulfillment(w)
      PROVE  TodoShrinks /\ BatchShrinks
  <2>1. UNCHANGED <<demand, todo>>
    BY <1>4 DEF Fulfill, StartFulfillment, FulfillInventory, FinishFulfillment,
       FulfillmentRejected, CrashFulfillment, StopRun, txVars
  <2>2. CASE StartFulfillment(w)
    BY <2>1, <2>2 DEF StartFulfillment, FindConfirmedGrouped, rowVars
  <2>3. CASE FulfillInventory(w)
    BY <2>1, <2>3 DEF FulfillInventory
  <2>4. CASE StopRun(w)
    BY <2>1, <2>4 DEF StopRun
  <2> QED
    BY <1>4, <2>2, <2>3, <2>4 DEF Fulfill, FinishFulfillment, FulfillmentRejected,
       CrashFulfillment
<1> QED
  BY <1>1, <1>2, <1>3, <1>4 DEF Next

LEMMA RowsDemandedStep ==
    ASSUME ControlInv, RowsDemanded, [Next]_vars
    PROVE  RowsDemanded'
<1>1. ASSUME NEW g \in Groups, NEW i \in todo'[g]
      PROVE  demand'[g][i] > 0
  BY <1>1, LoopStep DEF RowsDemanded
<1>2. ASSUME NEW g \in Groups, NEW i \in Inventories, status'[g][i] # "none"
      PROVE  demand'[g][i] > 0
  BY <1>2, LoopStep, RowStep DEF RowsDemanded
<1>3. ASSUME NEW w \in FulfillRuns, NEW i \in Inventories, NEW g \in batch'[w][i]
      PROVE  status'[g][i] # "none"
  <2>1. CASE g \in batch[w][i]
    <3>1. g \in Groups /\ status[g][i] # "none"
      BY <2>1 DEF RowsDemanded, ControlInv, TypeOK
    <3> QED
      BY <3>1, RowStep
  <2>2. CASE g \in InStatus("confirmed", i) /\ UNCHANGED status
    BY <2>2 DEF InStatus
  <2> QED
    BY <1>3, <2>1, <2>2, LoopStep
<1> QED
  BY <1>1, <1>2, <1>3 DEF RowsDemanded

LEMMA RowsDemandedInvariant == Spec => []RowsDemanded
<1>1. Init => RowsDemanded
  BY DEF Init, RowsDemanded
<1>2. ControlInv /\ RowsDemanded /\ [Next]_vars => RowsDemanded'
  BY RowsDemandedStep
<1>3. ReservationInv => ControlInv
  BY DEF ReservationInv, ControlInv
<1> QED
  BY <1>1, <1>2, <1>3, ReservationInvariant, PTL DEF Spec

-----------------------------------------------------------------------------
(* Rows move forward, and leave `confirmed` only with their units.         *)

\* A transaction of fulfillReservations takes units off the stock: the rows it
\* works on are some, and each asks for something.
LEMMA FulfillTakes ==
    ASSUME ControlInv, RowsDemanded, NEW w \in FulfillRuns, FulfillInventory(w)
    PROVE  quantity'[Least(Pending(w))] < quantity[Least(Pending(w))]
<1> SUFFICES ASSUME NEW i, i = Least(Pending(w)),
                    NEW rows, rows = batch[w][i]
             PROVE  quantity'[i] < quantity[i]
  OBVIOUS
<1>1. i \in Inventories /\ rows # {}
  <2>1. Pending(w) \in SUBSET Inventories /\ Pending(w) # {}
    BY DEF FulfillInventory, Pending
  <2> QED
    BY <2>1, LeastItem DEF Pending
<1>2. DemandOK
  BY DEF DemandOK, ControlInv, TypeOK
<1>3. PICK g \in rows : TRUE
  BY <1>1
<1>4. g \in Groups /\ demand[g][i] > 0
  BY <1>1, <1>3 DEF RowsDemanded, ControlInv, TypeOK
<1>5. SumQuantity(rows, i) = SumQuantity({g}, i) + SumQuantity(rows \ {g}, i)
  BY <1>2, <1>3, SumOfParts
<1>6. SumQuantity({g}, i) = demand[g][i]
  BY <1>1, <1>2, <1>4, SumOfOne
<1>7. SumQuantity(rows \ {g}, i) \in Nat /\ demand[g][i] \in Nat /\ quantity[i] \in Nat
  BY <1>1, <1>2, <1>4, SumType, DemandType, QuantityAssumption DEF ControlInv, TypeOK
<1>8. quantity'[i] = quantity[i] - SumQuantity(rows, i)
  BY <1>1 DEF FulfillInventory, DecrementQuantity, ControlInv, TypeOK
<1> QED
  BY <1>4, <1>5, <1>6, <1>7, <1>8

\* Whatever confirms, releases, expires and ships a row, in whatever order: a
\* released row stays released, and a confirmed one is released only together
\* with a decrement of its inventory.
THEOREM RowsAlwaysMoveForward == Spec => RowsMoveForward
<1> DEFINE Forward == \A g \in Groups, i \in Inventories :
         \/ status'[g][i] = status[g][i]
         \/ status[g][i] = "none" /\ status'[g][i] = "active"
         \/ status[g][i] = "active" /\ status'[g][i] \in {"confirmed", "released"}
         \/ status[g][i] = "confirmed" /\ status'[g][i] = "released"
              /\ quantity'[i] < quantity[i]
<1>1. ControlInv /\ RowsDemanded /\ [Next]_vars => [Forward]_vars
  <2> SUFFICES ASSUME ControlInv, RowsDemanded, [Next]_vars,
                      NEW g \in Groups, NEW i \in Inventories
               PROVE  \/ status'[g][i] = status[g][i]
                      \/ status[g][i] = "none" /\ status'[g][i] = "active"
                      \/ /\ status[g][i] = "active"
                         /\ status'[g][i] \in {"confirmed", "released"}
                      \/ /\ status[g][i] = "confirmed" /\ status'[g][i] = "released"
                         /\ quantity'[i] < quantity[i]
    OBVIOUS
  <2> QED
    BY RowStep, FulfillTakes
<1>2. ReservationInv => ControlInv
  BY DEF ReservationInv, ControlInv
<1> QED
  BY <1>1, <1>2, ReservationInvariant, RowsDemandedInvariant, PTL
     DEF Spec, RowsMoveForward

-----------------------------------------------------------------------------
(* One fulfillment run at a time keeps the books.                          *)

\* What a run has read and not worked through is still confirmed, and nothing
\* was taken off in excess.
BatchConfirmed ==
    /\ \A w \in FulfillRuns, i \in Inventories :
         \A g \in batch[w][i] : status[g][i] = "confirmed"
    /\ \A i \in Inventories : excess[i] = 0

OneRun == \A v, w \in FulfillRuns : v = w

LEMMA BatchStep ==
    ASSUME OneRun, ControlInv, BatchConfirmed, [Next]_vars
    PROVE  BatchConfirmed'
<1>1. ASSUME NEW w \in FulfillRuns, NEW i \in Inventories, NEW g \in batch'[w][i]
      PROVE  status'[g][i] = "confirmed"
  <2>1. CASE g \in batch[w][i]
    <3>1. g \in Groups /\ status[g][i] = "confirmed"
      BY <2>1 DEF BatchConfirmed, ControlInv, TypeOK
    <3>2. ASSUME FulfillInventory(w), i = Least(Pending(w))
          PROVE  FALSE
      <4>1. batch'[w][i] = {}
        BY <3>2 DEF FulfillInventory, ControlInv, TypeOK
      <4> QED
        BY <1>1, <4>1
    <3> QED
      BY <3>1, <3>2, RowStep DEF OneRun
  <2>2. CASE g \in InStatus("confirmed", i) /\ UNCHANGED status
    BY <2>2 DEF InStatus
  <2> QED
    BY <1>1, <2>1, <2>2, LoopStep
<1>2. ASSUME NEW i \in Inventories
      PROVE  excess'[i] = 0
  <2>1. CASE UNCHANGED excess
    BY <2>1 DEF BatchConfirmed
  <2>2. ASSUME NEW w \in FulfillRuns, FulfillInventory(w)
        PROVE  excess'[i] = 0
    <3> SUFFICES ASSUME NEW j, j = Least(Pending(w)),
                        NEW rows, rows = batch[w][j]
                 PROVE  excess'[i] = 0
      OBVIOUS
    <3>1. j \in Inventories
      <4>1. Pending(w) \in SUBSET Inventories /\ Pending(w) # {}
        BY <2>2 DEF FulfillInventory, Pending
      <4> QED
        BY <4>1, LeastItem
    <3>2. rows \ Releasable(j, rows) = {}
      BY <3>1 DEF Releasable, InStatus, BatchConfirmed, ControlInv, TypeOK
    <3>3. SumQuantity({}, j) = 0
      BY <3>1, SumOfNone
    <3>4. excess' = [excess EXCEPT ![j] = @ + SumQuantity(rows \ Releasable(j, rows), j)]
      BY <2>2 DEF FulfillInventory
    <3>5. excess' = [excess EXCEPT ![j] = @ + 0]
      BY <3>2, <3>3, <3>4
    <3>6. excess \in [Inventories -> Nat] /\ excess[i] = 0 /\ excess[j] = 0
      BY <3>1 DEF BatchConfirmed, ControlInv, TypeOK
    <3> QED
      BY <3>5, <3>6
  <2>3. \/ UNCHANGED excess
        \/ \E w \in FulfillRuns : FulfillInventory(w)
    BY DEF Next, Create, Fulfill, CreateReservations, BeginTransaction,
       LockForReservation, GetAvailable, InsertReservation, InsufficientInventory,
       AbortReservation, RollBack, ConfirmReservations, ReleaseReservations,
       ExpireReservations, StartFulfillment, FinishFulfillment, FulfillmentRejected,
       CrashFulfillment, StopRun, Tick, vars, stockVars
  <2> QED
    BY <2>1, <2>2, <2>3
<1> QED
  BY <1>1, <1>2 DEF BatchConfirmed

\* Where fulfillReservations does not overlap with itself, the stock is what it
\* was less the units of the rows marked released: no row is shipped twice, and
\* none is released by the job without its units.
THEOREM OneRunShipsOnce ==
    ASSUME OneRun
    PROVE  Spec => []FulfilledExactlyOnce
<1>1. Init => BatchConfirmed
  BY DEF Init, BatchConfirmed
<1>2. ControlInv /\ BatchConfirmed /\ [Next]_vars => BatchConfirmed'
  BY BatchStep
<1>3. ReservationInv => ControlInv
  BY DEF ReservationInv, ControlInv
<1>4. ReservationInv /\ BatchConfirmed => FulfilledExactlyOnce
  <2> SUFFICES ASSUME ReservationInv, BatchConfirmed, NEW i \in Inventories
               PROVE  quantity[i] + SumQuantity(fulfilled[i], i) = InitialQuantity[i]
    BY DEF FulfilledExactlyOnce
  <2>1. quantity[i] \in Nat /\ SumQuantity(fulfilled[i], i) \in Nat
    BY <1>3, CeilingType
  <2>2. quantity[i] + SumQuantity(fulfilled[i], i) + excess[i] = InitialQuantity[i]
    BY DEF ReservationInv, StockConserved
  <2>3. excess[i] = 0
    BY DEF BatchConfirmed
  <2> QED
    BY <2>1, <2>2, <2>3
<1> QED
  BY <1>1, <1>2, <1>3, <1>4, ReservationInvariant, PTL DEF Spec

-----------------------------------------------------------------------------
(* Rows of one group change together until they lapse.                     *)

\* The variables of group g that WholeUntilExpiry speaks of.
GroupUnchanged(g) ==
    /\ stage'[g] = stage[g] /\ todo'[g] = todo[g] /\ expiresAt'[g] = expiresAt[g]
    /\ status'[g] = status[g]
    /\ \A i \in Inventories : g \in fulfilled'[i] <=> g \in fulfilled[i]

\* WholeUntilExpiry of one group, without its abbreviation.
WholeGroup(g) ==
    /\ \A i \in Inventories :
         status[g][i] = "confirmed" \/ g \in fulfilled[i] => stage[g] = "reserved"
    /\ stage[g] \in {"next", "begun", "locked", "checked"} /\ now <= expiresAt[g] =>
         \A i \in Inventories : demand[g][i] > 0 => i \in todo[g] \/ status[g][i] = "active"
    /\ stage[g] = "reserved" /\ now <= expiresAt[g] =>
         \/ \A i \in Inventories : demand[g][i] > 0 => status[g][i] = "active"
         \/ \A i \in Inventories : demand[g][i] > 0 => status[g][i] = "released"
         \/ \A i \in Inventories :
              demand[g][i] > 0 => status[g][i] = "confirmed" \/ g \in fulfilled[i]

LEMMA WholeGroups == WholeUntilExpiry <=> \A g \in Groups : WholeGroup(g)
BY DEF WholeUntilExpiry, WholeGroup

\* A step that leaves a group alone, and does not turn the clock back.
LEMMA WholeUnchanged ==
    ASSUME ControlInv, ControlInv', NEW g \in Groups, WholeGroup(g), GroupUnchanged(g),
           demand' = demand, now <= now'
    PROVE  WholeGroup(g)'
<1> now \in Nat /\ now' \in Nat /\ expiresAt[g] \in Nat
  BY DEF ControlInv, TypeOK
<1> QED
  BY DEF WholeGroup, GroupUnchanged

\* The steps of createReservations.
LEMMA WholeCreate ==
    ASSUME ControlInv, ControlInv', RowsDemanded, NEW g \in Groups, WholeGroup(g),
           NEW h \in Groups, Create(h) \/ AbortReservation(h)
    PROVE  WholeGroup(g)'
<1> USE DEF ControlInv
<1> /\ stage \in [Groups -> Stages] /\ todo \in [Groups -> SUBSET Inventories]
    /\ expiresAt \in [Groups -> Nat] /\ status \in [Groups -> [Inventories -> RowStatus]]
    /\ now \in Nat
  BY DEF TypeOK
<1>1. UNCHANGED <<demand, now, fulfilled>>
  BY DEF Create, CreateReservations, BeginTransaction, LockForReservation,
     GetAvailable, InsertReservation, InsufficientInventory, AbortReservation,
     RollBack, stockVars
<1>2. CASE g # h
  <2>1. GroupUnchanged(g)
    BY <1>1, <1>2 DEF GroupUnchanged, Create, CreateReservations, BeginTransaction,
       LockForReservation, GetAvailable, InsertReservation, InsufficientInventory,
       AbortReservation, RollBack, rowVars
  <2> QED
    BY <1>1, <2>1, WholeUnchanged
<1>3. ASSUME g = h, CreateReservations(h)
      PROVE  WholeGroup(g)'
  BY <1>1, <1>3 DEF CreateReservations, WholeGroup
<1>4. ASSUME g = h, BeginTransaction(h) \/ LockForReservation(h) \/ GetAvailable(h)
      PROVE  WholeGroup(g)'
  BY <1>1, <1>4 DEF BeginTransaction, LockForReservation, GetAvailable, WholeGroup, rowVars
<1>5. ASSUME g = h, InsufficientInventory(h) \/ AbortReservation(h)
      PROVE  WholeGroup(g)'
  BY <1>1, <1>5 DEF InsufficientInventory, AbortReservation, RollBack, WholeGroup, rowVars
<1>6. ASSUME g = h, InsertReservation(h)
      PROVE  WholeGroup(g)'
  <2> SUFFICES ASSUME NEW i, i = Least(todo[g])
               PROVE  WholeGroup(g)'
    OBVIOUS
  <2>1. i \in Inventories
    BY <1>6, CurrentItem DEF InsertReservation
  <2>2. /\ stage[g] = "checked"
        /\ status'[g] = [status[g] EXCEPT ![i] = "active"]
        /\ todo'[g] = todo[g] \ {i}
        /\ stage'[g] = IF todo[g] = {i} THEN "reserved" ELSE "next"
        /\ expiresAt'[g] = expiresAt[g]
    BY <1>6, <2>1 DEF InsertReservation
  <2>3. \A j \in Inventories : status[g][j] # "confirmed" /\ g \notin fulfilled[j]
    BY <2>2 DEF WholeGroup
  <2>4. now <= expiresAt[g] =>
          \A j \in Inventories : demand[g][j] > 0 => j \in todo'[g] \/ status'[g][j] = "active"
    BY <2>1, <2>2 DEF WholeGroup
  <2>5. stage'[g] = "reserved" => todo'[g] = {}
    BY <2>2
  <2>6. \A j \in Inventories : status'[g][j] # "confirmed" /\ g \notin fulfilled'[j]
    BY <1>1, <2>1, <2>2, <2>3
  <2> QED
    BY <1>1, <2>2, <2>4, <2>5, <2>6 DEF WholeGroup
<1> QED
  BY <1>2, <1>3, <1>4, <1>5, <1>6 DEF Create

\* The updates of an order and of the expiry job.
LEMMA WholeUpdate ==
    ASSUME ControlInv, ControlInv', RowsDemanded, NEW g \in Groups, WholeGroup(g),
           \/ \E h \in Groups : ConfirmReservations(h) \/ ReleaseReservations(h)
           \/ ExpireReservations
    PROVE  WholeGroup(g)'
<1> USE DEF ControlInv
<1> /\ stage \in [Groups -> Stages] /\ expiresAt \in [Groups -> Nat]
    /\ status \in [Groups -> [Inventories -> RowStatus]] /\ now \in Nat
  BY DEF TypeOK
<1>1. UNCHANGED <<demand, now, fulfilled, stage, todo, expiresAt>>
  BY DEF ConfirmReservations, ReleaseReservations, ExpireReservations, txVars, stockVars
<1>2. \A i \in Inventories : g \in fulfilled[i] => status[g][i] = "released"
  BY DEF ShippedRowsReleased
<1>3. CASE ExpireReservations
  <2>1. \A i \in Inventories : now <= expiresAt[g] => status'[g][i] = status[g][i]
    BY <1>3 DEF ExpireReservations, Expired
  <2>2. \A i \in Inventories : status'[g][i] = "confirmed" => status[g][i] = "confirmed"
    BY <1>3 DEF ExpireReservations
  <2> QED
    BY <1>1, <2>1, <2>2 DEF WholeGroup
<1>4. ASSUME NEW h \in Groups, NEW to \in {"confirmed", "released"}, stage[h] = "reserved",
             UpdateGroup(h, "active", to)
      PROVE  WholeGroup(g)'
  <2>1. CASE g # h
    <3>1. status'[g] = status[g]
      BY <1>4, <2>1 DEF UpdateGroup
    <3> QED
      BY <1>1, <3>1 DEF WholeGroup
  <2>2. CASE g = h
    <3>1. \A i \in Inventories :
            status'[g][i] = IF status[g][i] = "active" THEN to ELSE status[g][i]
      BY <1>4, <2>2 DEF UpdateGroup
    <3>2. stage[g] = "reserved" /\ stage'[g] = "reserved"
      BY <1>1, <1>4, <2>2
    <3> QED
      BY <1>1, <1>2, <3>1, <3>2 DEF WholeGroup
  <2> QED
    BY <2>1, <2>2
<1> QED
  BY <1>3, <1>4 DEF ConfirmReservations, ReleaseReservations

\* A transaction of fulfillReservations.
LEMMA WholeFulfill ==
    ASSUME ControlInv, ControlInv', RowsDemanded, NEW g \in Groups, WholeGroup(g),
           NEW w \in FulfillRuns, FulfillInventory(w)
    PROVE  WholeGroup(g)'
<1> USE DEF ControlInv
<1> /\ status \in [Groups -> [Inventories -> RowStatus]]
    /\ fulfilled \in [Inventories -> SUBSET Groups]
    /\ expiresAt \in [Groups -> Nat] /\ now \in Nat
  BY DEF TypeOK
<1> SUFFICES ASSUME NEW i, i = Least(Pending(w)),
                    NEW shipped, shipped = batch[w][i] \cap InStatus("confirmed", i)
             PROVE  WholeGroup(g)'
  OBVIOUS
<1>1. i \in Inventories
  <2>1. Pending(w) \in SUBSET Inventories /\ Pending(w) # {}
    BY DEF FulfillInventory, Pending
  <2> QED
    BY <2>1, LeastItem
<1>2. UNCHANGED <<demand, now, stage, todo, expiresAt>>
  BY DEF FulfillInventory, txVars
<1>3. /\ status' = [h \in Groups |->
                      IF h \in shipped THEN [status[h] EXCEPT ![i] = "released"] ELSE status[h]]
      /\ fulfilled' = [fulfilled EXCEPT ![i] = @ \cup shipped]
  BY DEF FulfillInventory, Releasable
<1>4. CASE g \notin shipped
  <2>1. status'[g] = status[g] /\ \A j \in Inventories : g \in fulfilled'[j] <=> g \in fulfilled[j]
    BY <1>1, <1>3, <1>4
  <2> QED
    BY <1>2, <2>1 DEF WholeGroup
<1>5. CASE g \in shipped
  <2>1. status[g][i] = "confirmed"
    BY <1>5 DEF InStatus
  <2>2. stage[g] = "reserved" /\ demand[g][i] > 0
    BY <1>1, <2>1 DEF WholeGroup, RowsDemanded
  <2>3. now <= expiresAt[g] => \A j \in Inventories :
          demand[g][j] > 0 => status[g][j] = "confirmed" \/ g \in fulfilled[j]
    BY <1>1, <2>1, <2>2 DEF WholeGroup
  <2>4. /\ \A j \in Inventories : j # i => status'[g][j] = status[g][j]
        /\ \A j \in Inventories : g \in fulfilled[j] => g \in fulfilled'[j]
        /\ g \in fulfilled'[i]
    BY <1>1, <1>3, <1>5
  <2>5. now <= expiresAt[g] => \A j \in Inventories :
          demand[g][j] > 0 => status'[g][j] = "confirmed" \/ g \in fulfilled'[j]
    BY <2>3, <2>4
  <2> QED
    BY <1>2, <2>2, <2>5 DEF WholeGroup
<1> QED
  BY <1>4, <1>5

LEMMA WholeStep ==
    ASSUME ControlInv, ControlInv', RowsDemanded, WholeUntilExpiry, [Next]_vars
    PROVE  WholeUntilExpiry'
<1> SUFFICES ASSUME NEW g \in Groups
             PROVE  WholeGroup(g)'
  BY DEF WholeUntilExpiry, WholeGroup
<1>1. WholeGroup(g)
  BY WholeGroups
<1>2. ASSUME \/ \E w \in FulfillRuns : \/ StartFulfillment(w) \/ FinishFulfillment(w)
                                       \/ FulfillmentRejected(w) \/ CrashFulfillment(w)
             \/ Tick \/ UNCHANGED vars
      PROVE  WholeGroup(g)'
  <2>1. UNCHANGED <<demand, stage, todo, expiresAt, status, fulfilled>>
    BY <1>2 DEF StartFulfillment, FinishFulfillment, FulfillmentRejected, CrashFulfillment,
       StopRun, Tick, rowVars, txVars, stockVars, vars
  <2>2. now <= now'
    BY <1>2 DEF StartFulfillment, FinishFulfillment, FulfillmentRejected, CrashFulfillment,
       StopRun, Tick, vars, ControlInv, TypeOK
  <2> QED
    BY <1>1, <2>1, <2>2, WholeUnchanged DEF GroupUnchanged
<1> QED
  BY <1>1, <1>2, WholeCreate, WholeUpdate, WholeFulfill DEF Next, Fulfill

\* Whatever creates, confirms, expires and ships the rows of a group, in
\* whatever order: until they lapse they are made and change status as one.
THEOREM GroupsWholeUntilExpiry == Spec => []WholeUntilExpiry
<1>1. Init => WholeUntilExpiry
  BY DEF Init, WholeUntilExpiry
<1>2. ControlInv /\ ControlInv' /\ RowsDemanded /\ WholeUntilExpiry /\ [Next]_vars
        => WholeUntilExpiry'
  BY WholeStep
<1>3. ReservationInv => ControlInv
  BY DEF ReservationInv, ControlInv
<1> QED
  BY <1>1, <1>2, <1>3, ReservationInvariant, RowsDemandedInvariant, PTL DEF Spec

\* An order with a confirmed row has all of its items confirmed or shipped,
\* unless its rows had lapsed before.
THEOREM ConfirmedAsAWhole == Spec => []PartialOnlyAfterExpiry
<1>1. ReservationInv /\ RowsDemanded /\ WholeUntilExpiry => PartialOnlyAfterExpiry
  <2> SUFFICES ASSUME ReservationInv, RowsDemanded, WholeUntilExpiry, NEW g \in Groups,
                      NEW i \in Inventories, status[g][i] = "confirmed",
                      ~(expiresAt[g] < now)
               PROVE  \A j \in Inventories : demand[g][j] > 0
                        => status[g][j] = "confirmed" \/ g \in fulfilled[j]
    BY DEF PartialOnlyAfterExpiry
  <2>1. now <= expiresAt[g]
    BY DEF ReservationInv, TypeOK
  <2>2. WholeGroup(g) /\ demand[g][i] > 0
    BY WholeGroups DEF RowsDemanded
  <2> QED
    BY <2>1, <2>2 DEF WholeGroup
<1> QED
  BY <1>1, ReservationInvariant, RowsDemandedInvariant, GroupsWholeUntilExpiry, PTL
=============================================================================
