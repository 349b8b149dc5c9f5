----------------------- MODULE ReconcileBacklog_proofs -----------------------
(***************************************************************************)
(* Proofs about ReconcileBacklog, for any number of orders, parked or not, *)
(* of overlapping runs and of places in a batch.  Its steps are those of   *)
(* PlaceOrder, so that the inductive invariant proved there carries over   *)
(* as soon as it holds where the backlog starts.                           *)
(***************************************************************************)
EXTENDS ReconcileBacklog, PlaceOrder_proofs

-----------------------------------------------------------------------------
(* The backlog is a state of PlaceOrder, and its steps are steps of it.    *)

LEMMA BacklogSteps == [BacklogNext]_vars => [Next]_vars
<1>1. \A g \in Parked : g \in Groups
  BY BacklogAssumption
<1> QED
  BY <1>1 DEF BacklogNext, Next

\* Where the clock stands, and which rows have not lapsed.
LEMMA BacklogClock ==
    ASSUME BacklogInit
    PROVE  /\ now \in Nat \ {0}
           /\ expiresAt \in [Groups -> Nat]
           /\ \A g \in Groups :
                /\ expiresAt[g] = 0 \/ \E i \in Inventories : status[g][i] = "active"
                /\ (\E i \in Inventories : status[g][i] = "active") => expiresAt[g] > 0
<1>1. now = StaleAfter + 1 /\ StaleAfter \in Nat /\ ReservationExpiry \in Nat
  BY RequestAssumption, BoundAssumption DEF BacklogInit
<1>2. now \in Nat \ {0} /\ now + ReservationExpiry \in Nat \ {0}
  BY <1>1
<1>3. expiresAt = [g \in Groups |-> IF \E i \in Inventories : status[g][i] = "active"
                                    THEN now + ReservationExpiry ELSE 0]
  BY DEF BacklogInit
<1> QED
  BY <1>2, <1>3

LEMMA BacklogFacts == BacklogInit => ReservationFacts
<1> SUFFICES ASSUME BacklogInit PROVE ReservationFacts
  OBVIOUS
<1>1. RP!TypeOK
  <2>1. expiresAt \in [Groups -> Nat]
    BY BacklogClock
  <2>2. status \in [Groups -> [Inventories -> RP!RowStatus]]
    BY DEF BacklogInit, RP!RowStatus
  <2>3. quantity \in [Inventories -> Nat]
    BY QuantityAssumption DEF BacklogInit
  <2>4. /\ stage \in [Groups -> RP!Stages] /\ todo \in [Groups -> SUBSET Inventories]
        /\ txNow \in [Groups -> Nat] /\ available \in [Groups -> Int]
        /\ lockedBy \in [Inventories -> Groups \cup {NoGroup}]
    BY DEF BacklogInit, RP!Stages
  <2>5. /\ running \subseteq FulfillRuns
        /\ batch \in [FulfillRuns -> [Inventories -> SUBSET Groups]]
        /\ late \in [Inventories -> SUBSET Groups]
        /\ fulfilled \in [Inventories -> SUBSET Groups]
        /\ excess \in [Inventories -> Nat] /\ demand \in [Groups -> Demands]
    BY DEF BacklogInit
  <2> QED
    BY <2>1, <2>2, <2>3, <2>4, <2>5, BacklogClock DEF RP!TypeOK
<1>2. RP!ControlInv
  BY <1>1, RequestAssumption DEF BacklogInit, RP!ControlInv, RP!LoopTodo, RP!LockHeld, RP!LateRowsSettled,
     RP!ShippedRowsReleased
<1>3. RP!RowsDemanded
  BY QuantityAssumption DEF BacklogInit, RP!RowsDemanded
<1>4. RP!WholeUntilExpiry
  BY DEF BacklogInit, RP!WholeUntilExpiry
<1> QED
  BY <1>2, <1>3, <1>4 DEF ReservationFacts

LEMMA BacklogOrders == BacklogInit => OrderInv
<1> SUFFICES ASSUME BacklogInit PROVE OrderInv
  OBVIOUS
<1>1. TypeOK
  <2>1. R!TypeOK
    BY BacklogFacts, ReservationTypes DEF ReservationFacts
  <2>2. slot \in [Keys -> {"absent", "pending"} \cup Groups]
    BY BacklogAssumption DEF BacklogInit
  <2>3. /\ createdAt \in [Groups -> 0 .. Horizon]
        /\ attempts \in [Groups -> 0 .. ChargeAttempts]
        /\ charges \in [Groups -> 0 .. ChargeAttempts]
    BY RequestAssumption, BoundAssumption DEF BacklogInit
  <2> QED
    BY <2>1, <2>2, <2>3 DEF BacklogInit, TypeOK, InProgress, Over, OrderStatus
<1>2. RequestsInOrder
  BY BacklogAssumption, GroupAssumption DEF BacklogInit, RequestsInOrder, BeforeInsert, AfterInsert, Paying, Over
<1>3. ChargesInOrder
  BY RequestAssumption DEF BacklogInit, ChargesInOrder, BeforeInsert
<1>4. KeysInOrder
  BY BacklogAssumption, GroupAssumption DEF BacklogInit, KeysInOrder
<1>5. RunsInOrder
  BY DEF BacklogInit, RunsInOrder
<1>6. ConfirmedRowsConfirmedOrder /\ CommitsInOrder
  <2>1. \A g \in Groups : pc[g] \in {"done", "crashed"}
    BY DEF BacklogInit
  <2>2. \A g \in Groups : ~HasConfirmed(g)
    BY DEF BacklogInit, HasConfirmed
  <2>3. \A g \in Groups : outcome[g] # "error"
    BY GroupAssumption DEF BacklogInit
  <2> QED
    BY <2>1, <2>2, <2>3 DEF ConfirmedRowsConfirmedOrder, CommitsInOrder, CompensationComplete
<1>7. RowsInTime
  <2> SUFFICES ASSUME NEW g \in Groups, now <= expiresAt[g]
               PROVE  StillHeld(g) /\ order[g] # "CONFIRMED" /\ g \notin compensated
    BY DEF RowsInTime
  <2>1. order[g] = "PENDING_PAYMENT" /\ compensated = {}
    BY DEF BacklogInit
  <2>2. \E i \in Inventories : status[g][i] = "active"
    BY BacklogClock
  <2>3. StillHeld(g)
    BY <2>2, QuantityAssumption DEF BacklogInit, StillHeld
  <2> QED
    BY <2>1, <2>3
<1> QED
  BY <1>1, <1>2, <1>3, <1>4, <1>5, <1>6, <1>7 DEF OrderInv

-----------------------------------------------------------------------------
(* How the backlog is resolved.                                            *)

\* What is to be known of the rows to see why an order failed: all of them were
\* made before the backlog began, and what can still expire has a time to.
FailedInOrder ==
    \A g \in Groups :
        /\ stage[g] = "reserved"
        /\ (\E i \in Inventories : status[g][i] = "active") => expiresAt[g] > 0
        /\ order[g] = "FAILED" =>
             payment[g] = "failed" \/ (0 < expiresAt[g] /\ expiresAt[g] < now)

LEMMA FailedStep ==
    ASSUME OrderInv, FailedInOrder, [BacklogNext]_vars
    PROVE  FailedInOrder'
<1> SUFFICES ASSUME NEW g \in Groups
             PROVE  /\ stage'[g] = "reserved"
                    /\ \A i \in Inventories : status'[g][i] = "active" => expiresAt'[g] > 0
                    /\ order'[g] = "FAILED" =>
                         payment'[g] = "failed" \/ (0 < expiresAt'[g] /\ expiresAt'[g] < now')
  BY DEF FailedInOrder
<1>0. /\ TypeOK /\ RunsInOrder /\ stage[g] = "reserved"
      /\ \A i \in Inventories : status[g][i] = "active" => expiresAt[g] > 0
      /\ order[g] = "FAILED" =>
           payment[g] = "failed" \/ (0 < expiresAt[g] /\ expiresAt[g] < now)
  BY DEF OrderInv, FailedInOrder
<1> /\ status \in [Groups -> [Inventories -> R!RowStatus]]
    /\ expiresAt \in [Groups -> Nat] /\ now \in Nat
  BY <1>0 DEF TypeOK, R!TypeOK
<1>1. ASSUME UNCHANGED <<stage, status, expiresAt, now>>,
             order'[g] = "FAILED" => order[g] = "FAILED" \/ payment'[g] = "failed",
             payment[g] = "failed" => payment'[g] = "failed"
      PROVE  /\ stage'[g] = "reserved"
             /\ \A i \in Inventories : status'[g][i] = "active" => expiresAt'[g] > 0
             /\ order'[g] = "FAILED" =>
                  payment'[g] = "failed" \/ (0 < expiresAt'[g] /\ expiresAt'[g] < now')
  BY <1>0, <1>1
<1>2. ASSUME NEW j \in ReconcileRuns, ApplyAnswer(j)
      PROVE  /\ stage'[g] = "reserved"
             /\ \A i \in Inventories : status'[g][i] = "active" => expiresAt'[g] > 0
             /\ order'[g] = "FAILED" =>
                  payment'[g] = "failed" \/ (0 < expiresAt'[g] /\ expiresAt'[g] < now')
  <2>1. PICK h \in Groups :
          /\ reference[h]
          /\ \/ payment[h] = "succeeded" /\ ConfirmOrder(h)
             \/ payment[h] = "failed" /\ FailOrder(h)
    BY <1>0, <1>2, AnswerFacts
  <2>2. UNCHANGED <<stage, expiresAt, now, payment>>
    BY <1>2, <2>1 DEF ApplyAnswer, ConfirmOrder, FailOrder, R!ConfirmReservations,
       R!ReleaseReservations, gatewayVars
  <2>3. \A i \in Inventories : status'[g][i] = "active" => status[g][i] = "active"
    <3>1. R!UpdateGroup(h, "active", "confirmed") \/ R!UpdateGroup(h, "active", "released")
      BY <2>1 DEF ConfirmOrder, FailOrder, R!ConfirmReservations, R!ReleaseReservations
    <3> QED
      BY <3>1 DEF R!UpdateGroup
  <2>4. order'[g] = "FAILED" => order[g] = "FAILED" \/ payment[g] = "failed"
    BY <1>0, <2>1, UpdateTyped DEF ConfirmOrder, FailOrder, OrderStatus
  <2> QED
    BY <1>0, <2>2, <2>3, <2>4
<1>3. ASSUME NEW j \in ReconcileRuns, Reconcile(j), ~ApplyAnswer(j)
      PROVE  UNCHANGED <<stage, status, expiresAt, now, order, payment>>
  BY <1>3 DEF Reconcile, StartReconcile, ApplyAnswerFails, PollPayment, SkipOrder, orderVars,
     gatewayVars, reservations
<1>4. ASSUME NEW h \in Parked, SettlePayment(h)
      PROVE  /\ UNCHANGED <<stage, status, expiresAt, now, order>>
             /\ payment[g] = "failed" => payment'[g] = "failed"
  BY <1>0, <1>4 DEF TypeOK, SettlePayment, orderVars, reservations
<1>5. ASSUME ExpireReservations
      PROVE  /\ stage'[g] = "reserved"
             /\ \A i \in Inventories : status'[g][i] = "active" => expiresAt'[g] > 0
             /\ order'[g] = "FAILED" =>
                  payment'[g] = "failed" \/ (0 < expiresAt'[g] /\ expiresAt'[g] < now')
  <2>1. UNCHANGED <<stage, expiresAt, now, payment>>
    BY <1>5 DEF ExpireReservations, R!ExpireReservations, gatewayVars
  <2>2. \A i \in Inventories : status'[g][i] = "active" => status[g][i] = "active"
    BY <1>5 DEF ExpireReservations, R!ExpireReservations
  <2>3. ASSUME order'[g] = "FAILED", order[g] # "FAILED"
        PROVE  0 < expiresAt[g] /\ expiresAt[g] < now
    <3>1. PICK i \in Inventories : g \in R!Expired(i)
      BY <1>0, <1>5, <2>3 DEF ExpireReservations, FailPending, TypeOK
    <3>2. status[g][i] = "active" /\ expiresAt[g] < now
      BY <3>1 DEF R!Expired, R!InStatus
    <3> QED
      BY <1>0, <3>2
  <2> QED
    BY <1>0, <2>1, <2>2, <2>3
<1>6. ASSUME Tick
      PROVE  /\ stage'[g] = "reserved"
             /\ \A i \in Inventories : status'[g][i] = "active" => expiresAt'[g] > 0
             /\ order'[g] = "FAILED" =>
                  payment'[g] = "failed" \/ (0 < expiresAt'[g] /\ expiresAt'[g] < now')
  BY <1>0, <1>6 DEF Tick, R!Tick, R!rowVars, orderVars, gatewayVars
<1>7. CASE UNCHANGED vars
  BY <1>1, <1>7 DEF vars, reservations, orderVars, gatewayVars
<1> QED
  BY <1>1, <1>2, <1>3, <1>4, <1>5, <1>6, <1>7 DEF BacklogNext

\* Everything proved of the orders and rows of placeOrder holds while a backlog
\* is drained: requests that are over, and their orders, are as PlaceOrder
\* leaves them.
THEOREM BacklogInvariant == BacklogSpec => [](OrderInv /\ FailedInOrder)
<1>1. BacklogInit => FailedInOrder
  <2> SUFFICES ASSUME BacklogInit, NEW g \in Groups
               PROVE  /\ stage[g] = "reserved" /\ order[g] # "FAILED"
                      /\ (\E i \in Inventories : status[g][i] = "active") => expiresAt[g] > 0
    BY DEF FailedInOrder
  <2>1. stage[g] = "reserved" /\ order[g] = "PENDING_PAYMENT"
    BY DEF BacklogInit
  <2> QED
    BY <2>1, BacklogClock
<1>2. OrderInv /\ FailedInOrder /\ [BacklogNext]_vars => FailedInOrder'
  BY FailedStep
<1>3. OrderInv /\ ReservationFacts /\ [BacklogNext]_vars => ReservationFacts'
  <2> SUFFICES ASSUME OrderInv, ReservationFacts, [BacklogNext]_vars
               PROVE  ReservationFacts'
    OBVIOUS
  <2>1. [RP!Next]_(RP!vars)
    BY BacklogSteps, StepImplements, SameSteps DEF OrderInv, TypeOK
  <2>2. RP!ControlInv'
    BY <2>1, FiniteAssumption, QuantityAssumption, BoundAssumption, GroupAssumption,
       RP!ControlStep DEF ReservationFacts, IsFiniteSet, RP!IsFiniteSet
  <2>3. RP!RowsDemanded' /\ RP!WholeUntilExpiry'
    BY <2>1, <2>2, FiniteAssumption, QuantityAssumption, BoundAssumption, GroupAssumption,
       RP!RowsDemandedStep, RP!WholeStep DEF ReservationFacts, IsFiniteSet, RP!IsFiniteSet
  <2> QED
    BY <2>2, <2>3 DEF ReservationFacts
<1>4. OrderInv /\ ReservationFacts /\ ReservationFacts' /\ [BacklogNext]_vars => OrderInv'
  BY BacklogSteps, OrderStep DEF ReservationFacts
<1> QED
  BY <1>1, <1>2, <1>3, <1>4, BacklogFacts, BacklogOrders, PTL DEF BacklogSpec

\* However many orders are stale, batches overlap and answers come late, no order
\* is resolved by the answer to another: it is CONFIRMED by its own charge only,
\* and FAILED by its own charge or because its rows lapsed.
THEOREM BacklogResolvedByItsOwnCharge == BacklogSpec => []ResolvedByItsOwnCharge
<1>1. OrderInv /\ FailedInOrder => ResolvedByItsOwnCharge
  BY BacklogAssumption DEF OrderInv, ChargesInOrder, FailedInOrder, ResolvedByItsOwnCharge
<1> QED
  BY <1>1, BacklogInvariant, PTL
=============================================================================
