--------------------------- MODULE ReconcileBacklog ---------------------------
(***************************************************************************)
(* A backlog of stale orders, as an outage of the payment gateway leaves   *)
(* it, and the runs of reconcileOrders that are to drain it, a batch of    *)
(* ReconcileLimit orders at a time.  The steps are those of PlaceOrder;    *)
(* what is new is where they start: every request is over, and its order   *)
(* is still PENDING_PAYMENT.                                               *)
(*                                                                         *)
(* The orders of Parked have a payment reference: their charge was made    *)
(* and was not settled inline.  Those of Groups \ Parked have none: their  *)
(* process died before the charge.  No run resolves them, and they take    *)
(* up places in its batch.                                                 *)
(***************************************************************************)
EXTENDS PlaceOrder

CONSTANT Parked

\* With as many orders without a reference as a batch has places, a run may
\* read nothing else every time: findStalePending has a LIMIT and no ORDER BY.
ASSUME BacklogAssumption ==
    /\ Parked \subseteq Groups
    /\ \A k \in Keys : \E g \in Groups : KeyOf[g] = k
    /\ \A g, h \in Groups : KeyOf[g] = KeyOf[h] => g = h
    /\ Cardinality(Groups \ Parked) < ReconcileLimit

\* The rows of a parked order are still active or were released before the order
\* was inserted; those of the others were released, or the expiry job would
\* have failed their orders.  What no step reads any more (todo, txNow,
\* available) is left at its initial value.
BacklogInit ==
    /\ quantity = InitialQuantity
    /\ demand \in [Groups -> Demands]
    /\ \E held \in SUBSET Parked :
         status = [g \in Groups |-> [i \in Inventories |->
                     IF demand[g][i] = 0 THEN "none"
                     ELSE IF g \in held THEN "active" ELSE "released"]]
    /\ now = StaleAfter + 1
    /\ expiresAt = [g \in Groups |-> IF \E i \in Inventories : status[g][i] = "active"
                                     THEN now + ReservationExpiry ELSE 0]
    /\ stage = [g \in Groups |-> "reserved"]
    /\ todo = [g \in Groups |-> {}]
    /\ txNow = [g \in Groups |-> 0]
    /\ lockedBy = [i \in Inventories |-> NoGroup]
    /\ available = [g \in Groups |-> 0]
    /\ running = {}
    /\ batch = [w \in FulfillRuns |-> [i \in Inventories |-> {}]]
    /\ late = [i \in Inventories |-> {}]
    /\ fulfilled = [i \in Inventories |-> {}]
    /\ excess = [i \in Inventories |-> 0]
    /\ pc = [g \in Groups |-> IF g \in Parked THEN "done" ELSE "crashed"]
    /\ slot = [k \in Keys |->
                 LET owner == CHOOSE g \in Groups : KeyOf[g] = k
                 IN  IF owner \in Parked THEN owner ELSE "pending"]
    /\ body = [g \in Groups |-> IF g \in Parked THEN "PENDING_PAYMENT" ELSE "none"]
    /\ outcome = [g \in Groups |-> IF g \in Parked THEN g ELSE "none"]
    /\ order = [g \in Groups |-> "PENDING_PAYMENT"]
    /\ createdAt = [g \in Groups |-> 0]
    /\ reference = [g \in Groups |-> g \in Parked]
    /\ compensated = {}
    /\ attempts = [g \in Groups |-> IF g \in Parked THEN 1 ELSE 0]
    /\ charges = [g \in Groups |-> IF g \in Parked THEN 1 ELSE 0]
    /\ payment = [g \in Groups |-> IF g \in Parked THEN "open" ELSE "none"]
    /\ scan = [j \in ReconcileRuns |-> {}]
    /\ polled = [j \in ReconcileRuns |-> NoAnswer]
    /\ deadLetters = {}

BacklogNext ==
    \/ \E j \in ReconcileRuns : Reconcile(j)
    \/ \E g \in Parked : SettlePayment(g)
    \/ ExpireReservations
    \/ Tick

\* As in PlaceOrder, but that the expiry job need not run: it would resolve
\* orders by failing them.
BacklogSpec ==
    /\ BacklogInit /\ [][BacklogNext]_vars
    /\ \A g \in Parked : WF_vars(SettlePayment(g))
    /\ \A j \in ReconcileRuns :
         /\ WF_vars(StartReconcile(j))
         /\ \A g \in Parked : SF_vars(PollPayment(j, g))
         /\ SF_vars(ApplyAnswer(j))

-----------------------------------------------------------------------------
\* reconcileOrders: "Remaining orders are picked up on the next run."  Every
\* order with a reference is resolved, whatever each batch consists of, however
\* often a poll or the transaction after it fails, and with runs overlapping.
BacklogIsDrained == \A g \in Parked : <>(order[g] # "PENDING_PAYMENT")

\* Batches that overlap do not mix up their answers: an order is CONFIRMED by
\* its own charge only, and FAILED by its own charge or by its expiry.
ResolvedByItsOwnCharge ==
    \A g \in Parked :
        /\ order[g] = "CONFIRMED" => payment[g] = "succeeded"
        /\ order[g] = "FAILED" =>
             payment[g] = "failed" \/ (0 < expiresAt[g] /\ expiresAt[g] < now)
=============================================================================
