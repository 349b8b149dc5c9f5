----------------------------- MODULE PlaceOrder -----------------------------
(***************************************************************************)
(* POST /orders from the controller down, next to the background jobs: the *)
(* idempotency keys in Redis, the steps of OrderService.placeOrder and of  *)
(* its compensation, the orders table, the payment gateway, expireOrders   *)
(* and reconcileOrders, over the reservations of module Reservations.      *)
(*                                                                         *)
(* A request g is one call of the controller.  It makes at most one order  *)
(* and one reservation group (randomUUID), so that g names all three.  The *)
(* tax and the payment gateway and their circuit breakers succeed or fail  *)
(* as they like; a charge settles when it likes; a request that never      *)
(* takes its next step is one whose process is slow or dead.               *)
(***************************************************************************)
EXTENDS Integers, FiniteSets

CONSTANTS
    Groups, Inventories, InitialQuantity, MaxQuantity, Demands,
    ReservationExpiry, Horizon, FulfillRuns, BatchSize, NoGroup,
    Keys,              \* idempotency keys
    KeyOf,             \* the key each request carries
    ChargeAttempts,    \* attempts of withRetry around PaymentGateway.charge
    StaleAfter,        \* findStalePending: 5 minutes, in ticks
    ReconcileRuns,     \* runs of reconcileOrders that may overlap
    ReconcileLimit,    \* BATCH_SIZE of reconcileOrders
    Faults             \* bound: the faults beyond errors that can happen

\* Those of module Reservations, for its instance R.
ASSUME FiniteAssumption ==
    /\ IsFiniteSet(Groups)
    /\ IsFiniteSet(Inventories)
    /\ Inventories \subseteq Nat
ASSUME QuantityAssumption ==
    /\ MaxQuantity \in Nat \ {0}
    /\ InitialQuantity \in [Inventories -> Nat]
    /\ Demands \subseteq [Inventories -> 0 .. MaxQuantity]
    /\ \A d \in Demands : \E i \in Inventories : d[i] > 0
ASSUME BoundAssumption ==
    /\ ReservationExpiry \in Nat \ {0}
    /\ Horizon \in Nat
    /\ BatchSize \in Nat \ {0}

\* A request is told from what else a key or an answer can be.
ASSUME GroupAssumption ==
    Groups \cap {NoGroup, "absent", "pending", "none", "conflict", "error"} = {}

ASSUME RequestAssumption ==
    /\ KeyOf \in [Groups -> Keys]
    /\ ChargeAttempts \in Nat \ {0}
    /\ StaleAfter \in Nat
    /\ ReconcileLimit \in Nat \ {0}

\* crash: the process of a request dies.  ackLost: a transaction commits and
\* its caller sees an error.  release: the compensating transaction fails.
\* redis: a key is not released, or a job not queued, because Redis is down.
FaultKinds == {"crash", "ackLost", "release", "redis"}
ASSUME FaultAssumption == Faults \subseteq FaultKinds

VARIABLES
    quantity, demand, status, expiresAt, now, stage, todo, txNow, lockedBy,
    available, running, batch, late, fulfilled, excess

R == INSTANCE Reservations

\* The variables of Reservations.
reservations == <<quantity, demand, status, expiresAt, now, stage, todo, txNow,
                  lockedBy, available, running, batch, late, fulfilled, excess>>

VARIABLES
    pc,          \* where the request stands
    slot,        \* idempotency:<key> in Redis
    body,        \* status in the response placeOrder's result is turned into
    outcome,     \* what the client was answered: an order, or no order
    order,       \* orders.status, "none" before the insert
    createdAt,   \* orders.created_at
    reference,   \* whether orders.payment_reference is set
    compensated, \* history: the orders the catch block of placeOrder failed
    attempts,    \* calls of PaymentGateway.charge so far
    charges,     \* gateway: charges made for the order
    payment,     \* gateway: state of the charge whose reference was returned
    scan,        \* orders a reconcile run has still to look at
    polled,      \* order and answer a reconcile run is about to apply
    deadLetters  \* jobs in the dead-letter queue

requestVars == <<pc, body, outcome, attempts>>
orderVars == <<order, createdAt, reference, compensated>>
gatewayVars == <<charges, payment>>
jobVars == <<scan, polled>>
vars == <<reservations, requestVars, slot, orderVars, gatewayVars, jobVars,
          deadLetters>>

OrderStatus == {"PENDING_PAYMENT", "CONFIRMED", "FAILED"}
Settled == {"succeeded", "failed"}
NoAnswer == <<NoGroup, "unknown">>

\* Between the claim of the key and the end of the controller.
InProgress == {"claimed", "reserving", "taxed", "persisted", "charged", "settled",
               "unsettled", "stored", "placed", "failing", "failingOrder",
               "releasing"}
Over == {"done", "crashed"}

-----------------------------------------------------------------------------
Init ==
    /\ R!Init
    /\ pc = [g \in Groups |-> "arrived"]
    /\ slot = [k \in Keys |-> "absent"]
    /\ body = [g \in Groups |-> "none"]
    /\ outcome = [g \in Groups |-> "none"]
    /\ order = [g \in Groups |-> "none"]
    /\ createdAt = [g \in Groups |-> 0]
    /\ reference = [g \in Groups |-> FALSE]
    /\ compensated = {}
    /\ attempts = [g \in Groups |-> 0]
    /\ charges = [g \in Groups |-> 0]
    /\ payment = [g \in Groups |-> "none"]
    /\ scan = [j \in ReconcileRuns |-> {}]
    /\ polled = [j \in ReconcileRuns |-> NoAnswer]
    /\ deadLetters = {}

\* Request g goes from one of the places in `from` to `to`.
Goto(g, from, to) ==
    /\ pc[g] \in from
    /\ pc' = [pc EXCEPT ![g] = to]

\* The UPDATE of OrderRepository.updateStatus: no guard on the status it
\* overwrites; the reference is written when there is one to write.  With a
\* manager the SELECT after it is part of the same transaction; without one it
\* is a statement of its own, ReadOrder.
UpdateStatus(g, new, withReference) ==
    /\ order' = [order EXCEPT ![g] = new]
    /\ reference' = [reference EXCEPT ![g] = @ \/ withReference]

\* OrderRepository.failPendingByGroupIds.
FailPending(S) ==
    order' = [g \in Groups |->
                IF g \in S /\ order[g] = "PENDING_PAYMENT" THEN "FAILED" ELSE order[g]]

-----------------------------------------------------------------------------
(* placeOrderController.                                                   *)

\* SET NX.
ClaimKey(g) ==
    /\ Goto(g, {"arrived"}, IF slot[KeyOf[g]] = "absent" THEN "claimed" ELSE "duplicate")
    /\ slot' = [slot EXCEPT ![KeyOf[g]] = IF @ = "absent" THEN "pending" ELSE @]
    /\ UNCHANGED <<reservations, body, outcome, attempts, orderVars, gatewayVars,
                   jobVars, deadLetters>>

\* GET after a failed claim: the cached response, or 409.
AnswerDuplicate(g) ==
    /\ Goto(g, {"duplicate"}, "done")
    /\ outcome' = [outcome EXCEPT ![g] =
                     IF slot[KeyOf[g]] \in Groups THEN slot[KeyOf[g]] ELSE "conflict"]
    /\ UNCHANGED <<reservations, slot, body, attempts, orderVars, gatewayVars,
                   jobVars, deadLetters>>

\* The response is cached over the claim, and sent.
CacheResponse(g) ==
    /\ Goto(g, {"placed"}, "done")
    /\ slot' = [slot EXCEPT ![KeyOf[g]] = g]
    /\ outcome' = [outcome EXCEPT ![g] = g]
    /\ UNCHANGED <<reservations, body, attempts, orderVars, gatewayVars, jobVars,
                   deadLetters>>

\* Mutant of CacheFails: a failing SET takes the path of a failing order.
CacheFailureFailsOrder(g) ==
    /\ Goto(g, {"placed"}, "failingOrder")
    /\ UNCHANGED <<reservations, slot, body, outcome, attempts, orderVars,
                   gatewayVars, jobVars, deadLetters>>

\* The SET is inside the try: its failure is handled as that of the order.
CacheFails(g) ==
    /\ Goto(g, {"placed"}, "releasing")
    /\ UNCHANGED <<reservations, slot, body, outcome, attempts, orderVars,
                   gatewayVars, jobVars, deadLetters>>

\* DEL in the catch block, then errorHandler answers, also when the DEL fails.
ReleaseKey(g) ==
    /\ Goto(g, {"releasing"}, "done")
    /\ \/ slot' = [slot EXCEPT ![KeyOf[g]] = "absent"]
       \/ "redis" \in Faults /\ UNCHANGED slot
    /\ outcome' = [outcome EXCEPT ![g] = "error"]
    /\ UNCHANGED <<reservations, body, attempts, orderVars, gatewayVars, jobVars,
                   deadLetters>>

\* IDEMPOTENCY_TTL_SECONDS pass.  No request is at work for 24 hours.
KeyExpires(k) ==
    /\ slot[k] # "absent"
    /\ \A g \in Groups : KeyOf[g] = k => pc[g] \notin InProgress
    /\ slot' = [slot EXCEPT ![k] = "absent"]
    /\ UNCHANGED <<reservations, requestVars, orderVars, gatewayVars, jobVars,
                   deadLetters>>

-----------------------------------------------------------------------------
(* OrderService.placeOrder up to the charge.                               *)

\* Items that do not validate, no warehouse, or a circuit that is open.
RejectEarly(g) ==
    /\ Goto(g, {"claimed"}, "releasing")
    /\ UNCHANGED <<reservations, slot, body, outcome, attempts, orderVars,
                   gatewayVars, jobVars, deadLetters>>

\* A warehouse was found; what it has may be gone again when it is reserved.
StartReserving(g) ==
    /\ Goto(g, {"claimed"}, "reserving")
    /\ R!CreateReservations(g)
    /\ UNCHANGED <<slot, body, outcome, attempts, orderVars, gatewayVars, jobVars,
                   deadLetters>>

Reserve(g) ==
    /\ pc[g] = "reserving"
    /\ \/ R!BeginTransaction(g)
       \/ R!LockForReservation(g)
       \/ R!GetAvailable(g)
       \/ R!InsertReservation(g)
       \/ R!InsufficientInventory(g)
       \/ R!AbortReservation(g)
    /\ UNCHANGED <<requestVars, slot, orderVars, gatewayVars, jobVars, deadLetters>>

\* createReservations threw, outside the try: nothing is released.
ReservationFailed(g) ==
    /\ stage[g] = "rejected"
    /\ Goto(g, {"reserving"}, "releasing")
    /\ UNCHANGED <<reservations, slot, body, outcome, attempts, orderVars,
                   gatewayVars, jobVars, deadLetters>>

CalculateTax(g) ==
    /\ stage[g] = "reserved"
    /\ Goto(g, {"reserving"}, "taxed")
    /\ UNCHANGED <<reservations, slot, body, outcome, attempts, orderVars,
                   gatewayVars, jobVars, deadLetters>>

TaxFails(g) ==
    /\ stage[g] = "reserved"
    /\ Goto(g, {"reserving"}, "failing")
    /\ UNCHANGED <<reservations, slot, body, outcome, attempts, orderVars,
                   gatewayVars, jobVars, deadLetters>>

\* Mutant of KeyTaken: orders without the UNIQUE constraint.
KeyNeverTaken(k) == FALSE

\* UNIQUE (idempotency_key) of orders.
KeyTaken(k) == \E h \in Groups : KeyOf[h] = k /\ order[h] # "none"

\* The transaction of persistOrder; when its commit is not acknowledged,
\* placeOrder's `order` stays null.  The bound on the clock leaves room for the
\* order to become stale.
PersistOrder(g) ==
    /\ now + StaleAfter < Horizon
    /\ \/ Goto(g, {"taxed"}, "persisted")
       \/ "ackLost" \in Faults /\ Goto(g, {"taxed"}, "failing")
    /\ ~KeyTaken(KeyOf[g])
    /\ order' = [order EXCEPT ![g] = "PENDING_PAYMENT"]
    /\ createdAt' = [createdAt EXCEPT ![g] = now]
    /\ UNCHANGED <<reservations, slot, body, outcome, attempts, reference,
                   compensated, gatewayVars, jobVars, deadLetters>>

\* The UNIQUE constraint rejects the insert, or another statement fails.
PersistFails(g) ==
    /\ Goto(g, {"taxed"}, "failing")
    /\ UNCHANGED <<reservations, slot, body, outcome, attempts, orderVars,
                   gatewayVars, jobVars, deadLetters>>

-----------------------------------------------------------------------------
(* chargeOrder.                                                            *)

\* The gateway takes the charge and its reference arrives.
Charge(g) ==
    /\ Goto(g, {"persisted"}, "charged")
    /\ attempts[g] < ChargeAttempts
    /\ attempts' = [attempts EXCEPT ![g] = @ + 1]
    /\ charges' = [charges EXCEPT ![g] = @ + 1]
    /\ payment' = [payment EXCEPT ![g] = "open"]
    /\ UNCHANGED <<reservations, slot, body, outcome, orderVars, jobVars, deadLetters>>

\* Mutant of AfterFailedAttempt: one attempt too many.
AfterOneMoreAttempt(g) ==
    IF attempts[g] < ChargeAttempts THEN "persisted" ELSE "failingOrder"

\* withRetry tries again until the attempts are used up.
AfterFailedAttempt(g) ==
    IF attempts[g] + 1 < ChargeAttempts THEN "persisted" ELSE "failingOrder"

\* charge throws: the card is declined, or the gateway took the charge and the
\* reply is lost.
ChargeThrows(g) ==
    /\ Goto(g, {"persisted"}, AfterFailedAttempt(g))
    /\ attempts' = [attempts EXCEPT ![g] = @ + 1]
    /\ \E made \in {0, 1} : charges' = [charges EXCEPT ![g] = @ + made]
    /\ UNCHANGED <<reservations, slot, body, outcome, orderVars, payment, jobVars,
                   deadLetters>>

\* The payment circuit is open, asked once before the attempts.
PaymentCircuitOpen(g) ==
    /\ attempts[g] = 0
    /\ Goto(g, {"persisted"}, "failingOrder")
    /\ UNCHANGED <<reservations, slot, body, outcome, attempts, orderVars,
                   gatewayVars, jobVars, deadLetters>>

\* Mutant of GetStatus: what is not failed counts as paid.
GetStatusOptimistic(g) ==
    /\ \/ payment[g] # "failed" /\ Goto(g, {"charged"}, "settled")
       \/ payment[g] = "failed" /\ Goto(g, {"charged"}, "failingOrder")
    /\ UNCHANGED <<reservations, slot, body, outcome, attempts, orderVars,
                   gatewayVars, jobVars, deadLetters>>

\* getStatus: the state of the charge, or unknown when both attempts fail.
GetStatus(g) ==
    /\ \/ payment[g] = "succeeded" /\ Goto(g, {"charged"}, "settled")
       \/ payment[g] = "failed" /\ Goto(g, {"charged"}, "failingOrder")
       \/ Goto(g, {"charged"}, "unsettled")
    /\ UNCHANGED <<reservations, slot, body, outcome, attempts, orderVars,
                   gatewayVars, jobVars, deadLetters>>

\* External: an open charge succeeds or fails, for good.
SettlePayment(g) ==
    /\ payment[g] = "open"
    /\ \E s \in Settled : payment' = [payment EXCEPT ![g] = s]
    /\ UNCHANGED <<reservations, requestVars, slot, orderVars, charges, jobVars,
                   deadLetters>>

-----------------------------------------------------------------------------
(* OrderService.applyPaymentResult and releaseOrderAndReservations.        *)

\* Mutants of ConfirmOrder and FailOrder: one of their two updates is missing,
\* or rows are deleted instead of released.
ConfirmRowsOnly(g) ==
    /\ R!ConfirmReservations(g)
    /\ order' = order
    /\ reference' = [reference EXCEPT ![g] = TRUE]
FailOrderOnly(g) ==
    /\ stage[g] = "reserved"
    /\ UpdateStatus(g, "FAILED", FALSE)
    /\ UNCHANGED reservations

FailOrderDeletingRows(g) ==
    /\ stage[g] = "reserved"
    /\ status' = [status EXCEPT ![g] = [i \in Inventories |-> "none"]]
    /\ UpdateStatus(g, "FAILED", FALSE)
    /\ UNCHANGED <<quantity, demand, expiresAt, now, stage, todo, txNow, lockedBy,
                   available, running, batch, late, fulfilled, excess>>

\* One transaction each: the rows and the order.
ConfirmOrder(g) ==
    /\ R!ConfirmReservations(g)
    /\ UpdateStatus(g, "CONFIRMED", TRUE)

FailOrder(g) ==
    /\ R!ReleaseReservations(g)
    /\ UpdateStatus(g, "FAILED", FALSE)

ApplySucceeded(g) ==
    /\ \/ Goto(g, {"settled"}, "placed") /\ body' = [body EXCEPT ![g] = "CONFIRMED"]
       \/ "ackLost" \in Faults /\ Goto(g, {"settled"}, "failingOrder") /\ UNCHANGED body
    /\ ConfirmOrder(g)
    /\ UNCHANGED <<slot, outcome, attempts, createdAt, compensated, gatewayVars,
                   jobVars, deadLetters>>

\* Not settled: updateStatus without a manager.  Its UPDATE commits by itself.
StoreReference(g) ==
    /\ Goto(g, {"unsettled"}, "stored")
    /\ UpdateStatus(g, "PENDING_PAYMENT", TRUE)
    /\ UNCHANGED <<reservations, slot, body, outcome, attempts, createdAt,
                   compensated, gatewayVars, jobVars, deadLetters>>

\* Its SELECT reads the order as the jobs may have left it meanwhile.
ReadOrder(g) ==
    /\ Goto(g, {"stored"}, "placed")
    /\ body' = [body EXCEPT ![g] = order[g]]
    /\ UNCHANGED <<reservations, slot, outcome, attempts, orderVars, gatewayVars,
                   jobVars, deadLetters>>

\* Mutant of ApplyFails: the error of the transaction is swallowed.
ApplyFailsUnnoticed(g) ==
    /\ Goto(g, {"settled", "unsettled", "stored"}, "placed")
    /\ body' = [body EXCEPT ![g] = IF pc[g] = "settled" THEN "CONFIRMED" ELSE "PENDING_PAYMENT"]
    /\ UNCHANGED <<reservations, slot, outcome, attempts, orderVars,
                   gatewayVars, jobVars, deadLetters>>

\* The transaction, the UPDATE or the SELECT throws, and with it placeOrder: in
\* the last case, and when the UPDATE is not acknowledged, the reference is there.
ApplyFails(g) ==
    /\ Goto(g, {"settled", "unsettled", "stored"}, "failingOrder")
    /\ UNCHANGED <<reservations, slot, body, outcome, attempts, orderVars,
                   gatewayVars, jobVars, deadLetters>>

\* The catch block of placeOrder; it fails the order if it knows of one.  When
\* its commit is not acknowledged the job is queued all the same.
Compensate(g) ==
    /\ \/ /\ pc[g] = "failing"
          /\ R!ReleaseReservations(g)
          /\ UNCHANGED <<order, reference, compensated>>
       \/ /\ pc[g] = "failingOrder"
          /\ FailOrder(g)
          /\ compensated' = compensated \cup {g}
    /\ Goto(g, {"failing", "failingOrder"}, "releasing")
    /\ \/ UNCHANGED deadLetters
       \/ /\ "ackLost" \in Faults
          /\ deadLetters' = deadLetters \cup {g}
    /\ UNCHANGED <<slot, body, outcome, attempts, createdAt, gatewayVars, jobVars>>

\* Mutant of CompensationFails: the error is only logged.
CompensationForgotten(g) ==
    /\ "release" \in Faults
    /\ Goto(g, {"failing", "failingOrder"}, "releasing")
    /\ UNCHANGED <<reservations, slot, body, outcome, attempts, orderVars,
                   gatewayVars, jobVars, deadLetters>>

\* The transaction fails too: what is left goes to the dead-letter queue.
CompensationFails(g) ==
    /\ "release" \in Faults
    /\ Goto(g, {"failing", "failingOrder"}, "releasing")
    /\ \/ deadLetters' = deadLetters \cup {g}
       \/ "redis" \in Faults /\ UNCHANGED deadLetters
    /\ UNCHANGED <<reservations, slot, body, outcome, attempts, orderVars,
                   gatewayVars, jobVars>>

\* The process dies, and the database rolls back what it had open.
Crash(g) ==
    /\ "crash" \in Faults
    /\ Goto(g, InProgress, "crashed")
    /\ IF pc[g] = "reserving" /\ stage[g] \notin {"reserved", "rejected"}
         THEN R!AbortReservation(g)
         ELSE UNCHANGED reservations
    /\ UNCHANGED <<slot, body, outcome, attempts, orderVars, gatewayVars, jobVars,
                   deadLetters>>

-----------------------------------------------------------------------------
(* The jobs.                                                               *)

\* One transaction: release what expired, then fail its pending orders.
ExpireReservations ==
    /\ R!ExpireReservations
    /\ FailPending(UNION {R!Expired(i) : i \in Inventories})
    /\ UNCHANGED <<requestVars, slot, createdAt, reference, compensated, gatewayVars,
                   jobVars, deadLetters>>

FulfillReservations(w) ==
    /\ R!Fulfill(w) \/ R!CrashFulfillment(w)
    /\ UNCHANGED <<requestVars, slot, orderVars, gatewayVars, jobVars, deadLetters>>

\* Mutant of StalePending: the comparison the wrong way round.
FreshPending == {g \in Groups :
    order[g] = "PENDING_PAYMENT" /\ createdAt[g] > now - StaleAfter}

\* findStalePending: created_at before NOW() - 5 minutes.
StalePending == {g \in Groups :
    order[g] = "PENDING_PAYMENT" /\ createdAt[g] < now - StaleAfter}

\* Mutant of StartReconcile: an order without a reference ends the run, as it
\* would if its missing reference were asked for outside the try.
StartReconcileStopping(j) ==
    /\ scan[j] = {} /\ polled[j] = NoAnswer
    /\ \E S \in SUBSET StalePending :
         /\ \/ Cardinality(S) = ReconcileLimit
            \/ Cardinality(S) < ReconcileLimit /\ S = StalePending
         /\ scan' = [scan EXCEPT ![j] = IF \A g \in S : reference[g] THEN S ELSE {}]
    /\ UNCHANGED <<reservations, requestVars, slot, orderVars, gatewayVars, polled,
                   deadLetters>>

\* findStalePending reads any ReconcileLimit stale orders (no ORDER BY); of
\* those, the run passes over the ones without a reference.
StartReconcile(j) ==
    /\ scan[j] = {} /\ polled[j] = NoAnswer
    /\ \E S \in SUBSET StalePending :
         /\ \/ Cardinality(S) = ReconcileLimit
            \/ Cardinality(S) < ReconcileLimit /\ S = StalePending
         /\ scan' = [scan EXCEPT ![j] = {g \in S : reference[g]}]
    /\ UNCHANGED <<reservations, requestVars, slot, orderVars, gatewayVars, polled,
                   deadLetters>>

\* Mutant of PollPayment: the batch is polled at once, and its answers are taken
\* in the order in which they arrive.
PollPaymentOfBatch(j, g) ==
    /\ g \in scan[j] /\ polled[j] = NoAnswer
    /\ \E h \in scan[j] :
         payment[h] \in Settled /\ polled' = [polled EXCEPT ![j] = <<g, payment[h]>>]
    /\ scan' = [scan EXCEPT ![j] = @ \ {g}]
    /\ UNCHANGED <<reservations, requestVars, slot, orderVars, gatewayVars, deadLetters>>

\* getStatus answers for order g with a settled charge.
PollPayment(j, g) ==
    /\ g \in scan[j] /\ polled[j] = NoAnswer
    /\ payment[g] \in Settled
    /\ polled' = [polled EXCEPT ![j] = <<g, payment[g]>>]
    /\ scan' = [scan EXCEPT ![j] = @ \ {g}]
    /\ UNCHANGED <<reservations, requestVars, slot, orderVars, gatewayVars, deadLetters>>

\* The charge is still open, or getStatus throws: left to the next run.
SkipOrder(j, g) ==
    /\ g \in scan[j] /\ polled[j] = NoAnswer
    /\ scan' = [scan EXCEPT ![j] = @ \ {g}]
    /\ UNCHANGED <<reservations, requestVars, slot, orderVars, gatewayVars, polled,
                   deadLetters>>

\* The answer is applied to the order as it has become meanwhile.
ApplyAnswer(j) ==
    /\ polled[j] # NoAnswer
    /\ LET g == polled[j][1]
       IN  \/ polled[j][2] = "succeeded" /\ ConfirmOrder(g)
           \/ polled[j][2] = "failed" /\ FailOrder(g)
    /\ polled' = [polled EXCEPT ![j] = NoAnswer]
    /\ UNCHANGED <<requestVars, slot, createdAt, compensated, gatewayVars, scan,
                   deadLetters>>

\* The transaction fails (caught), or the worker dies with the whole scan.
ApplyAnswerFails(j) ==
    /\ polled[j] # NoAnswer
    /\ polled' = [polled EXCEPT ![j] = NoAnswer]
    /\ scan' \in {scan, [scan EXCEPT ![j] = {}]}
    /\ UNCHANGED <<reservations, requestVars, slot, orderVars, gatewayVars, deadLetters>>

Tick ==
    /\ R!Tick
    /\ UNCHANGED <<requestVars, slot, orderVars, gatewayVars, jobVars, deadLetters>>

-----------------------------------------------------------------------------
Controller(g) ==
    \/ ClaimKey(g)
    \/ AnswerDuplicate(g)
    \/ CacheResponse(g)
    \/ CacheFails(g)
    \/ ReleaseKey(g)

ReserveAndPersist(g) ==
    \/ RejectEarly(g)
    \/ StartReserving(g)
    \/ Reserve(g)
    \/ ReservationFailed(g)
    \/ CalculateTax(g)
    \/ TaxFails(g)
    \/ PersistOrder(g)
    \/ PersistFails(g)

Pay(g) ==
    \/ Charge(g)
    \/ ChargeThrows(g)
    \/ PaymentCircuitOpen(g)
    \/ GetStatus(g)
    \/ ApplySucceeded(g)
    \/ StoreReference(g)
    \/ ReadOrder(g)
    \/ ApplyFails(g)
    \/ Compensate(g)
    \/ CompensationFails(g)

Request(g) == Controller(g) \/ ReserveAndPersist(g) \/ Pay(g)

Reconcile(j) ==
    \/ StartReconcile(j)
    \/ \E g \in Groups : PollPayment(j, g) \/ SkipOrder(j, g)
    \/ ApplyAnswer(j)
    \/ ApplyAnswerFails(j)

Next ==
    \/ \E g \in Groups : Request(g) \/ Crash(g) \/ SettlePayment(g)
    \/ \E k \in Keys : KeyExpires(k)
    \/ ExpireReservations
    \/ \E w \in FulfillRuns : FulfillReservations(w)
    \/ \E j \in ReconcileRuns : Reconcile(j)
    \/ Tick

Spec == Init /\ [][Next]_vars

\* A request whose process does not die runs to its end; a charge settles; the
\* clock and the jobs go on.  The gateway and the database may fail a reconcile run any
\* number of times, not for ever: hence strong fairness of the two calls.
FairSpec ==
    /\ Spec
    /\ \A g \in Groups : WF_vars(Request(g)) /\ WF_vars(SettlePayment(g))
    /\ WF_vars(Tick) /\ WF_vars(ExpireReservations)
    /\ \A j \in ReconcileRuns :
         /\ WF_vars(StartReconcile(j))
         /\ \A g \in Groups : SF_vars(PollPayment(j, g))
         /\ SF_vars(ApplyAnswer(j))

-----------------------------------------------------------------------------
(* Properties.                                                             *)

\* The values the columns, the keys and the requests can take.
TypeOK ==
    /\ R!TypeOK
    /\ pc \in [Groups -> {"arrived", "duplicate"} \cup InProgress \cup Over]
    /\ slot \in [Keys -> {"absent", "pending"} \cup Groups]
    /\ body \in [Groups -> {"none"} \cup OrderStatus]
    /\ outcome \in [Groups -> {"none", "conflict", "error"} \cup Groups]
    /\ order \in [Groups -> {"none"} \cup OrderStatus]
    /\ createdAt \in [Groups -> 0 .. Horizon]
    /\ reference \in [Groups -> BOOLEAN]
    /\ compensated \subseteq Groups
    /\ attempts \in [Groups -> 0 .. ChargeAttempts]
    /\ charges \in [Groups -> 0 .. ChargeAttempts]
    /\ payment \in [Groups -> {"none", "open"} \cup Settled]
    /\ scan \in [ReconcileRuns -> SUBSET Groups]
    /\ polled \in [ReconcileRuns -> (Groups \X Settled) \cup {NoAnswer}]
    /\ deadLetters \subseteq Groups

HasActive(g) == \E i \in Inventories : status[g][i] = "active"
HasConfirmed(g) == \E i \in Inventories : status[g][i] = "confirmed"
StillHeld(g) == \A i \in Inventories : demand[g][i] > 0 => status[g][i] = "active"
Backed(g) == \A i \in Inventories :
    demand[g][i] > 0 => status[g][i] = "confirmed" \/ g \in fulfilled[i]
Released(g) == \A i \in Inventories : demand[g][i] > 0 => status[g][i] = "released"

\* Duplicate submissions "return the original response without re-charging":
\* of all requests with one key, whatever fails, is retried, is cached or
\* expires, at most one reaches the payment gateway.
ChargedOncePerKey ==
    \A g, h \in Groups :
        KeyOf[g] = KeyOf[h] /\ charges[g] > 0 /\ charges[h] > 0 => g = h

\* An order is CONFIRMED only on a charge the gateway took, whether the request
\* or the reconcile job confirmed it.
ConfirmedIsPaid ==
    \A g \in Groups : order[g] = "CONFIRMED" => payment[g] = "succeeded"

\* applyPaymentResult: rows and order change together, "so confirmed
\* reservations are never visible while the order still shows PENDING_PAYMENT",
\* with the expiry job and overlapping reconcile runs around it.  A FAILED order
\* has confirmed rows only where its own request failed it after they were
\* confirmed: by a reconcile run that found the stored reference, or by a
\* transaction of the request that was not acknowledged.
ConfirmedRowsConfirmedOrder ==
    \A g \in Groups :
        HasConfirmed(g) => \/ order[g] = "CONFIRMED"
                           \/ order[g] = "FAILED" /\ g \in compensated

\* updateStatus has no guard on the status it overwrites; even so only the
\* compensation of its own request takes a CONFIRMED order back, and only before
\* placeOrder returned it: no job does, and no failure after the return.
OnlyOwnRequestUnconfirms ==
    [][\A g \in Groups :
         order[g] = "CONFIRMED" /\ order'[g] # "CONFIRMED"
             => pc[g] = "failingOrder" /\ body[g] = "none" /\ pc'[g] = "releasing"]_vars

\* A client, the first one or one whose duplicate was answered from the cache,
\* that was told CONFIRMED has an order with its own key that is CONFIRMED.
ToldConfirmedIsConfirmed ==
    \A g \in Groups : LET h == outcome[g] IN
        h \in Groups =>
            /\ KeyOf[h] = KeyOf[g]
            /\ order[h] # "none"
            /\ body[h] = "CONFIRMED" => order[h] = "CONFIRMED"

\* The compensation of placeOrder: when it throws after the reservations were
\* made, no row of the request holds stock and no order of it stays open, unless
\* the dead-letter queue says otherwise.  It may end CONFIRMED all the same, by a
\* reconcile run that had polled it before (see ConfirmedInTimeIsBacked).
CompensationComplete ==
    \A g \in Groups :
        /\ pc[g] = "releasing" \/ outcome[g] = "error"
        /\ stage[g] = "reserved" /\ body[g] = "none" /\ g \notin deadLetters
        => /\ ~HasActive(g)
           /\ order[g] # "PENDING_PAYMENT"

\* An order CONFIRMED while its reservations had not expired has all its stock,
\* or none and a request that ended in an error: it released its rows between
\* the poll of a reconcile run and the answer being applied.
ConfirmedInTimeIsBacked ==
    \A g \in Groups :
        order[g] = "CONFIRMED" /\ now <= expiresAt[g]
            => Backed(g) \/ (g \in compensated /\ Released(g))

\* A pending order nobody works on that neither the expiry job (through an
\* active row) nor the reconcile job (through its reference) can find.
Lost(g) ==
    /\ order[g] = "PENDING_PAYMENT" /\ pc[g] \in Over
    /\ ~HasActive(g) /\ ~reference[g] /\ g \notin deadLetters

\* The catch block and the dead-letter queue lose no order: only a process that
\* dies between the insert and the end of its request does, and of the orders
\* it leaves only those whose rows had lapsed before.
LostOnlyByCrash == \A g \in Groups : Lost(g) => pc[g] = "crashed"

\* Every order that was placed is resolved, by its request, by the expiry job
\* or by the reconcile job, or handed to an operator, whether or not its
\* process dies on the way, unless it is lost to all of them.
EveryOrderSettles ==
    \A g \in Groups :
        order[g] = "PENDING_PAYMENT"
            ~> order[g] \in {"CONFIRMED", "FAILED"} \/ g \in deadLetters \/ Lost(g)

\* Whatever placeOrder, its compensation, its crashes and the reconcile job do,
\* the tables of the reservations go through a behaviour of Reservations: what
\* holds of every such behaviour holds here.
ImplementsReservations == R!Spec

-----------------------------------------------------------------------------
(* The inductive invariant behind the safety properties.                   *)

BeforeInsert == {"arrived", "duplicate", "claimed", "reserving", "taxed"}
Paying == {"persisted", "charged", "settled", "unsettled"}
AfterInsert == Paying \cup {"stored", "failingOrder"}

\* How far a request has come, its reservations, its order and its answer.
RequestsInOrder ==
    \A g \in Groups :
        /\ pc[g] \in {"arrived", "duplicate", "claimed"} => stage[g] = "idle"
        /\ pc[g] = "taxed" \/ order[g] # "none" => stage[g] = "reserved"
        /\ pc[g] \in BeforeInsert => order[g] = "none"
        /\ pc[g] \in AfterInsert => order[g] # "none"
        /\ pc[g] = "placed" => body[g] # "none"
        /\ body[g] # "none" => pc[g] \in {"placed", "releasing"} \cup Over /\ reference[g]
        /\ reference[g] => order[g] # "none" /\ pc[g] \notin Paying \cup {"failing"}
        /\ pc[g] = "stored" => reference[g]
        /\ g \in compensated => body[g] = "none" /\ pc[g] \in {"releasing"} \cup Over
        /\ outcome[g] # "none" => pc[g] = "done"
        /\ pc[g] = "done" => order[g] = "none" \/ body[g] # "none" \/ outcome[g] = "error"

\* The order and the gateway.
ChargesInOrder ==
    \A g \in Groups :
        /\ charges[g] <= attempts[g]
        /\ pc[g] \in BeforeInsert => attempts[g] = 0
        /\ pc[g] = "persisted" => attempts[g] < ChargeAttempts
        /\ charges[g] > 0 => order[g] # "none"
        /\ pc[g] \in BeforeInsert \cup {"persisted"} => payment[g] = "none"
        /\ pc[g] = "settled" => payment[g] = "succeeded"
        /\ order[g] = "CONFIRMED" => payment[g] = "succeeded" /\ reference[g]
        /\ body[g] = "CONFIRMED" => order[g] = "CONFIRMED"

\* The orders and answers of one key.
KeysInOrder ==
    /\ \A g, h \in Groups :
         KeyOf[g] = KeyOf[h] /\ order[g] # "none" /\ order[h] # "none" => g = h
    /\ \A k \in Keys : slot[k] \in Groups => KeyOf[slot[k]] = k /\ body[slot[k]] # "none"
    /\ \A g \in Groups : outcome[g] \in Groups =>
         KeyOf[outcome[g]] = KeyOf[g] /\ body[outcome[g]] # "none"

\* The reconcile runs, which reach only orders with a reference.
RunsInOrder ==
    \A j \in ReconcileRuns :
        /\ \A g \in scan[j] : reference[g]
        /\ polled[j] # NoAnswer =>
             reference[polled[j][1]] /\ payment[polled[j][1]] = polled[j][2]

\* Where every commit is acknowledged, a request fails without an order only
\* before the insert, and its compensation leaves nothing it does not know of.
CommitsInOrder ==
    "ackLost" \notin Faults =>
        /\ \A g \in Groups : pc[g] = "failing" => order[g] = "none"
        /\ "redis" \notin Faults => CompensationComplete

\* Until the rows of an order lapse only its own request and its own charge
\* decide them: all are held for an order whose request is at work on it, or
\* whose charge is open, and all are confirmed together with it or released
\* together by its compensation.
RowsInTime ==
    \A g \in Groups : stage[g] = "reserved" /\ now <= expiresAt[g] =>
        /\ pc[g] \in BeforeInsert \cup Paying => StillHeld(g)
        /\ reference[g] /\ payment[g] # "failed" =>
             Backed(g) \/ (IF g \in compensated THEN Released(g) ELSE StillHeld(g))
        /\ order[g] = "CONFIRMED" => Backed(g) \/ (g \in compensated /\ Released(g))

\* Requests, jobs, keys and gateway agree on every order, at every await: how
\* far placeOrder has come, what its order and its charges say, which request
\* a key stands for, what a reconcile run holds of an order, and what a commit
\* leaves. It is the inductive invariant the theorems rest on.
OrderInv ==
    /\ TypeOK
    /\ RequestsInOrder
    /\ ChargesInOrder
    /\ KeysInOrder
    /\ RunsInOrder
    /\ ConfirmedRowsConfirmedOrder
    /\ CommitsInOrder
    /\ RowsInTime

-----------------------------------------------------------------------------
(* What the documents say and the code does not do.                        *)

\* README, "Inventory safety ... prevents overselling under concurrent load".
NoOversell ==
    \A i \in Inventories : R!SumQuantity(R!Held(i, now), i) <= quantity[i]

\* README, "Financial consistency": a charge that cannot be confirmed at once is
\* reconciled "rather than being incorrectly failed": an order that placeOrder
\* returned as pending becomes FAILED only when its charge failed.
ParkedIsNotWronglyFailed ==
    [][\A g \in Groups :
         order[g] = "PENDING_PAYMENT" /\ body[g] = "PENDING_PAYMENT" /\ order'[g] = "FAILED"
             => payment[g] = "failed"]_vars

\* order-flow.md, "a failed attempt can be safely retried", and the comment in
\* the controller's catch block: the key of a request at work is not taken by
\* the order of an earlier attempt.
FailedAttemptCanBeRetried ==
    \A g \in Groups : pc[g] = "taxed" => ~KeyTaken(KeyOf[g])

\* DESIGN_DOC.md, the dead-letter queue "ensures no order is silently lost".
NoOrderSilentlyLost == \A g \in Groups : ~Lost(g)
=============================================================================
