-------------------------- MODULE PlaceOrder_proofs --------------------------
(***************************************************************************)
(* Proofs about PlaceOrder, for any number of requests, keys, inventories, *)
(* attempts and overlapping runs of the jobs.                              *)
(***************************************************************************)
EXTENDS PlaceOrder, TLAPS

-----------------------------------------------------------------------------
(* PlaceOrder implements Reservations.                                     *)

LEMMA RequestImplements ==
    ASSUME NEW g \in Groups, Request(g)
    PROVE  R!Next \/ UNCHANGED reservations
<1>1. CASE Controller(g)
  BY <1>1 DEF Controller, ClaimKey, AnswerDuplicate, CacheResponse, CacheFails, ReleaseKey
<1>2. CASE Reserve(g) \/ StartReserving(g)
  BY <1>2 DEF Reserve, StartReserving, R!Next, R!Create
<1>3. CASE \/ RejectEarly(g) \/ ReservationFailed(g) \/ CalculateTax(g) \/ TaxFails(g)
           \/ PersistOrder(g) \/ PersistFails(g)
  BY <1>3 DEF RejectEarly, ReservationFailed, CalculateTax, TaxFails, PersistOrder,
              PersistFails
<1>4. CASE \/ Charge(g) \/ ChargeThrows(g) \/ PaymentCircuitOpen(g) \/ GetStatus(g)
           \/ StoreReference(g) \/ ReadOrder(g) \/ ApplyFails(g) \/ CompensationFails(g)
  BY <1>4 DEF Charge, ChargeThrows, PaymentCircuitOpen, GetStatus, StoreReference, ReadOrder,
              ApplyFails, CompensationFails
<1>5. CASE ApplySucceeded(g) \/ Compensate(g)
  BY <1>5 DEF ApplySucceeded, Compensate, ConfirmOrder, FailOrder, R!Next
<1> QED
  BY <1>1, <1>2, <1>3, <1>4, <1>5 DEF Request, ReserveAndPersist, Pay

LEMMA ReconcileImplements ==
    ASSUME NEW j \in ReconcileRuns, Reconcile(j),
           polled[j] \in (Groups \X Settled) \cup {NoAnswer}
    PROVE  R!Next \/ UNCHANGED reservations
<1>1. CASE \/ StartReconcile(j) \/ ApplyAnswerFails(j)
           \/ \E g \in Groups : PollPayment(j, g) \/ SkipOrder(j, g)
  BY <1>1 DEF StartReconcile, ApplyAnswerFails, PollPayment, SkipOrder
<1>2. CASE ApplyAnswer(j)
  <2>1. polled[j][1] \in Groups
    BY <1>2 DEF ApplyAnswer
  <2> QED
    BY <1>2, <2>1 DEF ApplyAnswer, ConfirmOrder, FailOrder, R!Next
<1> QED
  BY <1>1, <1>2 DEF Reconcile

LEMMA StepImplements ==
    ASSUME polled \in [ReconcileRuns -> (Groups \X Settled) \cup {NoAnswer}], [Next]_vars
    PROVE  [R!Next]_(R!vars)
<1>1. ASSUME NEW g \in Groups, Crash(g) \/ SettlePayment(g)
      PROVE  R!Next \/ UNCHANGED reservations
  BY <1>1 DEF Crash, SettlePayment, R!Next
<1>2. ASSUME NEW w \in FulfillRuns, FulfillReservations(w)
      PROVE  R!Next
  BY <1>2 DEF FulfillReservations, R!Next
<1>3. ASSUME NEW k \in Keys, KeyExpires(k)
      PROVE  UNCHANGED reservations
  BY <1>3 DEF KeyExpires
<1>4. ASSUME ExpireReservations \/ Tick
      PROVE  R!Next
  BY <1>4 DEF ExpireReservations, Tick, R!Next
<1>5. UNCHANGED vars => UNCHANGED reservations
  BY DEF vars
<1>6. R!Next \/ UNCHANGED reservations
  BY <1>1, <1>2, <1>3, <1>4, <1>5, RequestImplements, ReconcileImplements DEF Next
<1> QED
  BY <1>6 DEF R!vars, reservations

\* Only reconcile runs touch their own state.
LEMMA RequestKeepsRuns ==
    ASSUME NEW g \in Groups, Request(g)
    PROVE  scan' = scan /\ polled' = polled
  BY DEF Request, Controller, ClaimKey, AnswerDuplicate, CacheResponse, CacheFails, ReleaseKey,
     ReserveAndPersist, RejectEarly, StartReserving, Reserve, ReservationFailed, CalculateTax,
     TaxFails, PersistOrder, PersistFails, Pay, Charge, ChargeThrows, PaymentCircuitOpen,
     GetStatus, ApplySucceeded, StoreReference, ReadOrder, ApplyFails, Compensate,
     CompensationFails, jobVars

LEMMA PolledTyped == Spec => [](polled \in [ReconcileRuns -> (Groups \X Settled) \cup {NoAnswer}])
<1> DEFINE Typed == polled \in [ReconcileRuns -> (Groups \X Settled) \cup {NoAnswer}]
<1>1. Init => Typed
  BY DEF Init
<1>2. ASSUME Typed, [Next]_vars
      PROVE  Typed'
  <2>1. ASSUME NEW j \in ReconcileRuns, Reconcile(j)
        PROVE  Typed'
    BY <1>2, <2>1 DEF Reconcile, StartReconcile, PollPayment, SkipOrder, ApplyAnswer,
                      ApplyAnswerFails
  <2>3. CASE \/ \E g \in Groups : Crash(g) \/ SettlePayment(g)
             \/ \E k \in Keys : KeyExpires(k)
             \/ ExpireReservations \/ Tick
             \/ \E w \in FulfillRuns : FulfillReservations(w)
             \/ UNCHANGED vars
    BY <1>2, <2>3 DEF Crash, SettlePayment, KeyExpires, ExpireReservations, Tick,
                      FulfillReservations, jobVars, vars
  <2> QED
    BY <1>2, <2>1, <2>3, RequestKeepsRuns DEF Next
<1> QED
  BY <1>1, <1>2, PTL DEF Spec

\* Whatever a request, its compensation, its crash or a reconcile run does, the
\* tables of the reservations go through a behaviour of Reservations.
THEOREM PlaceOrderImplementsReservations == Spec => ImplementsReservations
<1>1. Init => R!Init
  BY DEF Init
<1>2. polled \in [ReconcileRuns -> (Groups \X Settled) \cup {NoAnswer}] /\ [Next]_vars
        => [R!Next]_(R!vars)
  BY StepImplements
<1> QED
  BY <1>1, <1>2, PolledTyped, PTL DEF Spec, ImplementsReservations, R!Spec

-----------------------------------------------------------------------------
(* What is proved of Reservations holds of its instance.                   *)

RP == INSTANCE ReservationRows_proofs

LEMMA SameSums ==
    ASSUME NEW S, NEW i
    PROVE  R!SumQuantity(S, i) = RP!SumQuantity(S, i)
  BY DEF R!SumQuantity, RP!SumQuantity, R!Units, RP!Units, R!Cardinality, RP!Cardinality,
         R!IsFiniteSet, RP!IsFiniteSet

LEMMA SameSets ==
    /\ \A I : R!Least(I) = RP!Least(I)
    /\ \A s, i : R!InStatus(s, i) = RP!InStatus(s, i)
    /\ \A i, t : R!Held(i, t) = RP!Held(i, t)
  BY DEF R!Least, RP!Least, R!InStatus, RP!InStatus, R!Held, RP!Held,
     R!Unexpired, RP!Unexpired

LEMMA SameCreateSteps ==
    ASSUME NEW g \in Groups
    PROVE  R!Create(g) => RP!Create(g)
<1>1. R!CreateReservations(g) => RP!CreateReservations(g)
  BY DEF R!CreateReservations, RP!CreateReservations, R!stockVars,
         RP!stockVars, R!runVars, RP!runVars
<1>2. R!BeginTransaction(g) => RP!BeginTransaction(g)
  BY DEF R!BeginTransaction, RP!BeginTransaction, R!rowVars, RP!rowVars,
         R!stockVars, RP!stockVars, R!runVars, RP!runVars
<1>3. R!LockForReservation(g) => RP!LockForReservation(g)
  BY DEF R!LockForReservation, RP!LockForReservation, R!AcquireLock,
         RP!AcquireLock, R!Least, RP!Least, R!rowVars, RP!rowVars,
         R!stockVars, RP!stockVars, R!runVars, RP!runVars
<1>4. R!GetAvailable(g) => RP!GetAvailable(g)
  BY SameSets, SameSums DEF R!GetAvailable, RP!GetAvailable, R!Available,
     RP!Available, R!rowVars, RP!rowVars, R!stockVars, RP!stockVars, R!runVars,
     RP!runVars
<1>5. R!InsertReservation(g) => RP!InsertReservation(g)
  BY DEF R!InsertReservation, RP!InsertReservation, R!Least, RP!Least,
         R!stockVars, RP!stockVars, R!runVars, RP!runVars
<1>6. R!InsufficientInventory(g) => RP!InsufficientInventory(g)
  BY DEF R!InsufficientInventory, RP!InsufficientInventory, R!RollBack,
         RP!RollBack, R!Least, RP!Least, R!rowVars, RP!rowVars, R!stockVars,
         RP!stockVars, R!runVars, RP!runVars
<1> QED
  BY <1>1, <1>2, <1>3, <1>4, <1>5, <1>6 DEF R!Create, RP!Create

LEMMA SameOrderSteps ==
    ASSUME NEW g \in Groups
    PROVE  /\ R!AbortReservation(g) => RP!AbortReservation(g)
           /\ R!ConfirmReservations(g) => RP!ConfirmReservations(g)
           /\ R!ReleaseReservations(g) => RP!ReleaseReservations(g)
<1>1. R!AbortReservation(g) => RP!AbortReservation(g)
  BY DEF R!AbortReservation, RP!AbortReservation, R!RollBack, RP!RollBack,
         R!rowVars, RP!rowVars, R!stockVars, RP!stockVars, R!runVars,
         RP!runVars
<1>2. R!ConfirmReservations(g) => RP!ConfirmReservations(g)
  BY DEF R!ConfirmReservations, RP!ConfirmReservations, R!UpdateGroup,
         RP!UpdateGroup, R!txVars, RP!txVars, R!stockVars, RP!stockVars,
         R!runVars, RP!runVars
<1>3. R!ReleaseReservations(g) => RP!ReleaseReservations(g)
  BY DEF R!ReleaseReservations, RP!ReleaseReservations, R!UpdateGroup,
         RP!UpdateGroup, R!txVars, RP!txVars, R!stockVars, RP!stockVars,
         R!runVars, RP!runVars
<1> QED
  BY <1>1, <1>2, <1>3

LEMMA SameBatch == R!FirstConfirmed = RP!FirstConfirmed
                   /\ R!FindConfirmedGrouped = RP!FindConfirmedGrouped
<1>1. ASSUME NEW S
      PROVE  R!Cardinality(S) = RP!Cardinality(S)
  BY DEF R!Cardinality, RP!Cardinality
<1>2. ASSUME NEW i \in Inventories
      PROVE  i \in R!FirstConfirmed <=> i \in RP!FirstConfirmed
  <2> DEFINE Before == {j \in Inventories : j < i /\ R!InStatus("confirmed", j) # {}}
  <2>1. Before = {j \in Inventories : j < i /\ RP!InStatus("confirmed", j) # {}}
    BY SameSets
  <2>2. R!Cardinality(Before) = RP!Cardinality(Before)
    BY <1>1
  <2> QED
    BY <2>1, <2>2, SameSets DEF R!FirstConfirmed, RP!FirstConfirmed
<1>3. R!FirstConfirmed = RP!FirstConfirmed
  BY <1>2 DEF R!FirstConfirmed, RP!FirstConfirmed
<1> QED
  BY <1>3, SameSets DEF R!FindConfirmedGrouped, RP!FindConfirmedGrouped

LEMMA SameFulfillSteps ==
    ASSUME NEW w \in FulfillRuns
    PROVE  /\ R!Fulfill(w) => RP!Fulfill(w)
           /\ R!CrashFulfillment(w) => RP!CrashFulfillment(w)
<1>1. R!StartFulfillment(w) => RP!StartFulfillment(w)
  BY SameBatch DEF R!StartFulfillment, RP!StartFulfillment, R!rowVars, RP!rowVars,
     R!txVars, RP!txVars, R!stockVars, RP!stockVars
<1>2. R!FulfillInventory(w) => RP!FulfillInventory(w)
  BY SameSets, SameSums DEF R!FulfillInventory, RP!FulfillInventory, R!Pending,
     RP!Pending, R!DecrementQuantity, RP!DecrementQuantity, R!Releasable,
     RP!Releasable, R!txVars, RP!txVars
<1>3. R!FinishFulfillment(w) => RP!FinishFulfillment(w)
  BY DEF R!FinishFulfillment, RP!FinishFulfillment, R!Pending, RP!Pending,
         R!StopRun, RP!StopRun, R!rowVars, RP!rowVars, R!txVars, RP!txVars,
         R!stockVars, RP!stockVars
<1>4. R!FulfillmentRejected(w) => RP!FulfillmentRejected(w)
  BY SameSets, SameSums DEF R!FulfillmentRejected, RP!FulfillmentRejected,
     R!Pending, RP!Pending, R!StopRun, RP!StopRun, R!rowVars, RP!rowVars,
     R!txVars, RP!txVars, R!stockVars, RP!stockVars
<1>5. R!CrashFulfillment(w) => RP!CrashFulfillment(w)
  BY DEF R!CrashFulfillment, RP!CrashFulfillment, R!Pending, RP!Pending,
         R!StopRun, RP!StopRun, R!rowVars, RP!rowVars, R!txVars, RP!txVars,
         R!stockVars, RP!stockVars
<1> QED
  BY <1>1, <1>2, <1>3, <1>4, <1>5 DEF R!Fulfill, RP!Fulfill

LEMMA SameSteps == [R!Next]_(R!vars) => [RP!Next]_(RP!vars)
<1>1. R!ExpireReservations => RP!ExpireReservations
  BY DEF R!ExpireReservations, RP!ExpireReservations, R!Expired, RP!Expired,
         R!InStatus, RP!InStatus, R!txVars, RP!txVars, R!stockVars,
         RP!stockVars, R!runVars, RP!runVars
<1>2. R!Tick => RP!Tick
  BY DEF R!Tick, RP!Tick, R!rowVars, RP!rowVars, R!txVars, RP!txVars,
         R!stockVars, RP!stockVars, R!runVars, RP!runVars
<1>3. R!Next => RP!Next
  BY <1>1, <1>2, SameCreateSteps, SameOrderSteps, SameFulfillSteps DEF R!Next, RP!Next
<1>4. UNCHANGED R!vars => UNCHANGED RP!vars
  BY DEF R!vars, RP!vars
<1> QED
  BY <1>3, <1>4

LEMMA SameSpec == R!Spec => RP!Spec
<1>1. R!Init => RP!Init
  BY DEF R!Init, RP!Init
<1> QED
  BY <1>1, SameSteps, PTL DEF R!Spec, RP!Spec

\* The inductive invariant of Reservations, and with it that stock is promised
\* twice only by late confirmations and by units shipped twice, holds of what
\* placeOrder, its compensation and the reconcile job make of the rows.
THEOREM OversellStaysAccounted == Spec => [](R!TypeOK /\ R!OversellAccounted)
<1>1. Spec => R!Spec
  BY PlaceOrderImplementsReservations DEF ImplementsReservations
<1>2. RP!Spec => []RP!ReservationInv
  BY FiniteAssumption, QuantityAssumption, BoundAssumption, GroupAssumption,
     RP!ReservationInvariant DEF IsFiniteSet, RP!IsFiniteSet
<1>3. RP!ReservationInv => R!TypeOK
  BY DEF RP!ReservationInv, RP!TypeOK, R!TypeOK, RP!Stages, R!Stages, RP!RowStatus,
         R!RowStatus
<1>4. RP!ReservationInv => R!OversellAccounted
  BY SameSets, SameSums DEF RP!ReservationInv, R!OversellAccounted, RP!OversellAccounted
<1> QED
  BY <1>1, <1>2, <1>3, <1>4, SameSpec, PTL

-----------------------------------------------------------------------------
(* The inductive invariant: types.                                         *)

LEMMA TypesInit == ASSUME Init, R!TypeOK PROVE TypeOK
  BY BoundAssumption, RequestAssumption DEF Init, TypeOK

LEMMA UpdateTyped ==
    ASSUME TypeOK, NEW g \in Groups, NEW new \in OrderStatus, NEW withReference \in BOOLEAN,
           UpdateStatus(g, new, withReference)
    PROVE  /\ order' \in [Groups -> {"none"} \cup OrderStatus]
           /\ reference' \in [Groups -> BOOLEAN]
           /\ order'[g] = new
           /\ reference'[g] = (reference[g] \/ withReference)
           /\ \A h \in Groups \ {g} : order'[h] = order[h] /\ reference'[h] = reference[h]
  BY DEF TypeOK, UpdateStatus

LEMMA TypesStep ==
    ASSUME R!TypeOK', TypeOK, ChargesInOrder, [Next]_vars
    PROVE  TypeOK'
<1>1. ASSUME NEW g \in Groups, Controller(g)
      PROVE  TypeOK'
  BY <1>1, RequestAssumption DEF TypeOK, Controller, ClaimKey, AnswerDuplicate, CacheResponse,
     CacheFails, ReleaseKey, Goto, InProgress, Over, orderVars, gatewayVars, jobVars, reservations
<1>2. ASSUME NEW g \in Groups, ReserveAndPersist(g)
      PROVE  TypeOK'
  <2>1. CASE PersistOrder(g)
    <3>1. now \in 0 .. Horizon
      BY <2>1, BoundAssumption, RequestAssumption DEF PersistOrder, TypeOK, R!TypeOK
    <3> QED
      BY <2>1, <3>1 DEF TypeOK, PersistOrder, Goto, InProgress, OrderStatus, gatewayVars,
         jobVars
  <2>2. CASE \/ RejectEarly(g) \/ StartReserving(g) \/ Reserve(g) \/ ReservationFailed(g)
             \/ CalculateTax(g) \/ TaxFails(g) \/ PersistFails(g)
    BY <1>2, <2>2 DEF TypeOK, RejectEarly, StartReserving, Reserve, ReservationFailed,
       CalculateTax, TaxFails, PersistFails, Goto, InProgress, requestVars, orderVars,
       gatewayVars, jobVars
  <2> QED
    BY <1>2, <2>1, <2>2 DEF ReserveAndPersist
<1>3. ASSUME NEW g \in Groups, Pay(g)
      PROVE  TypeOK'
  <2>1. ASSUME Charge(g) \/ ChargeThrows(g)
        PROVE  TypeOK'
    BY <1>3, <2>1, RequestAssumption DEF TypeOK, Charge, ChargeThrows, ChargesInOrder,
       AfterFailedAttempt, Goto, InProgress, Over, orderVars, jobVars, reservations
  <2>2. ASSUME \/ PaymentCircuitOpen(g) \/ GetStatus(g) \/ ReadOrder(g) \/ ApplyFails(g)
               \/ CompensationFails(g)
        PROVE  TypeOK'
    BY <1>3, <2>2 DEF TypeOK, PaymentCircuitOpen, GetStatus, ReadOrder, ApplyFails,
       CompensationFails, Goto, InProgress, Over, orderVars, gatewayVars, jobVars, reservations
  <2>3. ASSUME ApplySucceeded(g)
        PROVE  TypeOK'
    <3>1. /\ pc' \in [Groups -> {"arrived", "duplicate"} \cup InProgress \cup Over]
          /\ body' \in [Groups -> {"none"} \cup OrderStatus]
      BY <2>3 DEF TypeOK, ApplySucceeded, Goto, InProgress, OrderStatus
    <3>2. /\ order' \in [Groups -> {"none"} \cup OrderStatus]
          /\ reference' \in [Groups -> BOOLEAN]
      BY <2>3, UpdateTyped DEF ApplySucceeded, ConfirmOrder, OrderStatus
    <3> QED
      BY <2>3, <3>1, <3>2 DEF TypeOK, ApplySucceeded, gatewayVars, jobVars
  <2>4. ASSUME StoreReference(g)
        PROVE  TypeOK'
    BY <2>4, UpdateTyped DEF TypeOK, StoreReference, OrderStatus, Goto, InProgress,
       gatewayVars, jobVars
  <2>5. ASSUME Compensate(g)
        PROVE  TypeOK'
    BY <2>5, UpdateTyped DEF TypeOK, Compensate, FailOrder, OrderStatus, Goto, InProgress,
       gatewayVars, jobVars
  <2> QED
    BY <1>3, <2>1, <2>2, <2>3, <2>4, <2>5 DEF Pay
<1>4. ASSUME NEW j \in ReconcileRuns, Reconcile(j)
      PROVE  TypeOK'
  <2>1. CASE \/ StartReconcile(j) \/ ApplyAnswerFails(j)
             \/ \E g \in Groups : PollPayment(j, g) \/ SkipOrder(j, g)
    BY <1>4, <2>1 DEF TypeOK, StartReconcile, ApplyAnswerFails, PollPayment, SkipOrder,
       StalePending, requestVars, orderVars, gatewayVars
  <2>2. CASE ApplyAnswer(j)
    BY <1>4, <2>2, UpdateTyped DEF TypeOK, ApplyAnswer, ConfirmOrder, FailOrder, OrderStatus,
       requestVars, gatewayVars
  <2> QED
    BY <1>4, <2>1, <2>2 DEF Reconcile
<1>5. CASE \/ \E g \in Groups : Crash(g) \/ SettlePayment(g)
           \/ \E k \in Keys : KeyExpires(k)
  BY <1>5 DEF TypeOK, Crash, SettlePayment, KeyExpires, Goto, InProgress, Over, Settled,
     requestVars, orderVars, gatewayVars, jobVars
<1>6. CASE \/ ExpireReservations \/ Tick
           \/ \E w \in FulfillRuns : FulfillReservations(w)
           \/ UNCHANGED vars
  BY <1>6 DEF TypeOK, ExpireReservations, FailPending, Tick, FulfillReservations, OrderStatus,
     requestVars, orderVars, gatewayVars, jobVars, vars
<1> QED
  BY <1>1, <1>2, <1>3, <1>4, <1>5, <1>6 DEF Next, Request

-----------------------------------------------------------------------------
(* The inductive invariant: how far a request has come.                    *)

\* What the steps of a request make of the stages of reservations.
LEMMA StageStep ==
    ASSUME TypeOK, NEW g \in Groups, Reserve(g) \/ StartReserving(g) \/ Crash(g)
    PROVE  /\ \A h \in Groups \ {g} : stage'[h] = stage[h]
           /\ stage[g] = "reserved" => stage'[g] = "reserved"
<1>1. stage \in [Groups -> R!Stages]
  BY DEF TypeOK, R!TypeOK
<1>2. CASE StartReserving(g)
  BY <1>1, <1>2 DEF StartReserving, R!CreateReservations
<1>3. CASE Crash(g)
  BY <1>1, <1>3 DEF Crash, R!AbortReservation, R!RollBack, reservations
<1>4. CASE Reserve(g)
  BY <1>1, <1>4 DEF Reserve, R!BeginTransaction, R!LockForReservation, R!GetAvailable,
     R!InsertReservation, R!InsufficientInventory, R!AbortReservation, R!RollBack
<1> QED
  BY <1>2, <1>3, <1>4

\* The other steps leave the stages alone.
LEMMA StageUnchanged ==
    ASSUME \/ \E g \in Groups : Controller(g) \/ Pay(g) \/ SettlePayment(g)
           \/ \E k \in Keys : KeyExpires(k)
           \/ ExpireReservations
           \/ \E w \in FulfillRuns : FulfillReservations(w)
           \/ \E j \in ReconcileRuns : Reconcile(j)
           \/ Tick
    PROVE  stage' = stage
<1>1. ASSUME NEW g \in Groups, Controller(g) \/ SettlePayment(g)
      PROVE  stage' = stage
  BY <1>1 DEF Controller, ClaimKey, AnswerDuplicate, CacheResponse, CacheFails, ReleaseKey,
     SettlePayment, reservations
<1>2. ASSUME NEW g \in Groups, Pay(g)
      PROVE  stage' = stage
  BY <1>2 DEF Pay, Charge, ChargeThrows, PaymentCircuitOpen, GetStatus, ApplySucceeded,
     StoreReference, ReadOrder, ApplyFails, Compensate, CompensationFails, ConfirmOrder,
     FailOrder, R!ConfirmReservations, R!ReleaseReservations, reservations
<1>3. ASSUME NEW j \in ReconcileRuns, Reconcile(j)
      PROVE  stage' = stage
  BY <1>3 DEF Reconcile, StartReconcile, PollPayment, SkipOrder, ApplyAnswer,
     ApplyAnswerFails, ConfirmOrder, FailOrder, R!ConfirmReservations,
     R!ReleaseReservations, reservations
<1>4. ASSUME NEW w \in FulfillRuns, FulfillReservations(w)
      PROVE  stage' = stage
  BY <1>4 DEF FulfillReservations, R!Fulfill, R!StartFulfillment, R!FulfillInventory,
     R!FinishFulfillment, R!FulfillmentRejected, R!CrashFulfillment, R!StopRun
<1>5. ASSUME ExpireReservations \/ Tick \/ \E k \in Keys : KeyExpires(k)
      PROVE  stage' = stage
  BY <1>5 DEF ExpireReservations, Tick, KeyExpires, R!ExpireReservations, R!Tick,
     reservations
<1> QED
  BY <1>1, <1>2, <1>3, <1>4, <1>5

\* A reconcile run knows what it read of its orders, and gets no further.
LEMMA AnswerFacts ==
    ASSUME TypeOK, RunsInOrder, NEW j \in ReconcileRuns, ApplyAnswer(j)
    PROVE  \E g \in Groups :
             /\ reference[g]
             /\ \/ payment[g] = "succeeded" /\ ConfirmOrder(g)
                \/ payment[g] = "failed" /\ FailOrder(g)
<1> DEFINE g == polled[j][1]
<1>1. polled[j] \in Groups \X Settled
  BY DEF TypeOK, ApplyAnswer
<1>2. reference[g] /\ payment[g] = polled[j][2]
  BY DEF RunsInOrder, ApplyAnswer
<1>3. g \in Groups
  BY <1>1
<1>4. \/ payment[g] = "succeeded" /\ ConfirmOrder(g)
      \/ payment[g] = "failed" /\ FailOrder(g)
  BY <1>2 DEF ApplyAnswer
<1> QED
  BY <1>2, <1>3, <1>4

\* What the last steps of a request make of the orders.
LEMMA OrderSteps ==
    ASSUME TypeOK, NEW g \in Groups
    PROVE  /\ ApplySucceeded(g) =>
                /\ order'[g] = "CONFIRMED" /\ reference'[g]
                /\ \A q \in Groups \ {g} : order'[q] = order[q] /\ reference'[q] = reference[q]
           /\ StoreReference(g) =>
                /\ order'[g] = "PENDING_PAYMENT" /\ reference'[g]
                /\ \A q \in Groups \ {g} : order'[q] = order[q] /\ reference'[q] = reference[q]
           /\ Compensate(g) =>
                /\ order'[g] = order[g] \/ (pc[g] = "failingOrder" /\ order'[g] = "FAILED")
                /\ reference'[g] <=> reference[g]
                /\ \A q \in Groups \ {g} : order'[q] = order[q] /\ reference'[q] = reference[q]
<1>1. ASSUME ApplySucceeded(g)
      PROVE  /\ order'[g] = "CONFIRMED" /\ reference'[g]
             /\ \A q \in Groups \ {g} : order'[q] = order[q] /\ reference'[q] = reference[q]
  BY <1>1, UpdateTyped DEF ApplySucceeded, ConfirmOrder, OrderStatus
<1>2. ASSUME StoreReference(g)
      PROVE  /\ order'[g] = "PENDING_PAYMENT" /\ reference'[g]
             /\ \A q \in Groups \ {g} : order'[q] = order[q] /\ reference'[q] = reference[q]
  BY <1>2, UpdateTyped DEF StoreReference, OrderStatus
<1>3. ASSUME Compensate(g)
      PROVE  /\ order'[g] = order[g] \/ (pc[g] = "failingOrder" /\ order'[g] = "FAILED")
             /\ reference'[g] <=> reference[g]
             /\ \A q \in Groups \ {g} : order'[q] = order[q] /\ reference'[q] = reference[q]
  BY <1>3, UpdateTyped DEF Compensate, FailOrder, OrderStatus
<1> QED
  BY <1>1, <1>2, <1>3

RequestInOrder(g) ==
    /\ pc[g] \in {"arrived", "duplicate", "claimed"} => stage[g] = "idle"
    /\ pc[g] = "taxed" \/ order[g] # "none" => stage[g] = "reserved"
    /\ pc[g] \in BeforeInsert => order[g] = "none"
    /\ pc[g] \in AfterInsert => order[g] # "none"
    /\ pc[g] = "placed" => body[g] # "none"
    /\ body[g] # "none" => pc[g] \in {"placed", "releasing"} \cup Over /\ reference[g]
    /\ reference[g] => order[g] # "none" /\ pc[g] \notin Paying \cup {"failing"}
    /\ pc[g] = "stored" => reference[g]
    /\ g \in compensated => body[g] = "none" /\ pc[g] \in {"releasing"} \cup Over
    /\ outcome[g] # "none" => pc[g] = "done"
    /\ pc[g] = "done" => order[g] = "none" \/ body[g] # "none" \/ outcome[g] = "error"

LEMMA RequestsStep ==
    ASSUME TypeOK, TypeOK', RequestsInOrder, RunsInOrder, [Next]_vars
    PROVE  RequestsInOrder'
<1> SUFFICES ASSUME NEW h \in Groups
             PROVE  RequestInOrder(h)'
  BY DEF RequestsInOrder, RequestInOrder
<1>0. RequestInOrder(h)
  BY DEF RequestsInOrder, RequestInOrder
<1>1. ASSUME NEW g \in Groups, Controller(g)
      PROVE  RequestInOrder(h)'
  <2>1. stage' = stage
    BY <1>1, StageUnchanged
  <2> QED
    BY <1>0, <1>1, <2>1 DEF TypeOK, RequestInOrder, Controller, ClaimKey, AnswerDuplicate,
       CacheResponse, CacheFails, ReleaseKey, Goto, BeforeInsert, AfterInsert, Paying, Over,
       orderVars
<1>2. ASSUME NEW g \in Groups, ReserveAndPersist(g)
      PROVE  RequestInOrder(h)'
  <2>1. CASE Reserve(g)
    BY <1>0, <1>2, <2>1, StageStep DEF TypeOK, RequestInOrder, Reserve, BeforeInsert,
       AfterInsert, Paying, Over, requestVars, orderVars
  <2>2. CASE StartReserving(g)
    <3>1. CASE h = g
      BY <1>0, <2>2, <3>1, StageStep DEF TypeOK, RequestInOrder, StartReserving, Goto,
         BeforeInsert, AfterInsert, Paying, Over, orderVars
    <3>2. CASE h # g
      BY <1>0, <2>2, <3>2, StageStep DEF TypeOK, RequestInOrder, StartReserving, Goto, orderVars
    <3> QED
      BY <3>1, <3>2
  <2>3. CASE \/ RejectEarly(g) \/ ReservationFailed(g) \/ CalculateTax(g) \/ TaxFails(g)
             \/ PersistFails(g)
    BY <1>0, <1>2, <2>3 DEF TypeOK, RequestInOrder, RejectEarly, ReservationFailed,
       CalculateTax, TaxFails, PersistFails, Goto, BeforeInsert, AfterInsert, Paying, Over, orderVars,
       reservations
  <2>4. CASE PersistOrder(g)
    <3>1. CASE h = g
      BY <1>0, <2>4, <3>1 DEF TypeOK, RequestInOrder, PersistOrder, Goto, BeforeInsert,
         AfterInsert, Paying, Over, reservations
    <3>2. CASE h # g
      BY <1>0, <2>4, <3>2 DEF TypeOK, RequestInOrder, PersistOrder, Goto, reservations
    <3> QED
      BY <3>1, <3>2
  <2> QED
    BY <1>2, <2>1, <2>2, <2>3, <2>4 DEF ReserveAndPersist
<1>3. ASSUME NEW g \in Groups, Pay(g)
      PROVE  RequestInOrder(h)'
  <2>1. stage' = stage
    BY <1>3, StageUnchanged
  <2>2. CASE \/ Charge(g) \/ ChargeThrows(g) \/ PaymentCircuitOpen(g) \/ GetStatus(g)
             \/ ReadOrder(g) \/ ApplyFails(g) \/ CompensationFails(g)
    BY <1>0, <2>1, <2>2 DEF TypeOK, RequestInOrder, Charge, ChargeThrows,
       PaymentCircuitOpen, GetStatus, ReadOrder, ApplyFails, CompensationFails,
       AfterFailedAttempt, Goto, BeforeInsert, AfterInsert, Paying, Over, orderVars
  <2>3. CASE ApplySucceeded(g)
    <3>1. order'[g] = "CONFIRMED" /\ reference'[g]
      BY <2>3, OrderSteps
    <3>2. \A q \in Groups \ {g} : order'[q] = order[q] /\ reference'[q] = reference[q]
      BY <2>3, OrderSteps
    <3>3. CASE h = g
      BY <1>0, <2>1, <2>3, <3>1, <3>3 DEF TypeOK, RequestInOrder, ApplySucceeded, Goto,
         BeforeInsert, AfterInsert, Paying, Over
    <3>4. CASE h # g
      BY <1>0, <2>1, <2>3, <3>2, <3>4 DEF TypeOK, RequestInOrder, ApplySucceeded, Goto
    <3> QED
      BY <3>3, <3>4
  <2>4. CASE StoreReference(g)
    <3>1. order'[g] = "PENDING_PAYMENT" /\ reference'[g]
      BY <2>4, OrderSteps
    <3>2. \A q \in Groups \ {g} : order'[q] = order[q] /\ reference'[q] = reference[q]
      BY <2>4, OrderSteps
    <3>3. CASE h = g
      BY <1>0, <2>1, <2>4, <3>1, <3>3 DEF TypeOK, RequestInOrder, StoreReference, Goto,
         BeforeInsert, AfterInsert, Paying, Over
    <3>4. CASE h # g
      BY <1>0, <2>1, <2>4, <3>2, <3>4 DEF TypeOK, RequestInOrder, StoreReference, Goto
    <3> QED
      BY <3>3, <3>4
  <2>5. CASE Compensate(g)
    <3>1. /\ order'[g] = order[g] \/ (pc[g] = "failingOrder" /\ order'[g] = "FAILED")
          /\ reference'[g] <=> reference[g]
      BY <2>5, OrderSteps
    <3>2. \A q \in Groups \ {g} : order'[q] = order[q] /\ reference'[q] = reference[q]
      BY <2>5, OrderSteps
    <3>3. CASE h = g
      BY <1>0, <2>1, <2>5, <3>1, <3>3 DEF TypeOK, RequestInOrder, Compensate, Goto,
         BeforeInsert, AfterInsert, Paying, Over
    <3>4. CASE h # g
      BY <1>0, <2>1, <2>5, <3>2, <3>4 DEF TypeOK, RequestInOrder, Compensate, Goto
    <3> QED
      BY <3>3, <3>4
  <2> QED
    BY <1>3, <2>2, <2>3, <2>4, <2>5 DEF Pay
<1>4. ASSUME NEW j \in ReconcileRuns, Reconcile(j)
      PROVE  RequestInOrder(h)'
  <2>1. stage' = stage
    BY <1>4, StageUnchanged
  <2>2. CASE \/ StartReconcile(j) \/ ApplyAnswerFails(j)
             \/ \E g \in Groups : PollPayment(j, g) \/ SkipOrder(j, g)
    BY <1>0, <2>1, <2>2 DEF RequestInOrder, StartReconcile, ApplyAnswerFails, PollPayment,
       SkipOrder, requestVars, orderVars
  <2>3. CASE ApplyAnswer(j)
    <3>1. PICK g \in Groups : reference[g] /\ (ConfirmOrder(g) \/ FailOrder(g))
      BY <2>3, AnswerFacts
    <3>2. /\ reference'[h] <=> reference[h]
          /\ order'[h] = order[h] \/ (reference[h] /\ order'[h] # "none")
      BY <3>1, UpdateTyped DEF ConfirmOrder, FailOrder, OrderStatus
    <3>3. UNCHANGED <<pc, body, outcome, compensated>>
      BY <2>3 DEF ApplyAnswer, requestVars
    <3> QED
      BY <1>0, <2>1, <3>2, <3>3 DEF RequestInOrder
  <2> QED
    BY <1>4, <2>2, <2>3 DEF Reconcile
<1>5. ASSUME NEW g \in Groups, Crash(g)
      PROVE  RequestInOrder(h)'
  <2>1. CASE h = g
    <3>1. pc[h] \in InProgress /\ pc'[h] = "crashed"
      BY <1>5, <2>1 DEF TypeOK, Crash, Goto
    <3>2. UNCHANGED <<order, reference, compensated, body, outcome>>
      BY <1>5 DEF Crash, orderVars
    <3>3. stage[h] = "reserved" => stage'[h] = "reserved"
      BY <1>5, <2>1, StageStep
    <3> QED
      BY <1>0, <3>1, <3>2, <3>3 DEF RequestInOrder, BeforeInsert, AfterInsert, Paying, Over,
         InProgress
  <2>2. CASE h # g
    BY <1>0, <1>5, <2>2, StageStep DEF TypeOK, RequestInOrder, Crash, Goto, orderVars
  <2> QED
    BY <2>1, <2>2
<1>6. CASE ExpireReservations
  BY <1>0, <1>6, StageUnchanged DEF TypeOK, RequestInOrder, ExpireReservations, FailPending,
     requestVars
<1>7. CASE \/ \E g \in Groups : SettlePayment(g)
           \/ \E k \in Keys : KeyExpires(k)
           \/ Tick
           \/ \E w \in FulfillRuns : FulfillReservations(w)
  BY <1>0, <1>7, StageUnchanged DEF RequestInOrder, SettlePayment, KeyExpires, Tick,
     FulfillReservations, requestVars, orderVars
<1>8. CASE UNCHANGED vars
  BY <1>0, <1>8 DEF RequestInOrder, vars, reservations, requestVars, orderVars
<1> QED
  BY <1>1, <1>2, <1>3, <1>4, <1>5, <1>6, <1>7, <1>8 DEF Next, Request

-----------------------------------------------------------------------------
(* The inductive invariant: the order and the gateway.                     *)

ChargeInOrder(g) ==
    /\ charges[g] <= attempts[g]
    /\ pc[g] \in BeforeInsert => attempts[g] = 0
    /\ pc[g] = "persisted" => attempts[g] < ChargeAttempts
    /\ charges[g] > 0 => order[g] # "none"
    /\ pc[g] \in BeforeInsert \cup {"persisted"} => payment[g] = "none"
    /\ pc[g] = "settled" => payment[g] = "succeeded"
    /\ order[g] = "CONFIRMED" => payment[g] = "succeeded" /\ reference[g]
    /\ body[g] = "CONFIRMED" => order[g] = "CONFIRMED"

LEMMA ChargesStep ==
    ASSUME TypeOK, TypeOK', RequestsInOrder, ChargesInOrder, RunsInOrder, [Next]_vars
    PROVE  ChargesInOrder'
<1> SUFFICES ASSUME NEW h \in Groups
             PROVE  ChargeInOrder(h)'
  BY DEF ChargesInOrder, ChargeInOrder
<1>0. ChargeInOrder(h) /\ RequestInOrder(h)
  BY DEF ChargesInOrder, ChargeInOrder, RequestsInOrder, RequestInOrder
<1>1. ASSUME NEW g \in Groups, Controller(g)
      PROVE  ChargeInOrder(h)'
  BY <1>0, <1>1 DEF TypeOK, ChargeInOrder, Controller, ClaimKey, AnswerDuplicate,
     CacheResponse, CacheFails, ReleaseKey, Goto, BeforeInsert, orderVars, gatewayVars
<1>2. ASSUME NEW g \in Groups, ReserveAndPersist(g)
      PROVE  ChargeInOrder(h)'
  <2>1. CASE Reserve(g)
    BY <1>0, <2>1 DEF ChargeInOrder, Reserve, requestVars, orderVars, gatewayVars
  <2>2. CASE \/ RejectEarly(g) \/ StartReserving(g) \/ ReservationFailed(g)
             \/ CalculateTax(g) \/ TaxFails(g) \/ PersistFails(g)
    BY <1>0, <2>2 DEF TypeOK, ChargeInOrder, RejectEarly, StartReserving, ReservationFailed,
       CalculateTax, TaxFails, PersistFails, Goto, BeforeInsert, orderVars, gatewayVars
  <2>3. CASE PersistOrder(g)
    <3>1. CASE h = g
      BY <1>0, <2>3, <3>1, RequestAssumption DEF TypeOK, ChargeInOrder, RequestInOrder,
         PersistOrder, Goto, BeforeInsert, gatewayVars
    <3>2. CASE h # g
      BY <1>0, <2>3, <3>2 DEF TypeOK, ChargeInOrder, PersistOrder, Goto, gatewayVars
    <3> QED
      BY <3>1, <3>2
  <2> QED
    BY <1>2, <2>1, <2>2, <2>3 DEF ReserveAndPersist
<1>3. ASSUME NEW g \in Groups, Pay(g)
      PROVE  ChargeInOrder(h)'
  <2>1. CASE Charge(g)
    <3>1. CASE h = g
      BY <1>0, <2>1, RequestAssumption, <3>1 DEF TypeOK, ChargeInOrder, RequestInOrder, Charge, Goto,
         BeforeInsert, AfterInsert, Paying, orderVars
    <3>2. CASE h # g
      BY <1>0, <2>1, RequestAssumption, <3>2 DEF TypeOK, ChargeInOrder, Charge, Goto, orderVars
    <3> QED
      BY <3>1, <3>2
  <2>2. CASE ChargeThrows(g)
    <3>1. CASE h = g
      BY <1>0, <2>2, RequestAssumption, <3>1 DEF TypeOK, ChargeInOrder, RequestInOrder, ChargeThrows, Goto,
         AfterFailedAttempt, BeforeInsert, AfterInsert, Paying, orderVars
    <3>2. CASE h # g
      BY <1>0, <2>2, RequestAssumption, <3>2 DEF TypeOK, ChargeInOrder, ChargeThrows, Goto, orderVars
    <3> QED
      BY <3>1, <3>2
  <2>3. CASE \/ PaymentCircuitOpen(g) \/ GetStatus(g) \/ ReadOrder(g) \/ ApplyFails(g)
             \/ CompensationFails(g)
    BY <1>0, <2>3 DEF TypeOK, ChargeInOrder, PaymentCircuitOpen, GetStatus, ReadOrder,
       ApplyFails, CompensationFails, Goto, BeforeInsert, orderVars, gatewayVars
  <2>4. CASE ApplySucceeded(g)
    <3>1. order'[g] = "CONFIRMED" /\ reference'[g]
      BY <2>4, OrderSteps
    <3>2. \A q \in Groups \ {g} : order'[q] = order[q] /\ reference'[q] = reference[q]
      BY <2>4, OrderSteps
    <3>3. CASE h = g
      BY <1>0, <2>4, <3>1, <3>3 DEF TypeOK, ChargeInOrder, RequestInOrder, ApplySucceeded, Goto,
         BeforeInsert, Over, gatewayVars
    <3>4. CASE h # g
      BY <1>0, <2>4, <3>2, <3>4 DEF TypeOK, ChargeInOrder, ApplySucceeded, Goto, gatewayVars
    <3> QED
      BY <3>3, <3>4
  <2>5. CASE StoreReference(g)
    <3>1. order'[g] = "PENDING_PAYMENT" /\ reference'[g]
      BY <2>5, OrderSteps
    <3>2. \A q \in Groups \ {g} : order'[q] = order[q] /\ reference'[q] = reference[q]
      BY <2>5, OrderSteps
    <3>3. CASE h = g
      BY <1>0, <2>5, <3>1, <3>3 DEF TypeOK, ChargeInOrder, RequestInOrder, StoreReference, Goto,
         BeforeInsert, Over, gatewayVars
    <3>4. CASE h # g
      BY <1>0, <2>5, <3>2, <3>4 DEF TypeOK, ChargeInOrder, StoreReference, Goto, gatewayVars
    <3> QED
      BY <3>3, <3>4
  <2>6. CASE Compensate(g)
    <3>1. /\ order'[g] = order[g] \/ (pc[g] = "failingOrder" /\ order'[g] = "FAILED")
          /\ reference'[g] <=> reference[g]
      BY <2>6, OrderSteps
    <3>2. \A q \in Groups \ {g} : order'[q] = order[q] /\ reference'[q] = reference[q]
      BY <2>6, OrderSteps
    <3>3. CASE h = g
      BY <1>0, <2>6, <3>1, <3>3 DEF TypeOK, ChargeInOrder, RequestInOrder, Compensate, Goto,
         BeforeInsert, Over, gatewayVars
    <3>4. CASE h # g
      BY <1>0, <2>6, <3>2, <3>4 DEF TypeOK, ChargeInOrder, Compensate, Goto, gatewayVars
    <3> QED
      BY <3>3, <3>4
  <2> QED
    BY <1>3, <2>1, <2>2, <2>3, <2>4, <2>5, <2>6 DEF Pay
<1>4. ASSUME NEW j \in ReconcileRuns, Reconcile(j)
      PROVE  ChargeInOrder(h)'
  <2>1. CASE \/ StartReconcile(j) \/ ApplyAnswerFails(j)
             \/ \E g \in Groups : PollPayment(j, g) \/ SkipOrder(j, g)
    BY <1>0, <2>1 DEF ChargeInOrder, StartReconcile, ApplyAnswerFails, PollPayment,
       SkipOrder, requestVars, orderVars, gatewayVars
  <2>2. CASE ApplyAnswer(j)
    <3>1. PICK g \in Groups :
            /\ reference[g]
            /\ \/ payment[g] = "succeeded" /\ ConfirmOrder(g)
               \/ payment[g] = "failed" /\ FailOrder(g)
      BY <2>2, AnswerFacts
    <3>2. /\ \/ payment[g] = "succeeded" /\ order'[g] = "CONFIRMED" /\ reference'[g]
             \/ payment[g] = "failed" /\ order'[g] = "FAILED"
          /\ \A q \in Groups \ {g} : order'[q] = order[q] /\ reference'[q] = reference[q]
      BY <3>1, UpdateTyped DEF ConfirmOrder, FailOrder, OrderStatus
    <3>3. /\ UNCHANGED <<pc, body, charges, attempts, payment>>
      BY <2>2 DEF ApplyAnswer, requestVars, gatewayVars
    <3> QED
      BY <1>0, <3>2, <3>3 DEF ChargeInOrder
  <2> QED
    BY <1>4, <2>1, <2>2 DEF Reconcile
<1>5. CASE ExpireReservations
  BY <1>0, <1>5 DEF TypeOK, ChargeInOrder, ExpireReservations, FailPending, requestVars,
     gatewayVars
<1>6. CASE \E g \in Groups : Crash(g) \/ SettlePayment(g)
  BY <1>0, <1>6 DEF TypeOK, ChargeInOrder, Crash, SettlePayment, Goto, InProgress,
     BeforeInsert, requestVars, orderVars, gatewayVars
<1>7. CASE \/ \E k \in Keys : KeyExpires(k)
           \/ Tick
           \/ \E w \in FulfillRuns : FulfillReservations(w)
           \/ UNCHANGED vars
  BY <1>0, <1>7 DEF ChargeInOrder, KeyExpires, Tick, FulfillReservations, vars, requestVars,
     orderVars, gatewayVars
<1> QED
  BY <1>1, <1>2, <1>3, <1>4, <1>5, <1>6, <1>7 DEF Next, Request

-----------------------------------------------------------------------------
(* The inductive invariant: keys and reconcile runs.                       *)

\* What no step takes back.
LEMMA StepsKeep ==
    ASSUME TypeOK, RequestsInOrder, ChargesInOrder, RunsInOrder, [Next]_vars,
           NEW h \in Groups
    PROVE  /\ reference[h] => reference'[h]
           /\ payment[h] \in Settled => payment'[h] = payment[h]
           /\ order[h] # "none" => order'[h] # "none"
           /\ body[h] # "none" => body'[h] = body[h]
<1> DEFINE Kept == /\ reference[h] => reference'[h]
                   /\ payment[h] \in Settled => payment'[h] = payment[h]
                   /\ order[h] # "none" => order'[h] # "none"
                   /\ body[h] # "none" => body'[h] = body[h]
<1>0. ChargeInOrder(h) /\ RequestInOrder(h)
  BY DEF ChargesInOrder, ChargeInOrder, RequestsInOrder, RequestInOrder
<1>1. ASSUME NEW g \in Groups, Controller(g)
      PROVE  Kept
  BY <1>1 DEF Controller, ClaimKey, AnswerDuplicate, CacheResponse, CacheFails, ReleaseKey,
     orderVars, gatewayVars
<1>2. ASSUME NEW g \in Groups, ReserveAndPersist(g)
      PROVE  Kept
  BY <1>2 DEF TypeOK, ReserveAndPersist, RejectEarly, StartReserving, Reserve,
     ReservationFailed, CalculateTax, TaxFails, PersistOrder, PersistFails, requestVars,
     orderVars, gatewayVars
<1>3. ASSUME NEW g \in Groups, Pay(g)
      PROVE  Kept
  <2>1. CASE \/ Charge(g) \/ ChargeThrows(g) \/ PaymentCircuitOpen(g) \/ GetStatus(g)
             \/ ReadOrder(g) \/ ApplyFails(g) \/ CompensationFails(g)
    BY <1>0, <2>1 DEF TypeOK, ChargeInOrder, RequestInOrder, Over, Settled, Charge,
       ChargeThrows, PaymentCircuitOpen, GetStatus, ReadOrder, ApplyFails, CompensationFails,
       Goto, orderVars, gatewayVars
  <2>2. CASE ApplySucceeded(g) \/ StoreReference(g) \/ Compensate(g)
    <3>1. /\ reference[h] => reference'[h]
          /\ order[h] # "none" => order'[h] # "none"
      BY <2>2, OrderSteps
    <3>2. body[h] # "none" => body'[h] = body[h]
      BY <1>0, <2>2 DEF TypeOK, RequestInOrder, ApplySucceeded, StoreReference, Compensate,
         Goto, Over
    <3>3. payment' = payment
      BY <2>2 DEF ApplySucceeded, StoreReference, Compensate, gatewayVars
    <3> QED
      BY <3>1, <3>2, <3>3
  <2> QED
    BY <1>3, <2>1, <2>2 DEF Pay
<1>4. ASSUME NEW j \in ReconcileRuns, Reconcile(j)
      PROVE  Kept
  <2>1. CASE \/ StartReconcile(j) \/ ApplyAnswerFails(j)
             \/ \E g \in Groups : PollPayment(j, g) \/ SkipOrder(j, g)
    BY <2>1 DEF StartReconcile, ApplyAnswerFails, PollPayment, SkipOrder, requestVars,
       orderVars, gatewayVars
  <2>2. CASE ApplyAnswer(j)
    <3>1. PICK g \in Groups : reference[g] /\ (ConfirmOrder(g) \/ FailOrder(g))
      BY <2>2, AnswerFacts
    <3>2. /\ reference[h] => reference'[h]
          /\ order[h] # "none" => order'[h] # "none"
      BY <3>1, UpdateTyped DEF ConfirmOrder, FailOrder, OrderStatus
    <3> QED
      BY <2>2, <3>2 DEF ApplyAnswer, requestVars, gatewayVars
  <2> QED
    BY <1>4, <2>1, <2>2 DEF Reconcile
<1>5. CASE ExpireReservations
  BY <1>5 DEF TypeOK, ExpireReservations, FailPending, requestVars, gatewayVars
<1>6. CASE \E g \in Groups : Crash(g) \/ SettlePayment(g)
  BY <1>6 DEF TypeOK, Settled, Crash, SettlePayment, requestVars, orderVars, gatewayVars
<1>7. CASE \/ \E k \in Keys : KeyExpires(k)
           \/ Tick
           \/ \E w \in FulfillRuns : FulfillReservations(w)
           \/ UNCHANGED vars
  BY <1>7 DEF KeyExpires, Tick, FulfillReservations, vars, requestVars, orderVars,
     gatewayVars
<1> QED
  BY <1>1, <1>2, <1>3, <1>4, <1>5, <1>6, <1>7 DEF Next, Request

LEMMA RunsStep ==
    ASSUME TypeOK, TypeOK', RequestsInOrder, ChargesInOrder, RunsInOrder, [Next]_vars
    PROVE  RunsInOrder'
<1> SUFFICES ASSUME NEW l \in ReconcileRuns
             PROVE  /\ \A g \in scan'[l] : reference'[g]
                    /\ polled'[l] # NoAnswer =>
                         reference'[polled'[l][1]] /\ payment'[polled'[l][1]] = polled'[l][2]
  BY DEF RunsInOrder, NoAnswer
<1>1. /\ \A g \in scan[l] : g \in Groups /\ reference[g]
      /\ polled[l] # NoAnswer =>
           /\ polled[l][1] \in Groups /\ polled[l][2] \in Settled
           /\ reference[polled[l][1]] /\ payment[polled[l][1]] = polled[l][2]
  BY DEF TypeOK, RunsInOrder
<1>2. \A h \in Groups : /\ reference[h] => reference'[h]
                        /\ payment[h] \in Settled => payment'[h] = payment[h]
  BY StepsKeep
<1>3. CASE scan'[l] = scan[l] /\ polled'[l] = polled[l]
  BY <1>1, <1>2, <1>3
<1>4. ASSUME NEW j \in ReconcileRuns, Reconcile(j)
      PROVE  \/ scan'[l] = scan[l] /\ polled'[l] = polled[l]
             \/ /\ scan'[l] \subseteq {g \in Groups : reference[g]}
                /\ \/ polled'[l] = NoAnswer
                   \/ \E g \in scan[l] : payment[g] \in Settled
                                         /\ polled'[l] = <<g, payment[g]>>
  BY <1>1, <1>4 DEF TypeOK, Reconcile, StartReconcile, PollPayment, SkipOrder, ApplyAnswer,
     ApplyAnswerFails, StalePending
<1>5. ASSUME NEW j \in ReconcileRuns, Reconcile(j)
      PROVE  /\ \A g \in scan'[l] : reference'[g]
             /\ polled'[l] # NoAnswer =>
                  reference'[polled'[l][1]] /\ payment'[polled'[l][1]] = polled'[l][2]
  BY <1>1, <1>2, <1>3, <1>4, <1>5
<1>6. CASE \/ \E g \in Groups : Crash(g) \/ SettlePayment(g)
           \/ \E k \in Keys : KeyExpires(k)
           \/ ExpireReservations \/ Tick
           \/ \E w \in FulfillRuns : FulfillReservations(w)
           \/ UNCHANGED vars
  BY <1>3, <1>6 DEF Crash, SettlePayment, KeyExpires, ExpireReservations, Tick,
     FulfillReservations, vars, jobVars
<1> QED
  BY <1>3, <1>5, <1>6, RequestKeepsRuns DEF Next

\* An order is inserted only where its key has none.
LEMMA InsertsStep ==
    ASSUME TypeOK, RequestsInOrder, RunsInOrder, [Next]_vars,
           NEW h \in Groups, order[h] = "none", order'[h] # "none"
    PROVE  PersistOrder(h)
<1>0. RequestInOrder(h)
  BY DEF RequestsInOrder, RequestInOrder
<1>1. ASSUME NEW g \in Groups, Controller(g)
      PROVE  FALSE
  BY <1>1 DEF Controller, ClaimKey, AnswerDuplicate, CacheResponse, CacheFails, ReleaseKey,
     orderVars
<1>2. ASSUME NEW g \in Groups, ReserveAndPersist(g)
      PROVE  PersistOrder(h)
  <2>1. CASE PersistOrder(g)
    BY <2>1 DEF TypeOK, PersistOrder
  <2>2. CASE ~PersistOrder(g)
    BY <1>2, <2>2 DEF ReserveAndPersist, RejectEarly, StartReserving, Reserve,
       ReservationFailed, CalculateTax, TaxFails, PersistFails, orderVars
  <2> QED
    BY <2>1, <2>2
<1>3. ASSUME NEW g \in Groups, Pay(g)
      PROVE  FALSE
  <2>1. CASE \/ Charge(g) \/ ChargeThrows(g) \/ PaymentCircuitOpen(g) \/ GetStatus(g)
             \/ ReadOrder(g) \/ ApplyFails(g) \/ CompensationFails(g)
    BY <2>1 DEF Charge, ChargeThrows, PaymentCircuitOpen, GetStatus, ReadOrder, ApplyFails,
       CompensationFails, orderVars
  <2>2. CASE ApplySucceeded(g) \/ StoreReference(g) \/ Compensate(g)
    <3>1. h = g
      BY <2>2, OrderSteps
    <3>2. pc[g] \in {"settled", "unsettled", "failingOrder"}
      BY <2>2, <3>1, OrderSteps DEF ApplySucceeded, StoreReference, Goto
    <3> QED
      BY <1>0, <3>1, <3>2 DEF RequestInOrder, AfterInsert, Paying
  <2> QED
    BY <1>3, <2>1, <2>2 DEF Pay
<1>4. ASSUME NEW j \in ReconcileRuns, Reconcile(j)
      PROVE  FALSE
  <2>1. CASE ApplyAnswer(j)
    <3>1. PICK g \in Groups : reference[g] /\ (ConfirmOrder(g) \/ FailOrder(g))
      BY <2>1, AnswerFacts
    <3>2. h = g
      BY <3>1, UpdateTyped DEF ConfirmOrder, FailOrder, OrderStatus
    <3> QED
      BY <1>0, <3>1, <3>2 DEF RequestInOrder
  <2>2. CASE ~ApplyAnswer(j)
    BY <1>4, <2>2 DEF Reconcile, StartReconcile, ApplyAnswerFails, PollPayment, SkipOrder,
       orderVars
  <2> QED
    BY <2>1, <2>2
<1>5. CASE ExpireReservations
  BY <1>5 DEF ExpireReservations, FailPending
<1>6. CASE \/ \E g \in Groups : Crash(g) \/ SettlePayment(g)
           \/ \E k \in Keys : KeyExpires(k)
           \/ Tick
           \/ \E w \in FulfillRuns : FulfillReservations(w)
           \/ UNCHANGED vars
  BY <1>6 DEF Crash, SettlePayment, KeyExpires, Tick, FulfillReservations, vars, orderVars
<1> QED
  BY <1>1, <1>2, <1>3, <1>4, <1>5, <1>6 DEF Next, Request

LEMMA KeysStep ==
    ASSUME TypeOK, TypeOK', RequestsInOrder, ChargesInOrder, KeysInOrder, RunsInOrder,
           [Next]_vars
    PROVE  KeysInOrder'
<1>1. ASSUME NEW g \in Groups, NEW h \in Groups, KeyOf[g] = KeyOf[h],
             order'[g] # "none", order'[h] # "none"
      PROVE  g = h
  <2>1. CASE order[g] # "none" /\ order[h] # "none"
    BY <1>1, <2>1 DEF KeysInOrder
  <2>2. CASE order[g] = "none"
    <3>1. PersistOrder(g)
      BY <1>1, <2>2, InsertsStep
    <3>2. order[h] = "none"
      BY <1>1, <3>1 DEF PersistOrder, KeyTaken
    <3> QED
      BY <1>1, <3>1, <3>2 DEF TypeOK, PersistOrder
  <2>3. CASE order[h] = "none"
    <3>1. PersistOrder(h)
      BY <1>1, <2>3, InsertsStep
    <3>2. order[g] = "none"
      BY <1>1, <3>1 DEF PersistOrder, KeyTaken
    <3> QED
      BY <1>1, <3>1, <3>2 DEF TypeOK, PersistOrder
  <2> QED
    BY <2>1, <2>2, <2>3
<1>2. \A h \in Groups : body[h] # "none" => body'[h] # "none"
  BY StepsKeep
<1>3. \/ /\ \A k \in Keys : slot'[k] = slot[k] \/ slot'[k] \in {"absent", "pending"}
         /\ \A g \in Groups : \/ outcome'[g] = outcome[g]
                              \/ outcome'[g] \in {"conflict", "error"}
                              \/ outcome'[g] = slot[KeyOf[g]]
      \/ \E g \in Groups : CacheResponse(g)
  <2>1. ASSUME NEW g \in Groups, Controller(g)
        PROVE  <1>3
    BY <2>1, RequestAssumption DEF TypeOK, Controller, ClaimKey, AnswerDuplicate, CacheFails,
       ReleaseKey
  <2>2. ASSUME NEW g \in Groups, ReserveAndPersist(g) \/ Pay(g)
        PROVE  slot' = slot /\ outcome' = outcome
    BY <2>2 DEF ReserveAndPersist, RejectEarly, StartReserving, Reserve, ReservationFailed,
       CalculateTax, TaxFails, PersistOrder, PersistFails, Pay, Charge, ChargeThrows,
       PaymentCircuitOpen, GetStatus, ApplySucceeded, StoreReference, ReadOrder, ApplyFails,
       Compensate, CompensationFails, requestVars
  <2>3. ASSUME NEW j \in ReconcileRuns, Reconcile(j)
        PROVE  slot' = slot /\ outcome' = outcome
    BY <2>3 DEF Reconcile, StartReconcile, PollPayment, SkipOrder, ApplyAnswer,
       ApplyAnswerFails, requestVars
  <2>4. ASSUME NEW k \in Keys, KeyExpires(k)
        PROVE  <1>3
    BY <2>4 DEF TypeOK, KeyExpires, requestVars
  <2>5. CASE \/ \E g \in Groups : Crash(g) \/ SettlePayment(g)
             \/ ExpireReservations \/ Tick
             \/ \E w \in FulfillRuns : FulfillReservations(w)
             \/ UNCHANGED vars
    BY <2>5 DEF Crash, SettlePayment, ExpireReservations, Tick, FulfillReservations, vars,
       requestVars
  <2> QED
    BY <2>1, <2>2, <2>3, <2>4, <2>5 DEF Next, Request
<1>4. CASE \E g \in Groups : CacheResponse(g)
  <2>1. PICK g \in Groups : CacheResponse(g)
    BY <1>4
  <2>2. /\ body[g] # "none" /\ KeyOf[g] \in Keys
        /\ slot' = [slot EXCEPT ![KeyOf[g]] = g] /\ outcome' = [outcome EXCEPT ![g] = g]
    BY <2>1, RequestAssumption DEF CacheResponse, Goto, RequestsInOrder
  <2> QED
    BY <1>1, <1>2, <2>2 DEF TypeOK, KeysInOrder
<1>5. CASE ~\E g \in Groups : CacheResponse(g)
  BY <1>1, <1>2, <1>3, <1>5, GroupAssumption, RequestAssumption DEF TypeOK, KeysInOrder
<1> QED
  BY <1>4, <1>5

-----------------------------------------------------------------------------
(* The inductive invariant: what was committed.                            *)

\* Rows become active only while their request reserves, and confirmed only
\* together with their order.
LEMMA RowsStep ==
    ASSUME TypeOK, RunsInOrder, [Next]_vars, NEW h \in Groups
    PROVE  /\ HasActive(h)' => HasActive(h) \/ pc[h] = "reserving"
           /\ HasConfirmed(h)' => HasConfirmed(h) \/ order'[h] = "CONFIRMED"
           /\ stage'[h] = "reserved" => stage[h] = "reserved" \/ pc[h] = "reserving"
<1> DEFINE Rows == /\ HasActive(h)' => HasActive(h) \/ pc[h] = "reserving"
                   /\ HasConfirmed(h)' => HasConfirmed(h) \/ order'[h] = "CONFIRMED"
                   /\ stage'[h] = "reserved" => stage[h] = "reserved" \/ pc[h] = "reserving"
<1>0. /\ status \in [Groups -> [Inventories -> R!RowStatus]]
      /\ stage \in [Groups -> R!Stages]
  BY DEF TypeOK, R!TypeOK
<1>1. CASE UNCHANGED <<status, stage>>
  BY <1>1 DEF HasActive, HasConfirmed
<1>2. ASSUME NEW g \in Groups, R!ConfirmReservations(g), order'[g] = "CONFIRMED"
      PROVE  Rows
  BY <1>0, <1>2 DEF R!ConfirmReservations, R!UpdateGroup, HasActive, HasConfirmed
<1>3. ASSUME NEW g \in Groups, R!ReleaseReservations(g)
      PROVE  Rows
  BY <1>0, <1>3 DEF R!ReleaseReservations, R!UpdateGroup, HasActive, HasConfirmed
<1>4. CASE ExpireReservations
  BY <1>0, <1>4 DEF ExpireReservations, R!ExpireReservations, HasActive, HasConfirmed
<1>5. ASSUME NEW w \in FulfillRuns, FulfillReservations(w)
      PROVE  Rows
  <2>1. CASE R!FulfillInventory(w)
    BY <1>0, <2>1 DEF R!FulfillInventory, HasActive, HasConfirmed
  <2>2. CASE ~R!FulfillInventory(w)
    <3>1. UNCHANGED <<status, stage>>
      BY <1>5, <2>2 DEF FulfillReservations, R!Fulfill, R!StartFulfillment,
         R!FinishFulfillment, R!FulfillmentRejected, R!CrashFulfillment, R!StopRun, R!rowVars
    <3> QED
      BY <1>1, <3>1
  <2> QED
    BY <2>1, <2>2
<1>6. ASSUME NEW g \in Groups, ReserveAndPersist(g)
      PROVE  Rows
  <2>1. CASE Reserve(g)
    <3>1. CASE R!InsertReservation(g)
      BY <1>0, <2>1, <3>1 DEF Reserve, R!InsertReservation, HasActive, HasConfirmed
    <3>2. CASE ~R!InsertReservation(g)
      BY <1>0, <2>1, <3>2 DEF Reserve, R!BeginTransaction, R!LockForReservation,
         R!GetAvailable, R!InsufficientInventory, R!AbortReservation, R!RollBack, R!rowVars,
         HasActive, HasConfirmed
    <3> QED
      BY <3>1, <3>2
  <2>2. CASE StartReserving(g)
    BY <1>0, <2>2 DEF StartReserving, R!CreateReservations, HasActive, HasConfirmed
  <2>3. CASE ~Reserve(g) /\ ~StartReserving(g)
    <3>1. UNCHANGED reservations
      BY <1>6, <2>3 DEF ReserveAndPersist, RejectEarly, ReservationFailed, CalculateTax,
         TaxFails, PersistOrder, PersistFails
    <3> QED
      BY <1>1, <3>1 DEF reservations
  <2> QED
    BY <2>1, <2>2, <2>3
<1>7. ASSUME NEW g \in Groups, Pay(g)
      PROVE  Rows
  <2>1. CASE ApplySucceeded(g)
    BY <1>2, <2>1, OrderSteps DEF ApplySucceeded, ConfirmOrder
  <2>2. CASE Compensate(g)
    BY <1>3, <2>2 DEF Compensate, FailOrder
  <2>3. CASE ~ApplySucceeded(g) /\ ~Compensate(g)
    <3>1. UNCHANGED reservations
      BY <1>7, <2>3 DEF Pay, Charge, ChargeThrows, PaymentCircuitOpen, GetStatus,
         StoreReference, ReadOrder, ApplyFails, CompensationFails
    <3> QED
      BY <1>1, <3>1 DEF reservations
  <2> QED
    BY <2>1, <2>2, <2>3
<1>8. ASSUME NEW j \in ReconcileRuns, Reconcile(j)
      PROVE  Rows
  <2>1. CASE ApplyAnswer(j)
    <3>1. PICK g \in Groups : ConfirmOrder(g) \/ FailOrder(g)
      BY <2>1, AnswerFacts
    <3>2. ConfirmOrder(g) => order'[g] = "CONFIRMED"
      BY UpdateTyped DEF ConfirmOrder, OrderStatus
    <3> QED
      BY <1>2, <1>3, <3>1, <3>2 DEF ConfirmOrder, FailOrder
  <2>2. CASE ~ApplyAnswer(j)
    <3>1. UNCHANGED reservations
      BY <1>8, <2>2 DEF Reconcile, StartReconcile, PollPayment, SkipOrder, ApplyAnswerFails
    <3> QED
      BY <1>1, <3>1 DEF reservations
  <2> QED
    BY <2>1, <2>2
<1>9. ASSUME NEW g \in Groups, Crash(g)
      PROVE  Rows
  BY <1>0, <1>9 DEF Crash, R!AbortReservation, R!RollBack, R!rowVars, reservations,
     HasActive, HasConfirmed
<1>10. ASSUME NEW g \in Groups, Controller(g) \/ SettlePayment(g)
       PROVE  Rows
  BY <1>1, <1>10 DEF Controller, ClaimKey, AnswerDuplicate, CacheResponse, CacheFails,
     ReleaseKey, SettlePayment, reservations
<1>11. CASE Tick \/ (\E k \in Keys : KeyExpires(k)) \/ UNCHANGED vars
  BY <1>1, <1>11 DEF Tick, R!Tick, R!rowVars, KeyExpires, vars, reservations
<1> QED
  BY <1>4, <1>5, <1>6, <1>7, <1>8, <1>9, <1>10, <1>11 DEF Next, Request

\* The steps that change the status of an order.
LEMMA OrderChanges ==
    ASSUME TypeOK, ChargesInOrder, RunsInOrder, [Next]_vars, NEW h \in Groups,
           order'[h] # order[h]
    PROVE  \/ PersistOrder(h) \/ StoreReference(h)
           \/ order'[h] = "CONFIRMED"
           \/ Compensate(h) /\ pc[h] = "failingOrder" /\ order'[h] = "FAILED"
           \/ order[h] # "CONFIRMED" /\ order'[h] = "FAILED"
<1> DEFINE Changes ==
        \/ PersistOrder(h) \/ StoreReference(h)
        \/ order'[h] = "CONFIRMED"
        \/ Compensate(h) /\ pc[h] = "failingOrder" /\ order'[h] = "FAILED"
        \/ order[h] # "CONFIRMED" /\ order'[h] = "FAILED"
<1>1. ASSUME NEW g \in Groups, Controller(g)
      PROVE  FALSE
  BY <1>1 DEF Controller, ClaimKey, AnswerDuplicate, CacheResponse, CacheFails, ReleaseKey,
     orderVars
<1>2. ASSUME NEW g \in Groups, ReserveAndPersist(g)
      PROVE  Changes
  <2>1. CASE PersistOrder(g)
    BY <2>1 DEF TypeOK, PersistOrder
  <2>2. CASE ~PersistOrder(g)
    BY <1>2, <2>2 DEF ReserveAndPersist, RejectEarly, StartReserving, Reserve,
       ReservationFailed, CalculateTax, TaxFails, PersistFails, orderVars
  <2> QED
    BY <2>1, <2>2
<1>3. ASSUME NEW g \in Groups, Pay(g)
      PROVE  Changes
  <2>1. CASE \/ Charge(g) \/ ChargeThrows(g) \/ PaymentCircuitOpen(g) \/ GetStatus(g)
             \/ ReadOrder(g) \/ ApplyFails(g) \/ CompensationFails(g)
    BY <2>1 DEF Charge, ChargeThrows, PaymentCircuitOpen, GetStatus, ReadOrder, ApplyFails,
       CompensationFails, orderVars
  <2>2. CASE ApplySucceeded(g) \/ StoreReference(g) \/ Compensate(g)
    <3>1. h = g
      BY <2>2, OrderSteps
    <3> QED
      BY <2>2, <3>1, OrderSteps
  <2> QED
    BY <1>3, <2>1, <2>2 DEF Pay
<1>4. ASSUME NEW j \in ReconcileRuns, Reconcile(j)
      PROVE  Changes
  <2>1. CASE ApplyAnswer(j)
    <3>1. PICK g \in Groups :
            /\ reference[g]
            /\ \/ payment[g] = "succeeded" /\ ConfirmOrder(g)
               \/ payment[g] = "failed" /\ FailOrder(g)
      BY <2>1, AnswerFacts
    <3>2. /\ \/ payment[g] = "succeeded" /\ order'[g] = "CONFIRMED"
             \/ payment[g] = "failed" /\ order'[g] = "FAILED"
          /\ \A q \in Groups \ {g} : order'[q] = order[q]
      BY <3>1, UpdateTyped DEF ConfirmOrder, FailOrder, OrderStatus
    <3> QED
      BY <3>1, <3>2 DEF ChargesInOrder
  <2>2. CASE ~ApplyAnswer(j)
    BY <1>4, <2>2 DEF Reconcile, StartReconcile, ApplyAnswerFails, PollPayment, SkipOrder,
       orderVars
  <2> QED
    BY <2>1, <2>2
<1>5. CASE ExpireReservations
  BY <1>5 DEF TypeOK, ExpireReservations, FailPending
<1>6. CASE \/ \E g \in Groups : Crash(g) \/ SettlePayment(g)
           \/ \E k \in Keys : KeyExpires(k)
           \/ Tick
           \/ \E w \in FulfillRuns : FulfillReservations(w)
           \/ UNCHANGED vars
  BY <1>6 DEF Crash, SettlePayment, KeyExpires, Tick, FulfillReservations, vars, orderVars
<1> QED
  BY <1>1, <1>2, <1>3, <1>4, <1>5, <1>6 DEF Next, Request

\* An order counts as compensated from the compensation that failed it on.
LEMMA CompensatedStep ==
    ASSUME [Next]_vars
    PROVE  \/ compensated' = compensated
           \/ \E g \in Groups : /\ Compensate(g) /\ pc[g] = "failingOrder"
                                /\ compensated' = compensated \cup {g}
<1>1. ASSUME NEW g \in Groups, Controller(g) \/ Crash(g) \/ SettlePayment(g)
      PROVE  compensated' = compensated
  BY <1>1 DEF Controller, ClaimKey, AnswerDuplicate, CacheResponse, CacheFails, ReleaseKey,
     Crash, SettlePayment, orderVars
<1>2. ASSUME NEW g \in Groups, ReserveAndPersist(g)
      PROVE  compensated' = compensated
  BY <1>2 DEF ReserveAndPersist, RejectEarly, StartReserving, Reserve, ReservationFailed,
     CalculateTax, TaxFails, PersistOrder, PersistFails, orderVars
<1>3. ASSUME NEW g \in Groups, Pay(g)
      PROVE  \/ compensated' = compensated
             \/ /\ Compensate(g) /\ pc[g] = "failingOrder"
                /\ compensated' = compensated \cup {g}
  <2>1. CASE Compensate(g)
    BY <2>1 DEF Compensate
  <2>2. CASE ~Compensate(g)
    BY <1>3, <2>2 DEF Pay, Charge, ChargeThrows, PaymentCircuitOpen, GetStatus,
       ApplySucceeded, StoreReference, ReadOrder, ApplyFails, CompensationFails, orderVars
  <2> QED
    BY <2>1, <2>2
<1>4. ASSUME NEW j \in ReconcileRuns, Reconcile(j)
      PROVE  compensated' = compensated
  BY <1>4 DEF Reconcile, StartReconcile, PollPayment, SkipOrder, ApplyAnswer,
     ApplyAnswerFails, orderVars
<1>5. CASE \/ \E k \in Keys : KeyExpires(k)
           \/ ExpireReservations \/ Tick
           \/ \E w \in FulfillRuns : FulfillReservations(w)
           \/ UNCHANGED vars
  BY <1>5 DEF KeyExpires, ExpireReservations, Tick, FulfillReservations, vars, orderVars
<1> QED
  BY <1>1, <1>2, <1>3, <1>4, <1>5 DEF Next, Request

Ending(g) == pc[g] = "releasing" \/ outcome[g] = "error"

\* How a request comes to its end with an error, and nobody forgets a job.
LEMMA EndingStep ==
    ASSUME TypeOK, [Next]_vars, NEW h \in Groups
    PROVE  /\ deadLetters \subseteq deadLetters'
           /\ Ending(h)' =>
                \/ Ending(h)
                \/ RejectEarly(h) \/ ReservationFailed(h) \/ CacheFails(h)
                \/ Compensate(h) \/ CompensationFails(h)
           /\ pc'[h] = "failing" =>
                \/ pc[h] = "failing"
                \/ TaxFails(h) \/ PersistFails(h)
                \/ PersistOrder(h) /\ "ackLost" \in Faults
<1> DEFINE Goal ==
        /\ deadLetters \subseteq deadLetters'
        /\ Ending(h)' =>
             \/ Ending(h)
             \/ RejectEarly(h) \/ ReservationFailed(h) \/ CacheFails(h)
             \/ Compensate(h) \/ CompensationFails(h)
        /\ pc'[h] = "failing" =>
             \/ pc[h] = "failing"
             \/ TaxFails(h) \/ PersistFails(h)
             \/ PersistOrder(h) /\ "ackLost" \in Faults
<1>1. ASSUME NEW g \in Groups, CacheFails(g) \/ ReservationFailed(g) \/ RejectEarly(g)
      PROVE  Goal
  <2>1. h # g => pc'[h] = pc[h]
    BY <1>1 DEF TypeOK, CacheFails, ReservationFailed, RejectEarly, Goto
  <2>2. UNCHANGED <<outcome, deadLetters>> /\ pc'[g] # "failing"
    BY <1>1 DEF TypeOK, CacheFails, ReservationFailed, RejectEarly, Goto
  <2> QED
    BY <1>1, <2>1, <2>2 DEF Ending
<1>2. ASSUME NEW g \in Groups, ClaimKey(g) \/ AnswerDuplicate(g) \/ CacheResponse(g)
      PROVE  Goal
  BY <1>2, GroupAssumption DEF TypeOK, Ending, ClaimKey, AnswerDuplicate, CacheResponse, Goto
<1>3. ASSUME NEW g \in Groups, ReleaseKey(g)
      PROVE  Goal
  BY <1>3 DEF TypeOK, Ending, ReleaseKey, Goto
<1>4. ASSUME NEW g \in Groups, StartReserving(g) \/ Reserve(g) \/ CalculateTax(g)
      PROVE  Goal
  BY <1>4 DEF TypeOK, Ending, StartReserving, Reserve, CalculateTax, Goto, requestVars
<1>5. ASSUME NEW g \in Groups, TaxFails(g) \/ PersistFails(g) \/ PersistOrder(g)
      PROVE  Goal
  <2>1. h # g => pc'[h] = pc[h]
    BY <1>5 DEF TypeOK, TaxFails, PersistFails, PersistOrder, Goto
  <2>2. UNCHANGED <<outcome, deadLetters>> /\ pc'[g] # "releasing"
    BY <1>5 DEF TypeOK, TaxFails, PersistFails, PersistOrder, Goto
  <2>3. PersistOrder(g) /\ pc'[g] = "failing" => "ackLost" \in Faults
    BY DEF TypeOK, PersistOrder, Goto
  <2> QED
    BY <1>5, <2>1, <2>2, <2>3 DEF Ending
<1>6. ASSUME NEW g \in Groups, Pay(g)
      PROVE  Goal
  <2>1. CASE Compensate(g) \/ CompensationFails(g)
    <3>1. h # g => pc'[h] = pc[h]
      BY <2>1 DEF TypeOK, Compensate, CompensationFails, Goto
    <3>2. /\ outcome' = outcome /\ deadLetters \subseteq deadLetters'
          /\ pc'[g] # "failing"
      BY <2>1 DEF TypeOK, Compensate, CompensationFails, Goto
    <3> QED
      BY <2>1, <3>1, <3>2 DEF Ending
  <2>2. CASE \/ Charge(g) \/ ChargeThrows(g) \/ PaymentCircuitOpen(g) \/ GetStatus(g)
             \/ ApplySucceeded(g) \/ StoreReference(g) \/ ReadOrder(g) \/ ApplyFails(g)
    <3>1. /\ pc'[h] \in {pc[h], "charged", "persisted", "failingOrder", "settled",
                         "unsettled", "stored", "placed"}
          /\ UNCHANGED <<outcome, deadLetters>>
      BY <2>2 DEF TypeOK, Charge, ChargeThrows, PaymentCircuitOpen, GetStatus,
         ApplySucceeded, StoreReference, ReadOrder, ApplyFails, AfterFailedAttempt, Goto
    <3> QED
      BY <3>1 DEF Ending
  <2> QED
    BY <1>6, <2>1, <2>2 DEF Pay
<1>7. ASSUME NEW j \in ReconcileRuns, Reconcile(j)
      PROVE  Goal
  BY <1>7 DEF Ending, Reconcile, StartReconcile, PollPayment, SkipOrder, ApplyAnswer,
     ApplyAnswerFails, requestVars
<1>8. CASE \/ \E g \in Groups : Crash(g) \/ SettlePayment(g)
           \/ \E k \in Keys : KeyExpires(k)
           \/ ExpireReservations \/ Tick
           \/ \E w \in FulfillRuns : FulfillReservations(w)
           \/ UNCHANGED vars
  BY <1>8 DEF TypeOK, Ending, Crash, SettlePayment, KeyExpires, ExpireReservations, Tick,
     FulfillReservations, Goto, vars, requestVars
<1> QED
  BY <1>1, <1>2, <1>3, <1>4, <1>5, <1>6, <1>7, <1>8
  DEF Next, Request, Controller, ReserveAndPersist

Compensated(g) ==
    Ending(g) /\ stage[g] = "reserved" /\ body[g] = "none" /\ g \notin deadLetters
        => /\ ~HasActive(g)
           /\ order[g] # "PENDING_PAYMENT"

LEMMA CompensationStep ==
    ASSUME TypeOK, TypeOK', RequestsInOrder, ChargesInOrder, RunsInOrder, CommitsInOrder,
           "ackLost" \notin Faults, "redis" \notin Faults, [Next]_vars, NEW h \in Groups
    PROVE  Compensated(h)'
<1> SUFFICES ASSUME Ending(h)', stage'[h] = "reserved", body'[h] = "none",
                    h \notin deadLetters'
             PROVE  ~HasActive(h)' /\ order'[h] # "PENDING_PAYMENT"
  BY DEF Compensated
<1>0. /\ RequestInOrder(h) /\ Compensated(h)
      /\ pc[h] = "failing" => order[h] = "none"
  BY DEF RequestsInOrder, RequestInOrder, CommitsInOrder, CompensationComplete, Compensated,
     Ending
<1>1. body[h] = "none" /\ h \notin deadLetters
  BY StepsKeep, EndingStep
<1>2. CASE Ending(h)
  <2>1. pc[h] \in {"releasing", "done"}
    BY <1>0, <1>2 DEF Ending, RequestInOrder
  <2>2. stage[h] = "reserved"
    BY <2>1, RowsStep
  <2>3. ~HasActive(h) /\ order[h] # "PENDING_PAYMENT"
    BY <1>0, <1>1, <1>2, <2>2 DEF Compensated
  <2>4. ~HasActive(h)'
    BY <2>1, <2>3, RowsStep
  <2>5. ~PersistOrder(h) /\ ~StoreReference(h)
    BY <2>1 DEF PersistOrder, StoreReference, Goto
  <2> QED
    BY <2>3, <2>4, <2>5, OrderChanges
<1>3. CASE RejectEarly(h) \/ ReservationFailed(h) \/ CacheFails(h)
  BY <1>0, <1>1, <1>3 DEF TypeOK, RequestInOrder, RejectEarly, ReservationFailed, CacheFails, Goto,
     reservations
<1>4. CASE Compensate(h)
  <2>1. R!ReleaseReservations(h)
    BY <1>4 DEF Compensate, FailOrder
  <2>2. status \in [Groups -> [Inventories -> R!RowStatus]]
    BY DEF TypeOK, R!TypeOK
  <2>3. ~HasActive(h)'
    BY <2>1, <2>2 DEF R!ReleaseReservations, R!UpdateGroup, HasActive
  <2>4. \/ pc[h] = "failing" /\ order' = order
        \/ order'[h] = "FAILED"
    BY <1>4, UpdateTyped DEF Compensate, FailOrder, OrderStatus
  <2> QED
    BY <1>0, <2>3, <2>4
<1>5. CASE CompensationFails(h)
  BY <1>5 DEF CompensationFails
<1> QED
  BY <1>2, <1>3, <1>4, <1>5, EndingStep

LEMMA CommitsStep ==
    ASSUME TypeOK, TypeOK', RequestsInOrder, ChargesInOrder, RunsInOrder, CommitsInOrder,
           [Next]_vars
    PROVE  CommitsInOrder'
<1> SUFFICES ASSUME "ackLost" \notin Faults
             PROVE  /\ \A g \in Groups : pc'[g] = "failing" => order'[g] = "none"
                    /\ "redis" \notin Faults => CompensationComplete'
  BY DEF CommitsInOrder
<1>1. ASSUME NEW g \in Groups, pc'[g] = "failing"
      PROVE  order'[g] = "none"
  <2>1. pc[g] = "failing" \/ TaxFails(g) \/ PersistFails(g)
    BY <1>1, EndingStep
  <2>2. order[g] = "none"
    BY <2>1 DEF CommitsInOrder, RequestsInOrder, TaxFails, PersistFails, Goto, BeforeInsert
  <2>3. ~PersistOrder(g)
    BY <1>1 DEF TypeOK, PersistOrder, Goto
  <2> QED
    BY <2>2, <2>3, InsertsStep
<1>2. ASSUME "redis" \notin Faults
      PROVE  CompensationComplete'
  <2>1. \A g \in Groups : Compensated(g)'
    BY <1>2, CompensationStep
  <2> QED
    BY <2>1 DEF CompensationComplete, Compensated, Ending
<1> QED
  BY <1>1, <1>2

\* Confirmed rows keep a CONFIRMED order, or one their own request has failed.
LEMMA ConfirmedStep ==
    ASSUME TypeOK, RequestsInOrder, ChargesInOrder, RunsInOrder,
           ConfirmedRowsConfirmedOrder, [Next]_vars
    PROVE  ConfirmedRowsConfirmedOrder'
<1> SUFFICES ASSUME NEW h \in Groups, HasConfirmed(h)', order'[h] # "CONFIRMED"
             PROVE  order'[h] = "FAILED" /\ h \in compensated'
  BY DEF ConfirmedRowsConfirmedOrder
<1>0. RequestInOrder(h) /\ ChargeInOrder(h)
  BY DEF ChargesInOrder, ChargeInOrder, RequestsInOrder, RequestInOrder
<1>1. order[h] = "CONFIRMED" \/ (order[h] = "FAILED" /\ h \in compensated)
  BY RowsStep DEF ConfirmedRowsConfirmedOrder
<1>2. h \in compensated => h \in compensated'
  BY CompensatedStep
<1>3. CASE order'[h] = order[h]
  BY <1>1, <1>2, <1>3
<1>4. CASE order'[h] # order[h]
  <2>1. ~PersistOrder(h)
    BY <1>0, <1>1 DEF RequestInOrder, PersistOrder, Goto, BeforeInsert
  <2>2. ~StoreReference(h)
    BY <1>0, <1>1 DEF RequestInOrder, ChargeInOrder, StoreReference, Goto, Paying, Over
  <2>3. Compensate(h) /\ pc[h] = "failingOrder" => h \in compensated'
    BY DEF Compensate
  <2> QED
    BY <1>1, <1>4, <2>1, <2>2, <2>3, OrderChanges
<1> QED
  BY <1>3, <1>4

-----------------------------------------------------------------------------
(* The inductive invariant: the rows of an order until they lapse.         *)

\* The steps of the reservations that are no update of the order of group h.
NoUpdateOf(h) ==
    \/ \E g \in Groups : R!Create(g) \/ R!AbortReservation(g)
    \/ \E g \in Groups \ {h} : R!ConfirmReservations(g) \/ R!ReleaseReservations(g)
    \/ R!ExpireReservations
    \/ \E w \in FulfillRuns : R!Fulfill(w) \/ R!CrashFulfillment(w)
    \/ R!Tick
    \/ UNCHANGED reservations

RowsKept(h) ==
    /\ demand' = demand
    /\ now' <= expiresAt'[h] => now <= expiresAt[h]
    /\ Backed(h) => Backed(h)'
    /\ Released(h) => Released(h)'

LEMMA UpdateRows ==
    ASSUME TypeOK, NEW h \in Groups, NEW g \in Groups,
           R!ConfirmReservations(g) \/ R!ReleaseReservations(g)
    PROVE  RowsKept(h) /\ (g # h /\ StillHeld(h) => StillHeld(h)')
<1>0. status \in [Groups -> [Inventories -> R!RowStatus]]
  BY DEF TypeOK, R!TypeOK
<1>1. UNCHANGED <<demand, now, expiresAt, fulfilled>>
  BY DEF R!ConfirmReservations, R!ReleaseReservations, R!stockVars
<1>2. \/ R!UpdateGroup(g, "active", "confirmed")
      \/ R!UpdateGroup(g, "active", "released")
  BY DEF R!ConfirmReservations, R!ReleaseReservations
<1>3. /\ \A i \in Inventories :
           status[h][i] \in {"confirmed", "released"} => status'[h][i] = status[h][i]
      /\ g # h => status'[h] = status[h]
  BY <1>0, <1>2 DEF R!UpdateGroup
<1> QED
  BY <1>1, <1>3 DEF RowsKept, Backed, Released, StillHeld

\* Shipping is no loss to a confirmed order, and before they lapse only an
\* update of the order itself takes active rows from it.
LEMMA QuietRows ==
    ASSUME TypeOK, NEW h \in Groups, stage[h] = "reserved", NoUpdateOf(h)
    PROVE  RowsKept(h) /\ (now' <= expiresAt'[h] /\ StillHeld(h) => StillHeld(h)')
<1> DEFINE Kept == RowsKept(h) /\ (now' <= expiresAt'[h] /\ StillHeld(h) => StillHeld(h)')
<1>0. /\ status \in [Groups -> [Inventories -> R!RowStatus]]
      /\ stage \in [Groups -> R!Stages]
      /\ expiresAt \in [Groups -> Nat] /\ now \in Nat
      /\ fulfilled \in [Inventories -> SUBSET Groups]
  BY DEF TypeOK, R!TypeOK
<1>1. CASE UNCHANGED <<demand, now, expiresAt, status, fulfilled>>
  BY <1>1 DEF RowsKept, Backed, Released, StillHeld
<1>2. ASSUME NEW g \in Groups, R!Create(g) \/ R!AbortReservation(g)
      PROVE  Kept
  <2>1. CASE R!CreateReservations(g)
    BY <1>0, <2>1 DEF R!CreateReservations, R!stockVars, RowsKept, Backed, Released, StillHeld
  <2>2. CASE R!InsertReservation(g)
    <3>1. g # h /\ status'[h] = status[h]
      BY <1>0, <2>2 DEF R!InsertReservation
    <3>2. UNCHANGED <<demand, now, expiresAt, fulfilled>>
      BY <2>2 DEF R!InsertReservation, R!stockVars
    <3> QED
      BY <3>1, <3>2 DEF RowsKept, Backed, Released, StillHeld
  <2> QED
    BY <1>1, <1>2, <2>1, <2>2 DEF R!Create, R!BeginTransaction, R!LockForReservation,
       R!GetAvailable, R!InsufficientInventory, R!AbortReservation, R!RollBack, R!rowVars,
       R!stockVars
<1>5. CASE R!ExpireReservations
  <2>1. UNCHANGED <<demand, now, expiresAt, fulfilled>>
    BY <1>5 DEF R!ExpireReservations, R!stockVars
  <2>2. \A i \in Inventories :
          \/ status'[h][i] = status[h][i]
          \/ status[h][i] = "active" /\ expiresAt[h] < now
    BY <1>0, <1>5 DEF R!ExpireReservations, R!Expired, R!InStatus
  <2> QED
    BY <1>0, <2>1, <2>2 DEF RowsKept, Backed, Released, StillHeld
<1>6. ASSUME NEW w \in FulfillRuns, R!FulfillInventory(w)
      PROVE  Kept
  <2> SUFFICES ASSUME NEW i, i = R!Least(R!Pending(w)),
                      NEW shipped, shipped = batch[w][i] \cap R!InStatus("confirmed", i)
               PROVE  Kept
    OBVIOUS
  <2>1. UNCHANGED <<demand, now, expiresAt>>
    BY <1>6 DEF R!FulfillInventory
  <2>2. /\ status' = [q \in Groups |->
                        IF q \in shipped THEN [status[q] EXCEPT ![i] = "released"] ELSE status[q]]
        /\ fulfilled' = [fulfilled EXCEPT ![i] = @ \cup shipped]
    BY <1>6 DEF R!FulfillInventory, R!Releasable
  <2>3. h \in shipped => status[h][i] = "confirmed"
    BY DEF R!InStatus
  <2>4. \A j \in Inventories :
          /\ status'[h][j] = status[h][j] \/ (j = i /\ h \in shipped)
          /\ h \in fulfilled[j] \/ (j = i /\ h \in shipped) => h \in fulfilled'[j]
    BY <1>0, <2>2
  <2> QED
    BY <2>1, <2>3, <2>4 DEF RowsKept, Backed, Released, StillHeld
<1>7. CASE R!Tick
  BY <1>0, <1>7 DEF R!Tick, R!rowVars, R!stockVars, RowsKept, Backed, Released, StillHeld
<1>8. CASE \E w \in FulfillRuns : \/ R!StartFulfillment(w) \/ R!FinishFulfillment(w)
                                  \/ R!FulfillmentRejected(w) \/ R!CrashFulfillment(w)
  BY <1>1, <1>8 DEF R!StartFulfillment, R!FinishFulfillment, R!FulfillmentRejected,
     R!CrashFulfillment, R!StopRun, R!rowVars, R!stockVars
<1> QED
  BY <1>1, <1>2, <1>5, <1>6, <1>7, <1>8, UpdateRows DEF NoUpdateOf, R!Fulfill, reservations

LEMMA AnyStepRows ==
    ASSUME TypeOK, NEW h \in Groups, stage[h] = "reserved", [R!Next]_(R!vars)
    PROVE  RowsKept(h)
<1>1. \/ NoUpdateOf(h)
      \/ R!ConfirmReservations(h) \/ R!ReleaseReservations(h)
  BY DEF NoUpdateOf, R!Next, R!vars, reservations
<1> QED
  BY <1>1, QuietRows, UpdateRows

\* Confirming an order all of whose rows are held, or were confirmed before.
LEMMA ConfirmBacks ==
    ASSUME TypeOK, NEW h \in Groups, ConfirmOrder(h), StillHeld(h) \/ Backed(h)
    PROVE  Backed(h)'
<1>1. status \in [Groups -> [Inventories -> R!RowStatus]]
  BY DEF TypeOK, R!TypeOK
<1> QED
  BY <1>1 DEF ConfirmOrder, R!ConfirmReservations, R!UpdateGroup, R!stockVars, Backed,
     StillHeld

\* Releasing an order all of whose rows are held.
LEMMA ReleaseReleases ==
    ASSUME TypeOK, NEW h \in Groups, FailOrder(h), StillHeld(h)
    PROVE  Released(h)'
<1>1. status \in [Groups -> [Inventories -> R!RowStatus]]
  BY DEF TypeOK, R!TypeOK
<1> QED
  BY <1>1 DEF FailOrder, R!ReleaseReservations, R!UpdateGroup, R!stockVars, Released, StillHeld

\* When the last item of its loop is inserted, a request holds all of them.
LEMMA LastInsertHoldsAll ==
    ASSUME TypeOK, RunsInOrder, RP!ControlInv, RP!WholeUntilExpiry, [Next]_vars,
           NEW h \in Groups,
           stage[h] # "reserved", stage'[h] = "reserved", now' <= expiresAt'[h]
    PROVE  pc[h] = "reserving" /\ pc'[h] = "reserving" /\ StillHeld(h)'
<1>0. /\ status \in [Groups -> [Inventories -> R!RowStatus]]
      /\ stage \in [Groups -> R!Stages]
      /\ todo \in [Groups -> SUBSET Inventories]
  BY DEF TypeOK, R!TypeOK
<1>1. ASSUME NEW g \in Groups, ReserveAndPersist(g)
      PROVE  Reserve(h) /\ R!InsertReservation(h)
  <2>1. CASE Reserve(g)
    BY <1>0, <2>1 DEF Reserve, R!BeginTransaction, R!LockForReservation, R!GetAvailable,
       R!InsertReservation, R!InsufficientInventory, R!AbortReservation, R!RollBack
  <2>2. CASE StartReserving(g)
    BY <1>0, <2>2 DEF StartReserving, R!CreateReservations
  <2>3. CASE ~Reserve(g) /\ ~StartReserving(g)
    BY <1>1, <2>3 DEF ReserveAndPersist, RejectEarly, ReservationFailed, CalculateTax,
       TaxFails, PersistOrder, PersistFails, reservations
  <2> QED
    BY <2>1, <2>2, <2>3
<1>2. ASSUME NEW g \in Groups, Crash(g)
      PROVE  FALSE
  BY <1>0, <1>2 DEF Crash, R!AbortReservation, R!RollBack, reservations
<1>3. ~UNCHANGED vars
  BY DEF vars, reservations
<1>4. Reserve(h) /\ R!InsertReservation(h)
  BY <1>1, <1>2, <1>3, StageUnchanged DEF Next, Request
<1>5. pc[h] = "reserving" /\ pc'[h] = "reserving"
  BY <1>4 DEF Reserve, requestVars
<1>6. StillHeld(h)'
  <2>1. PICK i \in Inventories : i = R!Least(todo[h]) /\ todo[h] = {i}
    BY <1>0, <1>4 DEF R!InsertReservation
  <2>2. /\ stage[h] = "checked" /\ UNCHANGED <<demand, now, expiresAt>>
        /\ status'[h] = [status[h] EXCEPT ![i] = "active"]
    BY <1>0, <1>4, <2>1 DEF R!InsertReservation
  <2>3. \A j \in Inventories : demand[h][j] > 0 => j \in todo[h] \/ status[h][j] = "active"
    BY <2>2 DEF RP!WholeUntilExpiry
  <2> QED
    BY <1>0, <2>1, <2>2, <2>3 DEF StillHeld
<1> QED
  BY <1>5, <1>6

Early == BeforeInsert \cup Paying

\* One step of a request or a job, as seen by an order whose rows have not
\* lapsed: it keeps the rows and brings the order no nearer to needing them, or
\* it decides the order.
OrderKept(h) ==
    /\ StillHeld(h) => StillHeld(h)'
    /\ pc'[h] \in Early => pc[h] \in Early
    /\ reference'[h] /\ payment'[h] # "failed" =>
         (reference[h] /\ payment[h] # "failed") \/ pc[h] \in Early
    /\ order'[h] = "CONFIRMED" => order[h] = "CONFIRMED"

AnswerApplied(h) ==
    /\ reference[h] /\ UNCHANGED <<pc, payment>>
    /\ \/ payment[h] = "succeeded" /\ ConfirmOrder(h)
       \/ payment[h] = "failed" /\ FailOrder(h)

LEMMA OrderDecided ==
    ASSUME TypeOK, RequestsInOrder, ChargesInOrder, RunsInOrder, [Next]_vars,
           NEW h \in Groups, stage[h] = "reserved", now' <= expiresAt'[h]
    PROVE  OrderKept(h) \/ ApplySucceeded(h) \/ Compensate(h) \/ AnswerApplied(h)
<1> DEFINE Decided == OrderKept(h) \/ ApplySucceeded(h) \/ Compensate(h) \/ AnswerApplied(h)
<1>0. ChargeInOrder(h) /\ RequestInOrder(h)
  BY DEF ChargesInOrder, ChargeInOrder, RequestsInOrder, RequestInOrder
<1>1. ASSUME NEW g \in Groups, Controller(g)
      PROVE  Decided
  <2>1. UNCHANGED reservations /\ UNCHANGED <<order, reference, payment>>
    BY <1>1 DEF Controller, ClaimKey, AnswerDuplicate, CacheResponse, CacheFails, ReleaseKey,
       orderVars, gatewayVars
  <2>2. pc'[h] \in {pc[h], "claimed", "duplicate", "done", "releasing"}
        /\ (pc'[h] \in {"claimed", "duplicate"} => pc[h] \in Early)
    BY <1>1 DEF TypeOK, Controller, ClaimKey, AnswerDuplicate, CacheResponse, CacheFails,
       ReleaseKey, Goto, Early, BeforeInsert
  <2>3. StillHeld(h) => StillHeld(h)'
    BY <2>1, QuietRows DEF NoUpdateOf
  <2> QED
    BY <2>1, <2>2, <2>3 DEF OrderKept, Early, BeforeInsert, Paying
<1>2. ASSUME NEW g \in Groups, ReserveAndPersist(g)
      PROVE  Decided
  <2>1. NoUpdateOf(h)
    BY <1>2 DEF ReserveAndPersist, RejectEarly, StartReserving, Reserve, ReservationFailed,
       CalculateTax, TaxFails, PersistOrder, PersistFails, NoUpdateOf, R!Create
  <2>2. UNCHANGED <<reference, payment>> /\ (order'[h] = "CONFIRMED" => order[h] = "CONFIRMED")
    BY <1>2 DEF TypeOK, ReserveAndPersist, RejectEarly, StartReserving, Reserve,
       ReservationFailed, CalculateTax, TaxFails, PersistOrder, PersistFails, orderVars,
       gatewayVars
  <2>3. pc'[h] = pc[h] \/ (pc[h] \in BeforeInsert /\ pc'[h] # "failingOrder")
    BY <1>2 DEF TypeOK, ReserveAndPersist, RejectEarly, StartReserving, Reserve,
       ReservationFailed, CalculateTax, TaxFails, PersistOrder, PersistFails, Goto,
       BeforeInsert, requestVars
  <2> QED
    BY <2>1, <2>2, <2>3, QuietRows DEF OrderKept, Early
<1>3. ASSUME NEW g \in Groups, Pay(g)
      PROVE  Decided
  <2>1. CASE \/ Charge(g) \/ ChargeThrows(g) \/ PaymentCircuitOpen(g) \/ GetStatus(g)
             \/ StoreReference(g) \/ ReadOrder(g) \/ ApplyFails(g) \/ CompensationFails(g)
    <3>1. NoUpdateOf(h)
      BY <2>1 DEF Charge, ChargeThrows, PaymentCircuitOpen, GetStatus, StoreReference,
         ReadOrder, ApplyFails, CompensationFails, NoUpdateOf
    <3>2. \/ pc'[h] = pc[h] \/ pc[h] \in Paying
          \/ pc'[h] \in {"placed", "failingOrder", "releasing"}
      BY <2>1 DEF TypeOK, Charge, ChargeThrows, PaymentCircuitOpen, GetStatus,
         StoreReference, ReadOrder, ApplyFails, CompensationFails, Goto, Paying
    <3>3. order'[h] = "CONFIRMED" => order[h] = "CONFIRMED"
      BY <2>1, OrderSteps DEF Charge, ChargeThrows, PaymentCircuitOpen, GetStatus, ReadOrder,
         ApplyFails, CompensationFails, orderVars
    <3>4. CASE pc[h] \in Paying
      BY <3>1, <3>3, <3>4, QuietRows DEF OrderKept, Early
    <3>5. CASE pc[h] \notin Paying
      <4>1. pc'[h] = pc[h] \/ pc'[h] \in {"placed", "failingOrder", "releasing"}
        BY <3>2, <3>5
      <4>2. payment'[h] = payment[h] /\ (reference'[h] => reference[h])
        <5>1. CASE h = g
          BY <2>1, <3>5, <5>1 DEF Charge, ChargeThrows, PaymentCircuitOpen, GetStatus,
             StoreReference, ReadOrder, ApplyFails, CompensationFails, Goto, Paying, orderVars,
             gatewayVars
        <5>2. CASE h # g
          BY <2>1, <5>2, OrderSteps DEF TypeOK, Charge, ChargeThrows, PaymentCircuitOpen,
             GetStatus, StoreReference, ReadOrder, ApplyFails, CompensationFails, orderVars,
             gatewayVars
        <5> QED
          BY <5>1, <5>2
      <4> QED
        BY <3>1, <3>3, <4>1, <4>2, QuietRows DEF OrderKept, Early, BeforeInsert, Paying
    <3> QED
      BY <3>4, <3>5
  <2>2. CASE h # g /\ (ApplySucceeded(g) \/ Compensate(g))
    <3>1. NoUpdateOf(h)
      BY <2>2 DEF ApplySucceeded, ConfirmOrder, Compensate, FailOrder, NoUpdateOf
    <3>2. order'[h] = order[h] /\ (reference'[h] <=> reference[h])
      BY <2>2, OrderSteps
    <3>3. pc'[h] = pc[h] /\ payment'[h] = payment[h]
      BY <2>2 DEF TypeOK, ApplySucceeded, Compensate, Goto, gatewayVars
    <3> QED
      BY <3>1, <3>2, <3>3, QuietRows DEF OrderKept
  <2> QED
    BY <1>3, <2>1, <2>2 DEF Pay
<1>4. ASSUME NEW j \in ReconcileRuns, Reconcile(j)
      PROVE  Decided
  <2>1. CASE ApplyAnswer(j)
    <3>1. PICK g \in Groups :
            /\ reference[g]
            /\ \/ payment[g] = "succeeded" /\ ConfirmOrder(g)
               \/ payment[g] = "failed" /\ FailOrder(g)
      BY <2>1, AnswerFacts
    <3>2. UNCHANGED <<pc, payment>>
      BY <2>1 DEF ApplyAnswer, requestVars, gatewayVars
    <3>3. CASE g = h
      BY <3>1, <3>2, <3>3 DEF AnswerApplied
    <3>4. CASE g # h
      <4>1. NoUpdateOf(h)
        BY <3>1, <3>4 DEF ConfirmOrder, FailOrder, NoUpdateOf
      <4>2. order'[h] = order[h] /\ reference'[h] = reference[h]
        BY <3>1, <3>4, UpdateTyped DEF ConfirmOrder, FailOrder, OrderStatus
      <4> QED
        BY <3>2, <4>1, <4>2, QuietRows DEF OrderKept
    <3> QED
      BY <3>3, <3>4
  <2>2. CASE ~ApplyAnswer(j)
    <3>1. UNCHANGED reservations /\ UNCHANGED <<pc, order, reference, payment>>
      BY <1>4, <2>2 DEF Reconcile, StartReconcile, ApplyAnswerFails, PollPayment, SkipOrder,
         requestVars, orderVars, gatewayVars
    <3> QED
      BY <3>1, QuietRows DEF OrderKept, NoUpdateOf
  <2> QED
    BY <2>1, <2>2
<1>5. ASSUME NEW g \in Groups, Crash(g) \/ SettlePayment(g)
      PROVE  Decided
  <2>1. NoUpdateOf(h)
    BY <1>5 DEF Crash, SettlePayment, NoUpdateOf
  <2>2. /\ pc'[h] = pc[h] \/ pc'[h] = "crashed"
        /\ UNCHANGED <<order, reference>>
        /\ payment[h] = "failed" => payment'[h] = "failed"
    BY <1>5 DEF TypeOK, Crash, SettlePayment, Goto, requestVars, orderVars, gatewayVars
  <2> QED
    BY <2>1, <2>2, QuietRows DEF OrderKept, Early, BeforeInsert, Paying
<1>6. ASSUME \/ \E k \in Keys : KeyExpires(k)
             \/ ExpireReservations \/ Tick
             \/ \E w \in FulfillRuns : FulfillReservations(w)
             \/ UNCHANGED vars
      PROVE  Decided
  <2>1. NoUpdateOf(h)
    BY <1>6 DEF KeyExpires, ExpireReservations, Tick, FulfillReservations, vars, NoUpdateOf
  <2>2. /\ UNCHANGED <<pc, reference, payment>>
        /\ order'[h] = "CONFIRMED" => order[h] = "CONFIRMED"
    BY <1>6 DEF TypeOK, KeyExpires, ExpireReservations, FailPending, Tick,
       FulfillReservations, vars, requestVars, orderVars, gatewayVars
  <2> QED
    BY <2>1, <2>2, QuietRows DEF OrderKept
<1> QED
  BY <1>1, <1>2, <1>3, <1>4, <1>5, <1>6 DEF Next, Request

RowsOf(h) ==
    /\ pc[h] \in Early => StillHeld(h)
    /\ reference[h] /\ payment[h] # "failed" =>
         Backed(h) \/ (IF h \in compensated THEN Released(h) ELSE StillHeld(h))
    /\ order[h] = "CONFIRMED" => Backed(h) \/ (h \in compensated /\ Released(h))

LEMMA RowsInTimeStep ==
    ASSUME TypeOK, TypeOK', RequestsInOrder, RequestsInOrder', ChargesInOrder, RunsInOrder,
           RowsInTime, RP!ControlInv, RP!WholeUntilExpiry, [Next]_vars
    PROVE  RowsInTime'
<1> SUFFICES ASSUME NEW h \in Groups, stage'[h] = "reserved", now' <= expiresAt'[h]
             PROVE  RowsOf(h)'
  BY DEF RowsInTime, RowsOf, Early
<1>1. CASE stage[h] # "reserved"
  <2>1. pc'[h] = "reserving" /\ StillHeld(h)'
    BY <1>1, LastInsertHoldsAll
  <2>2. order'[h] = "none" /\ ~reference'[h]
    BY <2>1 DEF RequestsInOrder, BeforeInsert
  <2> QED
    BY <2>1, <2>2 DEF RowsOf
<1>2. CASE stage[h] = "reserved"
  <2>0. RequestInOrder(h) /\ ChargeInOrder(h)
    BY DEF ChargesInOrder, ChargeInOrder, RequestsInOrder, RequestInOrder
  <2>1. [R!Next]_(R!vars)
    BY StepImplements DEF TypeOK
  <2>2. RowsKept(h)
    BY <1>2, <2>1, AnyStepRows
  <2>3. RowsOf(h)
    BY <1>2, <2>2 DEF RowsKept, RowsInTime, RowsOf, Early
  <2>4. pc[h] \in Early \cup {"failing", "failingOrder"} => h \notin compensated
    BY <2>0 DEF RequestInOrder, Early, BeforeInsert, Paying, Over
  <2>5. CASE Compensate(h)
    <3>1. /\ pc'[h] = "releasing" /\ payment'[h] = payment[h]
          /\ \/ pc[h] = "failing"
             \/ pc[h] = "failingOrder" /\ FailOrder(h) /\ h \in compensated'
      BY <2>5 DEF TypeOK, Compensate, Goto, gatewayVars
    <3>2. /\ reference'[h] <=> reference[h]
          /\ order'[h] = order[h] \/ (pc[h] = "failingOrder" /\ order'[h] = "FAILED")
      BY <2>5, OrderSteps
    <3>3. CASE pc[h] = "failing"
      <4>1. ~reference[h] /\ order[h] # "CONFIRMED"
        BY <2>0, <3>3 DEF RequestInOrder, ChargeInOrder
      <4> QED
        BY <3>1, <3>2, <3>3, <4>1 DEF RowsOf, Early, BeforeInsert, Paying
    <3>4. CASE pc[h] = "failingOrder" /\ FailOrder(h) /\ h \in compensated'
      <4>1. order'[h] = "FAILED"
        BY <3>4, UpdateTyped DEF FailOrder, OrderStatus
      <4>2. reference[h] /\ payment[h] # "failed" => Backed(h) \/ StillHeld(h)
        BY <2>3, <2>4, <3>4 DEF RowsOf
      <4>3. reference[h] /\ payment[h] # "failed" => Backed(h)' \/ Released(h)'
        BY <2>2, <3>4, <4>2, ReleaseReleases DEF RowsKept
      <4> QED
        BY <3>1, <3>2, <3>4, <4>1, <4>3 DEF RowsOf, Early, BeforeInsert, Paying
    <3> QED
      BY <3>1, <3>3, <3>4
  <2>6. CASE ~Compensate(h)
    <3>1. h \in compensated' <=> h \in compensated
      BY <2>6, CompensatedStep
    <3>2. CASE OrderKept(h)
      BY <2>2, <2>3, <2>4, <3>1, <3>2 DEF OrderKept, RowsKept, RowsOf
    <3>3. CASE ApplySucceeded(h)
      <4>1. pc[h] \in Early /\ pc'[h] \notin Early
        BY <3>3 DEF TypeOK, ApplySucceeded, Goto, Early, Paying, BeforeInsert
      <4>2. Backed(h)'
        BY <2>3, <3>3, <4>1, ConfirmBacks DEF ApplySucceeded, RowsOf
      <4> QED
        BY <4>1, <4>2 DEF RowsOf
    <3>4. CASE AnswerApplied(h)
      <4>1. pc'[h] = pc[h] /\ pc[h] \notin Early
        BY <2>0, <3>4 DEF AnswerApplied, RequestInOrder, Early
      <4>2. CASE payment[h] = "succeeded" /\ ConfirmOrder(h)
        <5>1. Backed(h) \/ (IF h \in compensated THEN Released(h) ELSE StillHeld(h))
          BY <2>3, <3>4, <4>2 DEF AnswerApplied, RowsOf
        <5>2. Backed(h)' \/ (h \in compensated' /\ Released(h)')
          BY <2>2, <3>1, <4>2, <5>1, ConfirmBacks DEF RowsKept
        <5> QED
          BY <3>1, <4>1, <5>2 DEF RowsOf
      <4>3. CASE payment[h] = "failed" /\ FailOrder(h)
        <5>1. order'[h] = "FAILED" /\ payment'[h] = "failed"
          BY <3>4, <4>3, UpdateTyped DEF AnswerApplied, FailOrder, OrderStatus
        <5> QED
          BY <4>1, <5>1 DEF RowsOf
      <4> QED
        BY <3>4, <4>2, <4>3 DEF AnswerApplied
    <3> QED
      BY <1>2, <2>6, <3>2, <3>3, <3>4, OrderDecided
  <2> QED
    BY <2>5, <2>6
<1> QED
  BY <1>1, <1>2

-----------------------------------------------------------------------------
(* The theorems.                                                           *)

LEMMA OrderInit == ASSUME Init, R!TypeOK PROVE OrderInv
<1>1. TypeOK
  BY TypesInit
<1>2. RequestsInOrder
  BY DEF Init, R!Init, RequestsInOrder, BeforeInsert, AfterInsert, Paying
<1>3. ChargesInOrder /\ RunsInOrder
  BY RequestAssumption DEF Init, ChargesInOrder, RunsInOrder
<1>4. KeysInOrder
  BY GroupAssumption DEF Init, KeysInOrder
<1>5. ConfirmedRowsConfirmedOrder /\ CommitsInOrder
  BY DEF Init, R!Init, ConfirmedRowsConfirmedOrder, HasConfirmed, CommitsInOrder,
     CompensationComplete
<1>6. RowsInTime
  BY DEF Init, R!Init, RowsInTime
<1> QED
  BY <1>1, <1>2, <1>3, <1>4, <1>5, <1>6 DEF OrderInv

\* What the inductive invariant takes from that of Reservations.
ReservationFacts == RP!ControlInv /\ RP!RowsDemanded /\ RP!WholeUntilExpiry

LEMMA ReservationTypes == RP!ControlInv => R!TypeOK
  BY DEF RP!ControlInv, RP!TypeOK, R!TypeOK, RP!Stages, R!Stages, RP!RowStatus, R!RowStatus

LEMMA OrderStep ==
    ASSUME OrderInv, ReservationFacts, RP!ControlInv', [Next]_vars
    PROVE  OrderInv'
<1>1. R!TypeOK'
  BY DEF RP!ControlInv, RP!TypeOK, R!TypeOK, RP!Stages, R!Stages,
     RP!RowStatus, R!RowStatus
<1>2. TypeOK'
  BY <1>1, TypesStep DEF OrderInv
<1>3. RequestsInOrder' /\ ChargesInOrder' /\ KeysInOrder' /\ RunsInOrder'
  BY <1>2, RequestsStep, ChargesStep, KeysStep, RunsStep DEF OrderInv
<1>4. ConfirmedRowsConfirmedOrder' /\ CommitsInOrder'
  BY <1>2, <1>3, ConfirmedStep, CommitsStep DEF OrderInv
<1>5. RowsInTime'
  BY <1>2, <1>3, RowsInTimeStep DEF OrderInv, ReservationFacts
<1> QED
  BY <1>2, <1>3, <1>4, <1>5 DEF OrderInv

\* The inductive invariant of requests, orders, charges, keys and runs.
THEOREM OrderInvariant == Spec => []OrderInv
<1>1. Init /\ R!TypeOK => OrderInv
  BY OrderInit
<1>2. OrderInv /\ ReservationFacts /\ ReservationFacts' /\ [Next]_vars => OrderInv'
  BY OrderStep DEF ReservationFacts
<1>3. Spec => []ReservationFacts
  <2>1. Spec => RP!Spec
    BY PlaceOrderImplementsReservations, SameSpec DEF ImplementsReservations
  <2>2. /\ RP!Spec => []RP!ReservationInv
        /\ RP!Spec => []RP!RowsDemanded
        /\ RP!Spec => []RP!WholeUntilExpiry
    BY FiniteAssumption, QuantityAssumption, BoundAssumption, GroupAssumption,
       RP!ReservationInvariant, RP!RowsDemandedInvariant, RP!GroupsWholeUntilExpiry
       DEF IsFiniteSet, RP!IsFiniteSet
  <2>3. RP!ReservationInv => RP!ControlInv
    BY DEF RP!ReservationInv, RP!ControlInv
  <2> QED
    BY <2>1, <2>2, <2>3, PTL DEF ReservationFacts
<1>4. ReservationFacts => R!TypeOK
  BY ReservationTypes DEF ReservationFacts
<1> QED
  BY <1>1, <1>2, <1>3, <1>4, PTL DEF Spec

\* Every column, key and variable of a run keeps its type; in particular
\* withRetry never makes more charges than it may.
THEOREM PlaceOrderTypeCorrect == Spec => []TypeOK
<1>1. OrderInv => TypeOK
  BY DEF OrderInv
<1> QED
  BY <1>1, OrderInvariant, PTL

\* Whatever fails, an order is CONFIRMED only on a charge that succeeded.
THEOREM ConfirmedOrderIsPaid == Spec => []ConfirmedIsPaid
<1>1. OrderInv => ConfirmedIsPaid
  BY DEF OrderInv, ChargesInOrder, ConfirmedIsPaid
<1> QED
  BY <1>1, OrderInvariant, PTL

\* Whatever fails, of all requests with one key at most one reaches the gateway.
THEOREM OneRequestPerKeyIsCharged == Spec => []ChargedOncePerKey
<1>1. OrderInv => ChargedOncePerKey
  BY DEF OrderInv, ChargesInOrder, KeysInOrder, ChargedOncePerKey
<1> QED
  BY <1>1, OrderInvariant, PTL

\* Whatever fails, what clients are told of an order of theirs is so.
THEOREM WhatIsToldIsSo == Spec => []ToldConfirmedIsConfirmed
<1>1. ASSUME OrderInv, NEW g \in Groups, outcome[g] \in Groups
      PROVE  LET h == outcome[g] IN
               /\ KeyOf[h] = KeyOf[g]
               /\ order[h] # "none"
               /\ body[h] = "CONFIRMED" => order[h] = "CONFIRMED"
  BY <1>1 DEF OrderInv, KeysInOrder, RequestsInOrder, ChargesInOrder
<1>2. OrderInv => ToldConfirmedIsConfirmed
  BY <1>1 DEF ToldConfirmedIsConfirmed
<1> QED
  BY <1>2, OrderInvariant, PTL

\* Whatever fails, an order that is CONFIRMED before its rows lapse has all of
\* its items, or none: none only when its own compensation released them after a
\* reconcile run had polled its charge and before that run applied the answer.
THEOREM ConfirmedInTimeHasItsStock == Spec => []ConfirmedInTimeIsBacked
<1>1. OrderInv => ConfirmedInTimeIsBacked
  BY DEF OrderInv, RequestsInOrder, RowsInTime, ConfirmedInTimeIsBacked
<1> QED
  BY <1>1, OrderInvariant, PTL

\* Whatever fails, confirmed rows have a CONFIRMED order, never a pending one, or
\* one that its own request failed after they were confirmed.
THEOREM ConfirmedRowsHaveConfirmedOrder == Spec => []ConfirmedRowsConfirmedOrder
<1>1. OrderInv => ConfirmedRowsConfirmedOrder
  BY DEF OrderInv
<1> QED
  BY <1>1, OrderInvariant, PTL

\* Whatever fails, no job, and nothing once placeOrder has returned, takes a
\* CONFIRMED order back: only the compensation of its own request does.
THEOREM OnlyCompensationUnconfirms == Spec => OnlyOwnRequestUnconfirms
<1>1. ASSUME OrderInv, [Next]_vars, NEW g \in Groups,
             order[g] = "CONFIRMED", order'[g] # "CONFIRMED"
      PROVE  pc[g] = "failingOrder" /\ body[g] = "none" /\ pc'[g] = "releasing"
  <2>1. RequestInOrder(g) /\ ChargeInOrder(g)
    BY <1>1 DEF OrderInv, ChargesInOrder, ChargeInOrder, RequestsInOrder, RequestInOrder
  <2>2. ~PersistOrder(g)
    BY <1>1, <2>1 DEF RequestInOrder, PersistOrder, Goto, BeforeInsert
  <2>3. ~StoreReference(g)
    BY <1>1, <2>1 DEF RequestInOrder, ChargeInOrder, StoreReference, Goto, Paying
  <2>4. Compensate(g) /\ pc[g] = "failingOrder"
    BY <1>1, <2>2, <2>3, OrderChanges DEF OrderInv
  <2>5. pc'[g] = "releasing"
    BY <1>1, <2>4 DEF OrderInv, TypeOK, Compensate, Goto
  <2> QED
    BY <2>1, <2>4, <2>5 DEF RequestInOrder, Over
<1>2. OrderInv /\ [Next]_vars
        => [\A g \in Groups :
              order[g] = "CONFIRMED" /\ order'[g] # "CONFIRMED"
                => pc[g] = "failingOrder" /\ body[g] = "none" /\ pc'[g] = "releasing"]_vars
  BY <1>1
<1> QED
  BY <1>2, OrderInvariant, PTL DEF Spec, OnlyOwnRequestUnconfirms

\* Where commits are acknowledged and the dead-letter queue can be written, the
\* compensation leaves no stock held and no order open that the queue does not name.
THEOREM NothingIsLeftUncompensated ==
    ASSUME "ackLost" \notin Faults, "redis" \notin Faults
    PROVE  Spec => []CompensationComplete
<1>1. OrderInv => CompensationComplete
  BY DEF OrderInv, CommitsInOrder
<1> QED
  BY <1>1, OrderInvariant, PTL

\* Under the same conditions only a crash loses an order.
THEOREM OnlyCrashesLoseOrders ==
    ASSUME "ackLost" \notin Faults, "redis" \notin Faults
    PROVE  Spec => []LostOnlyByCrash
<1>1. ASSUME OrderInv, NEW g \in Groups, Lost(g)
      PROVE  pc[g] = "crashed"
  <2>1. order[g] = "PENDING_PAYMENT" /\ pc[g] \in Over /\ ~reference[g]
        /\ g \notin deadLetters
    BY <1>1 DEF Lost
  <2>2. body[g] = "none" /\ stage[g] = "reserved"
    BY <1>1, <2>1 DEF OrderInv, RequestsInOrder
  <2>3. outcome[g] # "error"
    BY <1>1, <2>1, <2>2 DEF OrderInv, CommitsInOrder, CompensationComplete
  <2> QED
    BY <1>1, <2>1, <2>2, <2>3 DEF OrderInv, RequestsInOrder, Over
<1>2. OrderInv => LostOnlyByCrash
  BY <1>1 DEF LostOnlyByCrash
<1> QED
  BY <1>2, OrderInvariant, PTL
=============================================================================
