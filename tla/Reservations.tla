---------------------------- MODULE Reservations ----------------------------
(***************************************************************************)
(* The inventory reservations of the order service: the tables inventories *)
(* and inventory_reservations, the transactions ReservationService runs on *)
(* them for an order, and the two jobs that work on them in the background *)
(* (expireReservations every minute, fulfillReservations every night).     *)
(*                                                                         *)
(* A reservation group is the set of rows of one order, at most one per    *)
(* inventory; g names the group, <<g, i>> one row.  An inventory stands    *)
(* for a (warehouse, product) pair and its number orders it both as        *)
(* product_id and as inventory_id.  A database transaction is one atomic   *)
(* action, because every statement in it re-evaluates its WHERE under the  *)
(* row locks, except the one that creates a reservation: its BEGIN, its    *)
(* advisory lock, its availability check and its insert are steps of their *)
(* own.  Process clocks and the clock of the database are the one `now`.   *)
(***************************************************************************)
EXTENDS Integers, FiniteSets

CONSTANTS
    Groups,             \* reservation groups, one per order placed
    Inventories,        \* inventory ids, ascending as the product ids
    InitialQuantity,    \* inventories.quantity at the start
    MaxQuantity,        \* the largest quantity of an item
    Demands,            \* what an order may ask for: quantity per inventory
    ReservationExpiry,  \* RESERVATION_EXPIRY_MINUTES, in ticks
    Horizon,            \* bound: the last instant of the clock
    FulfillRuns,        \* runs of fulfillReservations that may overlap
    BatchSize,          \* BATCH_SIZE of fulfillReservations
    NoGroup             \* an advisory lock nobody holds

ASSUME FiniteAssumption ==
    /\ IsFiniteSet(Groups)
    /\ IsFiniteSet(Inventories)
    /\ Inventories \subseteq Nat
ASSUME QuantityAssumption ==
    /\ MaxQuantity \in Nat \ {0}
    /\ InitialQuantity \in [Inventories -> Nat]
    /\ Demands \subseteq [Inventories -> 0 .. MaxQuantity]
    /\ \A d \in Demands : \E i \in Inventories : d[i] > 0
ASSUME BoundAssumption ==
    /\ ReservationExpiry \in Nat \ {0}
    /\ Horizon \in Nat
    /\ BatchSize \in Nat \ {0}
ASSUME NoGroupAssumption == NoGroup \notin Groups

VARIABLES
    quantity,    \* inventories.quantity
    demand,      \* the items of the order, fixed by its request
    status,      \* inventory_reservations.status, "none" before the insert
    expiresAt,   \* expires_at, the same for every row of a group
    now,         \* the clock
    stage,       \* where createReservations stands for the group
    todo,        \* the items its loop still has to reserve
    txNow,       \* NOW() of the group's current transaction
    lockedBy,    \* pg_advisory_xact_lock
    available,   \* what the group's availability check returned
    running,     \* the overlapping runs of fulfillReservations at work
    batch,       \* what each run read and has not worked through
    late,        \* history: rows confirmed when they had already lapsed
    fulfilled,   \* history: rows whose units left the stock
    excess       \* history: units taken off for rows already released

rowVars == <<status, expiresAt>>
stockVars == <<quantity, fulfilled, excess>>
txVars == <<todo, txNow, lockedBy, available>>
runVars == <<running, batch>>
vars == <<quantity, demand, status, expiresAt, now, stage, todo, txNow,
          lockedBy, available, running, batch, late, fulfilled, excess>>

Stages == {"idle", "next", "begun", "locked", "checked", "reserved", "rejected"}
RowStatus == {"none", "active", "confirmed", "released"}

-----------------------------------------------------------------------------
(* SUM(quantity) over rows of one inventory: a row of quantity n is its n  *)
(* units, and the sum is how many units there are.                         *)

Units(S, i) ==
    {u \in Groups \X (1 .. MaxQuantity) : u[1] \in S /\ u[2] <= demand[u[1]][i]}
SumQuantity(S, i) == Cardinality(Units(S, i))

InStatus(s, i) == {g \in Groups : status[g][i] = s}

\* Active rows that have not lapsed at time t.
Unexpired(i, t) == {g \in InStatus("active", i) : expiresAt[g] > t}

\* The rows the availability query counts against inventory i at time t.
Held(i, t) == InStatus("confirmed", i) \cup Unexpired(i, t)

\* Mutants of Expired: an off-by-one, and a job that only knows whole groups.
ExpiredTooEarly(i) == {g \in InStatus("active", i) : expiresAt[g] <= now}
ExpiredWholeGroups(i) ==
    {g \in InStatus("active", i) : expiresAt[g] < now /\ stage[g] = "reserved"}

\* releaseExpiredActive: active rows whose expires_at is before NOW().
Expired(i) == {g \in InStatus("active", i) : expiresAt[g] < now}

Least(I) == CHOOSE i \in I : \A j \in I : i <= j

-----------------------------------------------------------------------------
Init ==
    /\ quantity = InitialQuantity
    /\ demand \in [Groups -> Demands]
    /\ status = [g \in Groups |-> [i \in Inventories |-> "none"]]
    /\ expiresAt = [g \in Groups |-> 0]
    /\ now = 0
    /\ stage = [g \in Groups |-> "idle"]
    /\ todo = [g \in Groups |-> {}]
    /\ txNow = [g \in Groups |-> 0]
    /\ lockedBy = [i \in Inventories |-> NoGroup]
    /\ available = [g \in Groups |-> 0]
    /\ running = {}
    /\ batch = [w \in FulfillRuns |-> [i \in Inventories |-> {}]]
    /\ late = [i \in Inventories |-> {}]
    /\ fulfilled = [i \in Inventories |-> {}]
    /\ excess = [i \in Inventories |-> 0]

-----------------------------------------------------------------------------
(* ReservationService.createReservations.                                  *)

\* expiresAt is computed once, before the loop over the sorted items.  The
\* bound on the clock leaves room for the reservations to expire.
CreateReservations(g) ==
    /\ stage[g] = "idle"
    /\ now + ReservationExpiry < Horizon
    /\ expiresAt' = [expiresAt EXCEPT ![g] = now + ReservationExpiry]
    /\ todo' = [todo EXCEPT ![g] = {i \in Inventories : demand[g][i] > 0}]
    /\ stage' = [stage EXCEPT ![g] = "next"]
    /\ UNCHANGED <<demand, status, now, txNow, lockedBy, available, late,
                   stockVars, runVars>>

BeginTransaction(g) ==
    /\ stage[g] = "next"
    /\ txNow' = [txNow EXCEPT ![g] = now]
    /\ stage' = [stage EXCEPT ![g] = "begun"]
    /\ UNCHANGED <<demand, now, todo, lockedBy, available, late,
                   rowVars, stockVars, runVars>>

\* Mutant of AcquireLock: pg_try_advisory_xact_lock, its answer ignored.
AcquireLockWithoutWaiting(i, g) == lockedBy' = [lockedBy EXCEPT ![i] = g]

\* pg_advisory_xact_lock: waits until nobody holds the lock.
AcquireLock(i, g) ==
    /\ lockedBy[i] = NoGroup
    /\ lockedBy' = [lockedBy EXCEPT ![i] = g]

LockForReservation(g) ==
    LET i == Least(todo[g])
    IN  /\ stage[g] = "begun"
        /\ AcquireLock(i, g)
        /\ stage' = [stage EXCEPT ![g] = "locked"]
        /\ UNCHANGED <<demand, now, todo, txNow, available, late,
                       rowVars, stockVars, runVars>>

\* Mutant of Available: the query forgets the confirmed rows.
AvailableOfActive(i, t) ==
    quantity[i] - SumQuantity(Unexpired(i, t), i)

\* The available column of getAvailable, computed at time t.
Available(i, t) == quantity[i] - SumQuantity(Held(i, t), i)

\* NOW() in the query is the start of the transaction, before the lock.
GetAvailable(g) ==
    LET i == Least(todo[g])
    IN  /\ stage[g] = "locked"
        /\ available' = [available EXCEPT ![g] = Available(i, txNow[g])]
        /\ stage' = [stage EXCEPT ![g] = "checked"]
        /\ UNCHANGED <<demand, now, todo, txNow, lockedBy, late,
                       rowVars, stockVars, runVars>>

\* The insert and the commit, which frees the lock; after the last item
\* createReservations returns.
InsertReservation(g) ==
    LET i == Least(todo[g])
    IN  /\ stage[g] = "checked"
        /\ demand[g][i] <= available[g]
        /\ status' = [status EXCEPT ![g][i] = "active"]
        /\ lockedBy' = [lockedBy EXCEPT ![i] = NoGroup]
        /\ todo' = [todo EXCEPT ![g] = @ \ {i}]
        /\ stage' = [stage EXCEPT ![g] =
                       IF todo[g] = {i} THEN "reserved" ELSE "next"]
        /\ UNCHANGED <<demand, expiresAt, now, txNow, available, late,
                       stockVars, runVars>>

\* The transaction ends without an insert: its lock goes, and what earlier
\* transactions of the loop committed stays.
RollBack(g) ==
    /\ lockedBy' = [i \in Inventories |->
                      IF lockedBy[i] = g THEN NoGroup ELSE lockedBy[i]]
    /\ stage' = [stage EXCEPT ![g] = "rejected"]
    /\ UNCHANGED <<demand, now, todo, txNow, available, late,
                   rowVars, stockVars, runVars>>

InsufficientInventory(g) ==
    /\ stage[g] = "checked"
    /\ demand[g][Least(todo[g])] > available[g]
    /\ RollBack(g)

\* A statement fails, or the process or its connection dies.
AbortReservation(g) ==
    /\ stage[g] \in {"next", "begun", "locked", "checked"}
    /\ RollBack(g)

-----------------------------------------------------------------------------
(* The row updates OrderService makes inside its transactions.             *)

\* Mutant of UpdateGroup: no guard on the status.
UpdateGroupUnguarded(g, from, to) ==
    status' = [status EXCEPT ![g] =
                 [i \in Inventories |-> IF @[i] # "none" THEN to ELSE @[i]]]

\* Every row of group g whose status is `from` becomes `to`.
UpdateGroup(g, from, to) ==
    status' = [status EXCEPT ![g] =
                 [i \in Inventories |-> IF @[i] = from THEN to ELSE @[i]]]

ConfirmReservations(g) ==
    /\ stage[g] = "reserved"
    /\ UpdateGroup(g, "active", "confirmed")
    /\ late' = [i \in Inventories |->
                  IF status[g][i] = "active" /\ expiresAt[g] <= now
                  THEN late[i] \cup {g} ELSE late[i]]
    /\ UNCHANGED <<demand, expiresAt, now, stage, txVars, stockVars, runVars>>

ReleaseReservations(g) ==
    /\ stage[g] = "reserved"
    /\ UpdateGroup(g, "active", "released")
    /\ UNCHANGED <<demand, expiresAt, now, stage, late, txVars, stockVars, runVars>>

-----------------------------------------------------------------------------
(* The jobs.                                                               *)

\* One statement releases every expired row (a run that finds none changes
\* nothing and is no step).
ExpireReservations ==
    /\ \E i \in Inventories : Expired(i) # {}
    /\ status' = [g \in Groups |-> [i \in Inventories |->
                    IF g \in Expired(i) THEN "released" ELSE status[g][i]]]
    /\ UNCHANGED <<demand, expiresAt, now, stage, late, txVars, stockVars, runVars>>

\* Mutant of FirstConfirmed: LIMIT before the filter on the rows.
FirstInventories == {i \in Inventories : Cardinality({j \in Inventories : j < i}) < BatchSize}

\* The first BatchSize inventories that have confirmed rows.
FirstConfirmed ==
    {i \in Inventories :
       /\ InStatus("confirmed", i) # {}
       /\ Cardinality({j \in Inventories : j < i /\ InStatus("confirmed", j) # {}})
            < BatchSize}

\* The rows of each inventory of the batch; the sum is taken of the same rows.
FindConfirmedGrouped ==
    [i \in Inventories |-> IF i \in FirstConfirmed THEN InStatus("confirmed", i) ELSE {}]

\* The read is outside any transaction.
StartFulfillment(w) ==
    /\ w \notin running
    /\ FirstConfirmed # {}
    /\ running' = running \cup {w}
    /\ batch' = [batch EXCEPT ![w] = FindConfirmedGrouped]
    /\ UNCHANGED <<demand, now, stage, late, rowVars, txVars, stockVars>>

Pending(w) == {i \in Inventories : batch[w][i] # {}}

\* Mutant of DecrementQuantity: a column without its CHECK.
DecrementUnchecked(i, n) == quantity' = [quantity EXCEPT ![i] = @ - n]

\* decrementQuantity under CHECK (quantity >= 0).
DecrementQuantity(i, n) ==
    /\ n <= quantity[i]
    /\ quantity' = [quantity EXCEPT ![i] = @ - n]

\* Mutants of Releasable: no guard on the status, and one on expires_at too.
ReleasableUnguarded(i, rows) == rows
ReleasableUnexpired(i, rows) ==
    {g \in rows \cap InStatus("confirmed", i) : expiresAt[g] > now}

\* The rows releaseConfirmedByIds updates, of those it is given.
Releasable(i, rows) == rows \cap InStatus("confirmed", i)

\* One iteration of the loop: decrement by the sum that was read, then mark
\* released those of the rows that are still confirmed.
FulfillInventory(w) ==
    /\ w \in running
    /\ Pending(w) # {}
    /\ LET i == Least(Pending(w))
           rows == batch[w][i]
           shipped == Releasable(i, rows)
       IN  /\ DecrementQuantity(i, SumQuantity(rows, i))
           /\ status' = [g \in Groups |->
                           IF g \in shipped
                           THEN [status[g] EXCEPT ![i] = "released"]
                           ELSE status[g]]
           /\ fulfilled' = [fulfilled EXCEPT ![i] = @ \cup shipped]
           /\ excess' = [excess EXCEPT ![i] =
                           @ + SumQuantity(rows \ shipped, i)]
           /\ batch' = [batch EXCEPT ![w][i] = {}]
    /\ UNCHANGED <<demand, expiresAt, now, stage, late, running, txVars>>

StopRun(w) ==
    /\ running' = running \ {w}
    /\ batch' = [batch EXCEPT ![w] = [i \in Inventories |-> {}]]
    /\ UNCHANGED <<demand, now, stage, late, rowVars, txVars, stockVars>>

FinishFulfillment(w) ==
    /\ w \in running
    /\ Pending(w) = {}
    /\ StopRun(w)

\* CHECK (quantity >= 0) rejects the decrement; the exception leaves the loop.
FulfillmentRejected(w) ==
    /\ w \in running
    /\ Pending(w) # {}
    /\ LET i == Least(Pending(w)) IN SumQuantity(batch[w][i], i) > quantity[i]
    /\ StopRun(w)

\* The worker dies between two transactions of the loop.
CrashFulfillment(w) ==
    /\ w \in running
    /\ Pending(w) # {}
    /\ StopRun(w)

Tick ==
    /\ now < Horizon
    /\ now' = now + 1
    /\ UNCHANGED <<demand, stage, late, rowVars, txVars, stockVars, runVars>>

-----------------------------------------------------------------------------
Create(g) ==
    \/ CreateReservations(g)
    \/ BeginTransaction(g)
    \/ LockForReservation(g)
    \/ GetAvailable(g)
    \/ InsertReservation(g)
    \/ InsufficientInventory(g)

Fulfill(w) ==
    \/ StartFulfillment(w)
    \/ FulfillInventory(w)
    \/ FinishFulfillment(w)
    \/ FulfillmentRejected(w)

Next ==
    \/ \E g \in Groups :
         \/ Create(g)
         \/ AbortReservation(g)
         \/ ConfirmReservations(g)
         \/ ReleaseReservations(g)
    \/ ExpireReservations
    \/ \E w \in FulfillRuns : Fulfill(w) \/ CrashFulfillment(w)
    \/ Tick

Spec == Init /\ [][Next]_vars

\* The clock advances, both jobs keep being scheduled, and the worker does not
\* die before the same transaction every night.  Nothing is assumed of the
\* requests, whose process may stop for good between any two steps.
Fairness ==
    /\ WF_vars(Tick)
    /\ WF_vars(ExpireReservations)
    /\ \A w \in FulfillRuns : WF_vars(Fulfill(w)) /\ SF_vars(FulfillInventory(w))

FairSpec == Spec /\ Fairness

-----------------------------------------------------------------------------
(* Properties.                                                             *)

\* Every variable holds a value of its type: the columns within their CHECK
\* constraints, and the state of each transaction and job.
TypeOK ==
    /\ quantity \in [Inventories -> Nat]
    /\ demand \in [Groups -> Demands]
    /\ status \in [Groups -> [Inventories -> RowStatus]]
    /\ expiresAt \in [Groups -> Nat]
    /\ now \in Nat
    /\ stage \in [Groups -> Stages]
    /\ todo \in [Groups -> SUBSET Inventories]
    /\ txNow \in [Groups -> Nat]
    /\ lockedBy \in [Inventories -> Groups \cup {NoGroup}]
    /\ available \in [Groups -> Int]
    /\ running \subseteq FulfillRuns
    /\ batch \in [FulfillRuns -> [Inventories -> SUBSET Groups]]
    /\ late \in [Inventories -> SUBSET Groups]
    /\ fulfilled \in [Inventories -> SUBSET Groups]
    /\ excess \in [Inventories -> Nat]

\* The ledger the rows stand for: see module StockLedger.
Ledger == INSTANCE StockLedger WITH
    InitialStock <- InitialQuantity,
    MaxUnits <- MaxQuantity,
    stock <- quantity,
    reserved <- [i \in Inventories |-> SumQuantity(Unexpired(i, now), i)],
    sold <- [i \in Inventories |-> SumQuantity(InStatus("confirmed", i), i)],
    debt <- [i \in Inventories |-> SumQuantity(late[i], i) + excess[i]]

\* The reservations implement the ledger: whatever the requests, the jobs and
\* the clock do in between, an insert sets aside only what the stock covers at
\* that moment, a row that is confirmed leaves the books only when its units
\* leave the stock, and every unit promised twice is on record.
ImplementsLedger == Ledger!Spec

\* createReservations and its comment "Both the check and the insert happen
\* inside the lock - this is what prevents oversell": however the requests,
\* the jobs and the clock interleave, the reservations that count against an
\* inventory exceed its stock by no more than the rows ever confirmed after
\* they had lapsed and the units that overlapping fulfillment runs took twice.
\* Where neither has happened, nothing is oversold.
OversellAccounted ==
    \A i \in Inventories :
        SumQuantity(Held(i, now), i) <= quantity[i] + SumQuantity(late[i], i) + excess[i]

\* fulfillReservations keeps the books: what left the stock is the units of
\* the rows it marked released, and what it took off in excess.
StockConserved ==
    \A i \in Inventories :
        quantity[i] + SumQuantity(fulfilled[i], i) + excess[i] = InitialQuantity[i]

\* The inductive invariant behind OversellAccounted and StockConserved.
\* CheckStillGood is about the transaction between its availability check and
\* its insert: the lock keeps other inserts out, and of everything else that
\* can happen in between, only a late confirmation takes away what the check
\* found.
LoopTodo ==
    \A g \in Groups :
        /\ stage[g] \in {"next", "begun", "locked", "checked"} => todo[g] # {}
        /\ stage[g] = "idle" => \A i \in Inventories : status[g][i] = "none"
        /\ \A i \in todo[g] : status[g][i] = "none"
LockHeld ==
    \A g \in Groups :
        stage[g] \in {"locked", "checked"} => lockedBy[Least(todo[g])] = g
LateRowsSettled ==
    \A i \in Inventories : \A g \in late[i] : status[g][i] \in {"confirmed", "released"}
ShippedRowsReleased ==
    \A i \in Inventories : \A g \in fulfilled[i] : status[g][i] = "released"
CheckStillGood ==
    \A g \in Groups : stage[g] = "checked" =>
        LET i == Least(todo[g])
        IN  available[g] + SumQuantity(Held(i, now), i)
              <= quantity[i] + SumQuantity(late[i], i) + excess[i]
ReservationInv ==
    /\ TypeOK
    /\ \A g \in Groups : txNow[g] <= now
    /\ LoopTodo
    /\ LockHeld
    /\ LateRowsSettled
    /\ ShippedRowsReleased
    /\ CheckStillGood
    /\ OversellAccounted
    /\ StockConserved

\* fulfillReservations' comment on releaseConfirmedByIds ("makes overlapping
\* runs safe"): each confirmed row is taken off the stock exactly once.
FulfilledExactlyOnce ==
    \A i \in Inventories :
        quantity[i] + SumQuantity(fulfilled[i], i) = InitialQuantity[i]

\* A group is confirmed as a whole: the rows of one order share expires_at and
\* every statement takes all that qualify, so that an order is confirmed with
\* an item missing only if a row had expired before, while createReservations
\* was still waiting for the lock of a later item or the charge was open.
PartialOnlyAfterExpiry ==
    \A g \in Groups :
        (\E i \in Inventories : status[g][i] = "confirmed")
            => \/ expiresAt[g] < now
               \/ \A i \in Inventories : demand[g][i] > 0
                     => status[g][i] = "confirmed" \/ g \in fulfilled[i]

\* The inductive invariant behind it: until its rows lapse, a group is made item
\* by item, nobody takes away what its loop has made, and from then on its rows
\* change status together; only their shipping is row by row.
WholeUntilExpiry ==
    \A g \in Groups :
        LET Items == {i \in Inventories : demand[g][i] > 0}
        IN  /\ \A i \in Inventories :
                 status[g][i] = "confirmed" \/ g \in fulfilled[i] => stage[g] = "reserved"
            /\ stage[g] \in {"next", "begun", "locked", "checked"} /\ now <= expiresAt[g]
                 => \A i \in Items : i \in todo[g] \/ status[g][i] = "active"
            /\ stage[g] = "reserved" /\ now <= expiresAt[g]
                 => \/ \A i \in Items : status[g][i] = "active"
                    \/ \A i \in Items : status[g][i] = "released"
                    \/ \A i \in Items : status[g][i] = "confirmed" \/ g \in fulfilled[i]

\* The status guards of ReservationRepository's updates: no order of confirm,
\* release, expiry and fulfillment brings a released row back or takes a
\* confirmed row away other than by shipping its units.
RowsMoveForward ==
    [][\A g \in Groups, i \in Inventories :
         \/ status'[g][i] = status[g][i]
         \/ status[g][i] = "none" /\ status'[g][i] = "active"
         \/ status[g][i] = "active" /\ status'[g][i] \in {"confirmed", "released"}
         \/ status[g][i] = "confirmed" /\ status'[g][i] = "released"
              /\ quantity'[i] < quantity[i]]_vars

\* expireReservations returns the stock of a request that failed half-way or
\* died: no row stays active for good, whoever is left to release it.
NoRowStaysActive ==
    \A g \in Groups, i \in Inventories :
        status[g][i] = "active" ~> status[g][i] # "active"

\* fulfillReservations ships every confirmed row some night, crashes of the
\* worker and batches of BATCH_SIZE notwithstanding, where no reservation is
\* confirmed after it lapsed: CHECK (quantity >= 0) then never rejects a
\* decrement.  (One that it rejects ends the run, that night and every other.)
TimelyConfirmedIsShipped ==
    [](\A i \in Inventories : late[i] = {})
        => \A g \in Groups, i \in Inventories :
             status[g][i] = "confirmed" ~> status[g][i] = "released"
=============================================================================
