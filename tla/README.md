# Place-order: a TLA+ model, its checks and its proofs

This directory models the order service of the repository in TLA+. Paths below are
relative to the repository; the service's own code is under `src/`.

## The system

`POST /orders` places an order: claim the idempotency key, pick a warehouse, reserve the
stock, calculate tax, insert the order, charge the card, and confirm the order or leave it
to a background job. State lives in PostgreSQL and Redis; any number of Node processes
serve requests, and each also runs workers for the three BullMQ jobs.

| Component | State | Operations | Interacts with |
|---|---|---|---|
| reservations (`ReservationService`, `InventoryRepository`, `ReservationRepository`) | `inventories.quantity`; `inventory_reservations` rows (`active`, `confirmed`, `released`, `expires_at`); advisory locks | createReservations, confirmReservations, releaseReservations | called by placeOrder and reconcile |
| expireReservations job, every minute | the same tables, `orders` | release lapsed rows, fail their pending orders, in one transaction | races with slow requests and with late payments |
| fulfillReservations job, every night | the same tables | decrement stock by the confirmed rows, mark them released, one transaction per inventory | races with itself |
| placeOrder (`OrderService` and helpers) | `orders` | reserve, tax, persist, charge, apply the result; compensate on error | all of the above, the gateways |
| idempotency keys (`placeOrderController`, `IdempotencyRepository`) | `idempotency:<key>` in Redis | claim, get, set, release, TTL | wraps placeOrder |
| reconcileOrders job, every 5 minutes | `orders` | poll the charge of stale pending orders and apply the answer | races with the expiry job and itself |
| dead-letter queue | jobs in Redis | add | written when a compensation fails; nothing reads it |
| payment, tax and geocoding gateways, circuit breakers | outside | charge, getStatus, calculate, geocode | may fail, be slow, lose a reply |
| circuit breakers | `circuit:<name>` in Redis | assertCircuitClosed | read before each gateway call; set from outside |
| warehouse selection, geocode cache | cache in Redis | geocode, findClosestToFulfill | reads stock without a lock while others reserve it |
| order validation and pricing | `products` | validateItemsToOrder, line totals, tax, total, receipt | the CHECK on `orders.total`, the unique rows of a group |
| rate limiter | a log per client in Redis | allow or refuse | in front of the controller |
| error handler | none | statusFor | what the client is told of all of the above |

What is hard here: nearly every step is an `await` at which other requests and the jobs run;
a request may be arbitrarily slow or die at each of them; a reservation lapses by the clock
while its order is being paid; the compensation may fail too; replies get lost; the jobs may
overlap with themselves. `PROJECT.json` lists these hazards at their lines.

What makes each part correct: stock is not promised twice (reservations); every row is settled and
leaves the stock once (jobs); a confirmed order is paid for, and nobody but its own request takes it
back; an order that failed holds no active row, one key is charged by one request (placeOrder, keys);
every order is resolved, or someone is told (reconcile, dead-letter queue); the chosen warehouse is the
closest that could deliver, the books of an order add up to the cent, the client is told what happened
(selection, pricing, error handler); nobody gets more than the limit, and nobody is refused below it
(rate limiter).

## Modules

| Module | Models | Built on |
|---|---|---|
| `StockLedger` | the promise of the reservations: four numbers per inventory and five steps | - |
| `Reservations` | the two tables, the lock, and the two jobs that work on them | implements `StockLedger` (`Ledger == INSTANCE StockLedger WITH ...`) |
| `PlaceOrder` | controller, placeOrder, orders, gateway, expiry of orders, reconcile, dead-letter queue | implements `Reservations` (`R == INSTANCE Reservations`) |
| `ReconcileBacklog` | the steps of `PlaceOrder` started from a backlog of stale orders | extends `PlaceOrder` |
| `WarehouseSelection` | geocoding with its cache and circuit, choice of the warehouse | - |
| `Pricing` | validation of the items, line totals, tax, the row, items and receipt of the order | - |
| `Checkout` | one request from validateBody to the answer of errorHandler | composes `W == INSTANCE WarehouseSelection` and `P == INSTANCE Pricing` |
| `RateLimiter` | the sliding-window log and its script | - |

`MCReservations`, `MCPlaceOrder`, `MCReconcileBacklog`, `MCCheckout` and `MCRateLimiter` are
instances for TLC. `Reservations_proofs`, `ReservationRows_proofs`, `ReservationLedger_proofs`,
`StockLedger_proofs`, `RateLimiter_proofs`, `PlaceOrder_proofs`, `ReconcileBacklog_proofs` and
`Checkout_proofs` hold the theorems.

`PlaceOrder` and `Checkout` both model `OrderService.placeOrder`, each for its own questions.
`PlaceOrder` follows what concurrent requests, jobs, crashes and the gateway do to orders and
stock, and takes validation, selection and tax for steps that succeed or fail. `Checkout` follows
the data of one request through those steps, while the world changes around it, and takes the
reservation and the charge for steps that succeed or fail.

In all modules the definitions named *mutant* in their comment are what a bug would have made
of the definition after them. They are used by nothing; `PROJECT.json` says which property is
violated when one takes the place of the original.

### Reservations

A *group* `g` is the set of rows of one order (`reservation_group_id`), at most one per inventory:
`validateItemsToOrder` refuses an order that names a product twice. So `status[g][i]` is the row of
group `g` on inventory `i`; `"none"` is a row not inserted. `demand` is what the order asks for.
`SUM(quantity)` is the cardinality of a set of units, so that it needs no recursion and the provers
can use the library's theorems about finite sets.

Which step is atomic follows from PostgreSQL's READ COMMITTED. Confirm, release, expire and each
transaction of fulfillReservations are one action: their UPDATEs re-evaluate their WHERE clause
under the row lock, all of them lock reservation rows or the inventory first and the order last,
and so every interleaving of two of them equals one of the two orders. The transaction that creates
a reservation is not: it begins (which fixes `NOW()`), waits for the advisory lock, reads the
availability and inserts in four steps. `findConfirmedGrouped` reads outside any transaction and is
a step apart from the transactions that use what it read.

`createReservations` is CreateReservations (`expiresAt`, computed once), then per item
BeginTransaction, LockForReservation, GetAvailable, and InsertReservation or InsufficientInventory;
AbortReservation is an error or a crash at any of these points, leaving the earlier items' rows. A run
of fulfillReservations is StartFulfillment, one FulfillInventory per inventory, FinishFulfillment;
FulfillmentRejected is `CHECK (quantity >= 0)`, whose exception leaves the loop, and
CrashFulfillment a worker that dies.

Three history variables record what the code does not: `late` (rows confirmed when they had lapsed),
`fulfilled` (rows that left the stock) and `excess` (units taken off for rows another run had
shipped). One clock `now` stands for the processes' `Date.now()` and the database's `NOW()`;
this module has no clock skew.

`StockLedger` says the same without rows, transactions or clocks: `Reserve` (only what the stock
covers), `GiveBack`, `Sell`, `Overdraw` (selling what is not reserved any more, on `debt`) and
`Ship`. `Reservations` refines it: `reserved` is the units of active rows that have not lapsed and
`sold` those of confirmed rows; a tick of the clock that lets rows lapse is a `GiveBack`, a late
confirmation an `Overdraw`, and what an overlapping fulfillment run takes off twice is a `Ship` of
more than was sold.

### PlaceOrder

`pc[g]` says where request `g` stands; a request makes at most one order and one group, so `g`
names all three. `slot[k]` is the Redis key (absent, `pending`, or the request whose response it
holds); `order`, `createdAt` and `reference` are columns of `orders`; `charges` and `payment` the
gateway's books; `scan` and `polled` the run of a reconcile job between two of its calls.

`PaymentGateway.ts` is a stub. The model takes it for what the code around it prepares for: a charge
that throws although it was made, a status that is open for any time and then settles for good,
a status call that fails. Tax, geocoding, validation, warehouse choice and circuit breakers
either let the request go on or stop it. `Faults` says which failures beyond errors may happen:
a crash of the request's process (`crash`), a failing compensation (`release`), a commit whose
acknowledgement is lost (`ackLost`), and Redis being down for the catch block (`redis`). Redis
being down for the claim is a request that never arrives. With
`ackLost`, an insert that has committed is compensated by a request that knows of no order
(`PersistOrder`), a confirmation that has committed is failed (`ApplySucceeded`), and the dead-letter
queue may name a group whose compensation has committed (`Compensate`).

A charge that is not settled is applied without a transaction: `updateStatus` is an UPDATE that commits
by itself and a SELECT after it (OrderRepository.ts:46-47). They are two steps, `StoreReference` and
`ReadOrder`, with the place `stored` between them; `ApplyFails` may follow either, and an UPDATE whose
answer is lost is a `StoreReference` and an `ApplyFails`. No fault is needed for that: the catch block
may then meet an order with a reference, which `findStalePending` returns to the reconcile runs when it
is old enough. In the body of the answer is what the SELECT has read. Within a transaction both
statements are one step. The history variable `compensated` holds the orders the catch block has failed.

`R == INSTANCE Reservations` makes the composition a refinement: each step of `PlaceOrder` performs
an action of `R` or leaves the variables of `R` alone, which `ImplementsReservations` states.

`ReconcileBacklog` starts where an outage of the gateway leaves the service: every request is over,
every order still PENDING_PAYMENT. Those of `Parked` have a payment reference, the others none, and
`findStalePending` returns any `ReconcileLimit` of them. A batch is drained only while there are
fewer orders without a reference than it has places. That is `BacklogAssumption`; the code does not
ensure it, and with as many, every batch may consist of them, whatever
reconcileOrders.ts:10-12 says of the next run.

### Checkout

`WarehouseSelection` has a step per await: the look-up in the cache, the circuit, the gateway,
the write to the cache; then one warehouse after the other, and in each the queries of
`Promise.all`, which return in any order. Addresses and coordinates are abstracted to `Distance`.
`Pricing` counts in cents; a tax that falls half way between two is rounded either way, since it
depends on the double that the product happens to be. Sums are computed in doubles too: each addition is
off by up to `Imprecision` in either direction (`Doubles`), and subtotal, tax and total are what `Round2`
makes of that, each for itself. The database takes part with its CHECK on the
total (`TotalCheck`) and the width of its columns (`Fits`). `Checkout` adds the schema, the
reservation item by item, the charge and `statusFor`. `WorldChanges` is everything that may happen
between two awaits: stock, catalogue, the circuits' flags, the expiry of the cache.

History variables record what was true at some moment or all along: `steady`, `seen`, `uncached`,
`catalogs`, `opened`. The properties need them because no read is atomic with any other: a 409 is
justified in the sense that no warehouse had every item during the whole request, not that
there was a moment when none had.

### RateLimiter

A request reads its process's clock (`Send`), and the script runs up to `Delay` later, in one step:
it evicts what is older than the window by *that* clock, counts, and records or refuses. Process
clocks differ from Redis' by up to `Skew`; the key expires by Redis' clock. `FailOpen` is a Redis
that fails before the script has run, `AnswerLost` one that fails after. With
`Spread == Delay + 2 * Skew` the limiter's promises are:

- `RecentWithinLimit`: at most `MaxRequests` admitted within the last `Window - Spread`;
- `RefusedOnlyAtLimit`: a refusal only after `MaxRequests` were let through within the last
  `Window + Spread`.

TLC finds both violated with a spread smaller by one: neither can be promised better.
What fails open is counted by neither limit: the code bounds it in no way.

## Checks

All constants are small, every bound is a constant or a guard: `Horizon` bounds the clock, and
CreateReservations and PersistOrder start only where the clock still has room for the rows to
expire and the order to become stale, so that these happen in every run. The systems stop when the
clock has run out and all requests are over; deadlock is therefore not checked. A lock that is never
freed shows in `ReservationInv` and in the liveness properties instead: rows that wait for it would
stay active.

| Run | Instance | Shows |
|---|---|---|
| `reservations` | 3 orders of 1 or 2 units, 1 inventory with 2, 2 overlapping fulfillment runs, horizon 2 | TypeOK, OversellAccounted, StockConserved, ImplementsLedger |
| `reservations_pairs` | 2 orders over 2 inventories with 1 unit, 1 or 2 items each, one fulfillment run, batches of 1, horizon 2, fair jobs | ReservationInv, FulfilledExactlyOnce, PartialOnlyAfterExpiry, WholeUntilExpiry, RowsMoveForward, NoRowStaysActive, TimelyConfirmedIsShipped |
| `place_order` | 1 order of 2 items, all jobs, 2 overlapping reconcile runs, crash and release faults, fair jobs | OrderInv, TypeOK, ConfirmedIsPaid, ConfirmedRowsConfirmedOrder, CompensationComplete, ConfirmedInTimeIsBacked, LostOnlyByCrash, OnlyOwnRequestUnconfirms, ImplementsReservations, EveryOrderSettles |
| `place_order_keys` | 2 requests with one key, every fault | OrderInv, ChargedOncePerKey, ToldConfirmedIsConfirmed |
| `reconcile_backlog` | 2 parked orders, 1 without a reference, 2 overlapping runs, batches of 2, fair runs | ResolvedByItsOwnCharge, BacklogIsDrained |
| `rate_limiter` | 3 requests of a client that may have 2 in 5 ticks, skew 1, delay 1, horizon 9 | LimiterInv, RecentWithinLimit, RefusedOnlyAtLimit |
| `checkout` | 1 request of up to 2 items; 3 warehouses, 2 products, 2 changes of the world | TypeOK, ClosestIsChosen, ChosenHadEveryItem, PricedAtOneMoment, BooksAgree, OneLinePerProduct, TotalCheckHolds, ConflictIsJustified, UnavailableIsJustified, AnswerFitsOrder, CheckoutInv |

Why these bounds reach the interesting cases: two units and three orders of one or two make both a full
and a partly taken inventory; two inventories give an order a second item to wait for while its first
lapses, and a batch that is full; horizon 2 with expiry 1 lets a row lapse (at 1), be confirmed late, be
reserved again and be released (at 2); two of each overlapping actor is all their races need, since each
touches one row or one inventory per step. Three requests against a limit of two are one too many, and
horizon 9 exceeds window and spread, so that the log is evicted from and the key expires. The prices of
the checkout, 5 and 15 cents at 10 and 21 percent, give taxes half way between two cents; an amount of
at most 45 cents is exceeded by the dearest order; an addition of doubles is off by up to 0.24 cents, so
that the subtotal of two lines is by just less than the half cent that rounding forgives; the closest
warehouse stocks nothing, one body names a product twice and one a product that does not exist; two
changes are a thing taken away and given back, or two of different kinds, between any two reads.
Symmetry is used only over orders and requests, which the modules never compare, and only where no
liveness is checked.

`OversellAccounted` is the shape the code's promise really has. Stock *can* be promised twice, in
two ways the model separates: a row that has lapsed is confirmed (`late`), or overlapping runs take
units off twice (`excess`). The invariant says that these are the only ways: without them
`SUM(reservations) <= quantity`, whatever else interleaves. Similarly `PartialOnlyAfterExpiry` and
`ConfirmedInTimeIsBacked` say exactly when a confirmed order may lack stock: never while its
reservation had not expired, but for the case of the next section that ends without any.

### Where code and documents disagree

| Run | Violated | Says | Does |
|---|---|---|---|
| `oversold` | NoOversell | README.md:19 "prevents overselling" | a reservation that lapsed during the charge is confirmed although its stock was reserved again |
| `overlap_ships_twice` | FulfilledExactlyOnce | fulfillReservations.ts:43-44 "makes overlapping runs safe" | the rows are skipped, the decrement is not |
| `parked_failed` | ParkedIsNotWronglyFailed | README.md:21 "rather than being incorrectly failed" | the expiry job fails an order with an open charge |
| `retry_rejected` | FailedAttemptCanBeRetried | placeOrderController.ts:56 "can be retried with the same key" | an attempt that failed after its insert keeps the UNIQUE key |
| `lost_order` | NoOrderSilentlyLost | DESIGN_DOC.md:527 "no order is silently lost" | a crash between insert and charge of an order whose rows had lapsed |

More are known and have no run of their own:

- The comment at OrderService.ts:69-70 says that any failure "must release the reservations (and fail the
  order if one was already created) so stock is not held for an order that will never confirm". A
  request whose reference was stored when it fails (OrderRepository.ts:46-47) does neither for certain:
  - reconcile confirms the order before the catch block runs, which then takes it from CONFIRMED to
    FAILED and leaves its rows confirmed: paid, failed, and shipped at night;
  - reconcile has polled before the catch block releases the rows and applies its answer afterwards:
    the order is paid and CONFIRMED, the client has an error, and there is no stock behind it;
  - and with a charge that is still open the catch block fails an order that README.md:21 would have
    reconciled; `ParkedIsNotWronglyFailed` is only about orders that placeOrder returned as pending.

  The first two are states of the run `place_order`. `ConfirmedRowsConfirmedOrder`, `OnlyOwnRequestUnconfirms`,
  `ConfirmedInTimeIsBacked` and `CompensationComplete` say how far they go: only by the compensation of the
  order's own request, never after placeOrder has returned and, until the rows lapse, for all items or none.
- order-flow.md:98-99 promises never to "leave a half-finished order holding stock", but the rows of the
  items before the one that is short stay until they expire.
- openapi.ts documents none of 422, 429 and 500, which `statusFor` and the limiter answer.

### Fairness

`FairSpec` of `Reservations` assumes that the clock advances and that BullMQ keeps scheduling the
jobs: weak fairness of the expiry transaction and of the fulfillment run, and strong fairness of its
transactions, for a worker that died before one is restarted and does not die there every night.
Nothing is assumed of requests: their process may be dead.

`FairSpec` of `PlaceOrder` adds that a request whose process lives goes on, that the processor
settles a charge it took, and that reconcile runs keep starting; polls and the transactions that apply
their answers fail any number of times but not for ever, hence strong fairness. A request that
has crashed is asked for nothing: `EveryOrderSettles` holds with crashes among the faults, up to
the orders that are `Lost`, and `LostOnlyByCrash` says which those are. `BacklogSpec` assumes the
same of the reconcile runs and of the processor, and nothing of the expiry job, which would resolve
orders by failing them.

## Proofs

### Reservations

`Reservations_proofs` and `ReservationRows_proofs` prove for every number of orders, inventories,
quantities, batch sizes and overlapping runs:

- `ReservationInvariant`: `Spec => []ReservationInv`;
- `TypeCorrect`, `OversellIsAccounted`, `StockIsConserved`: its parts, each checked by a run too;
- `RowsAlwaysMoveForward`: the action property `RowsMoveForward`;
- `OneRunShipsOnce`: with at most one fulfillment run at work, `[]FulfilledExactlyOnce`.

They assume only the named assumptions of `Reservations`: finitely many orders and inventories,
natural quantities, every order asking for something, positive expiry and batch size.

`OversellAccounted` is not inductive: an insert is justified by a check made some steps before.
The strengthening is `CheckStillGood`: from the check of group `g` to its insert,
`available[g] + held <= quantity + late + excess` on the inventory it works on. It holds after the
check because `NOW()` of the transaction is not later than the clock, and so counts every row that
counts now (`txNow <= now`); it survives the other steps because inserts need the lock that
`g` holds (`LockHeld`), confirmations in time and expiry do not raise `held`, a late
confirmation raises `late` by as much, and fulfillment takes from `held` what it takes from
`quantity`, or adds to `excess`. `LoopTodo`, `LateRowsSettled` and `ShippedRowsReleased` say that a
row is not inserted, confirmed late, or shipped twice, so that the sums of disjoint sets
can be added. The proof first carries the invariants without arithmetic (`ControlStep`), then the
sums, one lemma per action that changes them (`InsertQuantity`, `ConfirmQuantity`,
`FulfillQuantity`) and one for all others (`QuietStep`).

`RowsAlwaysMoveForward` follows from what each step makes of a row (`RowStep`) and from `RowsDemanded`:
every row asks for at least one unit, so that a transaction of the fulfillment job takes something off
the stock. `OneRunShipsOnce` strengthens `FulfilledExactlyOnce` by `BatchConfirmed`: what a run at work
has read and not worked through is still confirmed, since nobody else ships.

`ConfirmedAsAWhole` proves `PartialOnlyAfterExpiry`, by way of `GroupsWholeUntilExpiry`. The inductive
form is `WholeUntilExpiry`: until a group lapses, every item it asked for has an active row or is one
its request has still to insert (`todo`), and once its request is through with it the rows are all
active, all released, or all confirmed (or shipped by fulfillReservations since). It rests on every row
of a group having the same `expiresAt`, computed once before the loop, and on the expiry job releasing
only what has lapsed.

`ReservationLedger_proofs` proves `ReservationsImplementLedger`: `Spec => ImplementsLedger`. Its
lemmas compute what each action makes of the four numbers of the ledger; `Reserve`'s guard follows
from `CheckStillGood`, the rest from the row-level parts of `ReservationInv`.
`StockLedger_proofs` proves of the ledger alone that it is always covered (`LedgerIsCovered`), so that
the promise can be read off five short actions.

### PlaceOrder

`PlaceOrder_proofs` first proves `PlaceOrderImplementsReservations`. Through it the results above hold of
the composition: `RP == INSTANCE ReservationRows_proofs` brings in their theorems, `SameSteps`
and `SameSpec` show that both instances of `Reservations` have the same steps, and
`OversellStaysAccounted` is `OversellIsAccounted` for every behaviour of `PlaceOrder`.

The inductive invariant is `OrderInv`, proved in `OrderInvariant` and checked by two runs:

- `RequestsInOrder`: what the position of a request says of its rows, its order and its answer;
- `ChargesInOrder`: no charge without an order, and CONFIRMED only with a charge that succeeded and
  a reference;
- `KeysInOrder`: at most one request of a key has an order (the UNIQUE constraint), and what is
  cached under a key is the answer of one of its requests;
- `RunsInOrder`: a reconcile run holds only orders with a reference, and its answer is the final
  one (a settled charge stays so), however long it waits to apply it;
- `ConfirmedRowsConfirmedOrder`: confirmed rows have a confirmed order, or one in `compensated`;
- `RowsInTime`: until they lapse, the rows of an order are all held while its request is at work on it;
  once its reference is stored and unless its charge has failed, they are all held or all confirmed (or
  shipped), or, if the order was compensated, all released or all confirmed;
- `CommitsInOrder`: where every commit is acknowledged, a request that fails without knowing of an order
  has none, and (with Redis) `CompensationComplete`. This part is conditional, because with `ackLost` it
  is false.

That `reference` may be set while the request is still going to fail is what these have to carry:
a reconcile run may hold such an order at any moment, so no part says of a request in its catch block
that its order is pending or its rows are active.

From the invariant follow, under every fault, `ConfirmedOrderIsPaid`, `OneRequestPerKeyIsCharged`,
`WhatIsToldIsSo`, `ConfirmedRowsHaveConfirmedOrder`, `OnlyCompensationUnconfirms`,
`ConfirmedInTimeHasItsStock` and `PlaceOrderTypeCorrect`. With `"ackLost" \notin Faults` and `"redis"
\notin Faults`, when the catch block knows of its order and can write the dead-letter queue,
`NothingIsLeftUncompensated` and `OnlyCrashesLoseOrders` follow. They assume the constants' named
assumptions: those of `Reservations`, `ChargeAttempts` and the bounds natural, and `GroupAssumption`,
that no order is named like one of the markers a key or an answer can be.

The proof has one lemma per part and step. `StepsKeep` and `OrderSteps` list what each action can do to
an order, its charges and its reference, so that most parts need not look at the actions again;
`RowsStep` relates the rows that were confirmed to the order that was, through the one transaction that
writes both, and `CompensatedStep` says that only the catch block adds to `compensated`.
`ConfirmedInTimeHasItsStock` (`ConfirmedInTimeIsBacked`) is where both modules meet: `ReservationFacts`
takes from Reservations, through the refinement, that a group is whole until it expires, and
`RowsInTime` adds what only PlaceOrder knows, that whoever pays has reserved all its items before. So an
order confirmed in time has the stock of all its items, whether the request or a reconcile run confirms
it, or of none when its own compensation came between poll and answer.

### ReconcileBacklog

`BacklogSpec` takes the steps of `PlaceOrder` from another initial state. `ReconcileBacklog_proofs`
therefore proves that `BacklogInit` satisfies `OrderInv`, and uses PlaceOrder's lemmas for the steps:
`BacklogInvariant`. Its second part, `FailedInOrder`, says of a failed order of the backlog that its
charge failed or its rows expired: no request is left that could fail it for another reason. With it,
`BacklogResolvedByItsOwnCharge` holds for any number of parked orders, any batch size and any number of
overlapping runs.

### Checkout

`CheckoutInvariant` proves `CheckoutInv` inductive, for any warehouses, stock, catalogues, tax rates and
bodies, and any number of changes around the request; the properties of the run follow
(`ClosestWarehouseIsChosen`, `OrderItemsAndReceiptAgree`, `AnswersFitOrders` and the others). It assumes
what `CheckoutAssumption` says of the constants: distances and prices are natural numbers, tax rates
are whole percents below 100, a body is a sequence of items with integer quantities, and the additions for
it lose less than half a cent together. (A double of 10^8, beyond NUMERIC(10,2), is exact to
1.5 * 10^-8, so that more than 10^5 lines would be needed.) Quantities are
*positive* only after `validateBody`, and that is proved, not assumed. Its parts:

- `PhaseInv`: position, failure and answer of the request go together;
- `SelectionInv`: a warehouse that had everything throughout is still to be asked, being asked with
  nothing missing so far, or eligible (`NoneOverlooked`). That is what makes the closest of the
  eligible ones at least as close as any of these, and an empty list of eligible ones a justified 409;
- `PricingInv`: what was found is a part of one catalogue (`findByIds` is one statement), every item was
  found and no product twice (`ItemsFound`), and lines and amounts are those of what was found
  (`LinesPriced`), however the catalogue has changed since;
- `FailureInv`: what each failure tells of the stage it happened in.

`FoundOnceEach` is the counting argument of `validateItemsToOrder`: as many products as items leave no
item without a product and no product to two items, since a map onto a set as large as a finite one is
one-to-one. `RoundingRecovers` is what the three roundings rest on: less than half a cent off, the
nearest cent is the exact one. So each amount is the exact sum of what its parts were rounded to
(`AmountsAreSums`), which gives `TotalCheckNeverFails`; a total that is cut off instead of rounded
violates it. `BooksAgree` then needs no arithmetic on sums: columns, items and receipt add up the same
function of the lines. Two results do: that the sums are natural numbers (`SumOfNumbers`), and
`TaxIsNearlyExact`, that the tax of an order is what the rates make of its lines but for half a cent per
line (`SumsAreNear`). A sum is a fold, defined by recursion over sets, and the library's induction
theorems cannot be instantiated here; so `SumsExist`, `SumsAreNumbers` and `SumsAreNear` argue by a
smallest counterexample, which the well-foundedness of the natural numbers provides (`LeastNumber`).

### RateLimiter

`LimiterInvariant` proves `LimiterInv` inductive for any number of clients and requests, any window, limit,
skew and delay; `RecentIsWithinLimit` and `RefusalIsJustified` follow. The core is `RecentAreOnTheLog`:
an admission within the last `Window - Spread` has not been evicted by any clock, nor has its key
expired. So the recent admissions are a subset of a log that never exceeds the limit, and
conversely an entry that survives an eviction is younger than `Window + Spread`.

### Only model-checked

Every safety property that a passing run checks is stated by a theorem. Liveness under fairness
(`NoRowStaysActive`, `TimelyConfirmedIsShipped`, `EveryOrderSettles`, `BacklogIsDrained`) is out of the
prover's reach and stays with TLC, on the instances above. So do the five runs that show where code and
documents disagree.

## Not modelled

The demo and load test; migrations and seeds as such (their constraints are guards); the wiring
of the application, `/health` and OpenAPI, which keep no state; the order in which `shutdown`
closes queues and connections (that it does not wait for requests is `Crash`); coordinates and the
haversine formula beyond the distances they give; names, addresses and descriptions; clock skew
between processes and database in `Reservations` and `PlaceOrder`. The components in `PROJECT.json`
say so one by one.

## Plan

1. Clock skew between the processes and the database in `Reservations`: by how much `late` grows, and
   what of `WholeUntilExpiry` is left.
2. A common abstraction of `PlaceOrder` and `Checkout`, which both model `OrderService.placeOrder`.
