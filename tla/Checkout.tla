------------------------------- MODULE Checkout -------------------------------
(***************************************************************************)
(* One POST /orders from validateBody to the answer of errorHandler:       *)
(* warehouse selection and pricing in the order of OrderService.placeOrder *)
(* while stock, catalogue, circuits and the geocode cache change under it. *)
(*                                                                         *)
(* Reservations, the charge and the compensation of failures are here only *)
(* as far as they decide the answer; modules Reservations and PlaceOrder   *)
(* have them in full.                                                      *)
(***************************************************************************)
EXTENDS Integers, Sequences, FiniteSets

CONSTANTS
    Warehouses, NoWarehouse, Stocked, Levels, Distance,
    Products, Entries, InitialCatalogs, TaxRates, MaxAmount,
    Imprecision,
    Bodies,         \* bound: the items a request can ask for
    MaxChanges      \* bound: what changes around the request

ASSUME CheckoutAssumption ==
    /\ NoWarehouse \notin Warehouses
    /\ Distance \in [Warehouses -> Nat]
    /\ \A pair \in Stocked : pair[1] \in Warehouses
    /\ Levels \subseteq Nat
    /\ \A entry \in Entries :
         /\ entry = [price |-> entry.price, taxCode |-> entry.taxCode]
         /\ entry.price \in Nat
    /\ InitialCatalogs \subseteq [Products -> Entries]
    /\ TaxRates \in [DOMAIN TaxRates -> 0 .. 99]
    /\ MaxAmount \in Nat
    /\ Imprecision \in 0 .. 49
    /\ \A body \in Bodies :
         /\ Len(body) \in Nat
         /\ DOMAIN body = 1 .. Len(body)
         /\ Len(body) * Imprecision < 50
         /\ \A i \in DOMAIN body : body[i].quantity \in Int
    /\ MaxChanges \in Nat

VARIABLES
    items, circuits, pc, failure,
    available, cached, todo, current, unread, able, eligible, chosen, steady, seen,
    uncached,
    catalog, found, lines, amounts, orders, catalogs

W == INSTANCE WarehouseSelection
P == INSTANCE Pricing

VARIABLES
    unreserved,     \* the items createReservations has still to reserve
    charged,        \* what PaymentGateway.charge was asked for
    answer,         \* the HTTP status
    opened,         \* history: the circuits that were open at some moment
    changes         \* bound: what has changed so far

selection == <<available, cached, todo, current, unread, able, eligible, chosen,
               steady, seen, uncached>>
pricing == <<catalog, found, lines, amounts, orders, catalogs>>
ending == <<unreserved, charged, answer>>
around == <<opened, changes>>
vars == <<items, circuits, pc, failure, selection, pricing, ending, around>>

Circuits == {"geocoding", "tax", "payment"}

Init ==
    /\ items \in Bodies
    /\ circuits = {}
    /\ pc = "received"
    /\ failure = "none"
    /\ W!Init
    /\ P!Init
    /\ unreserved = {}
    /\ charged = 0
    /\ answer = 0
    /\ opened = circuits
    /\ changes = 0

-----------------------------------------------------------------------------
\* Mutant of WellFormed: without min(1).
WellFormedOrEmpty == \A i \in DOMAIN items : items[i].quantity > 0

\* placeOrderSchema, as far as the items go.
WellFormed ==
    /\ Len(items) >= 1
    /\ \A i \in DOMAIN items : items[i].quantity > 0

\* validateBody.
ValidateBody ==
    /\ pc = "received"
    /\ UNCHANGED failure
    /\ IF WellFormed THEN pc' = "arrived" /\ UNCHANGED answer
       ELSE pc' = "answered" /\ answer' = 400
    /\ UNCHANGED <<items, circuits, selection, pricing, unreserved, charged, around>>

SelectWarehouse ==
    /\ W!Select
    /\ UNCHANGED <<pricing, ending, around>>

PriceOrder ==
    /\ P!Price
    /\ UNCHANGED <<selection, ending, around>>

\* createReservations, one item after the other; the stock it finds is not the
\* stock that was found when the warehouse was chosen.
StartReserving ==
    /\ W!Goto("chosen", "reserving")
    /\ unreserved' = DOMAIN items
    /\ UNCHANGED <<items, circuits, selection, pricing, charged, answer, around>>

ReserveItem(i) ==
    /\ pc = "reserving"
    /\ i \in unreserved
    /\ IF W!Enough(chosen, i)
         THEN unreserved' = unreserved \ {i} /\ UNCHANGED <<pc, failure>>
         ELSE W!Fail("InsufficientInventory") /\ UNCHANGED unreserved
    /\ UNCHANGED <<items, circuits, selection, pricing, charged, answer, around>>

FinishReserving ==
    /\ W!Goto("reserving", "reserved")
    /\ unreserved = {}
    /\ UNCHANGED <<items, circuits, selection, pricing, ending, around>>

AssertPaymentClosed ==
    /\ IF "payment" \in circuits THEN pc = "persisted" /\ W!Fail("CircuitOpen")
       ELSE W!Goto("persisted", "charging")
    /\ UNCHANGED <<items, circuits, selection, pricing, ending, around>>

\* The gateway is asked for the total, and the charge is accepted, declined, or
\* its answer is lost.
Charge ==
    /\ charged' = amounts.total
    /\ \/ W!Goto("charging", "placed")
       \/ \E error \in {"PaymentDeclined", "other"} : pc = "charging" /\ W!Fail(error)
    /\ UNCHANGED <<items, circuits, selection, pricing, unreserved, answer, around>>

\* Mutant of StatusFor: the circuits are taken for a conflict.
StatusForOneConflict(error) ==
    CASE error \in {"NoWarehouseAvailable", "InsufficientInventory", "CircuitOpen"} -> 409
      [] error = "PaymentDeclined" -> 402
      [] error = "TaxCalculation" -> 422
      [] OTHER -> 500

\* statusFor of errorHandler.
StatusFor(error) ==
    CASE error \in {"NoWarehouseAvailable", "InsufficientInventory"} -> 409
      [] error = "PaymentDeclined" -> 402
      [] error = "TaxCalculation" -> 422
      [] error = "CircuitOpen" -> 503
      [] OTHER -> 500

Answer ==
    /\ \/ W!Goto("placed", "answered") /\ answer' = 201
       \/ W!Goto("failed", "answered") /\ answer' = StatusFor(failure)
    /\ UNCHANGED <<items, circuits, selection, pricing, unreserved, charged, around>>

-----------------------------------------------------------------------------
\* External: the flags are toggled by hand or by whatever counts errors.
ToggleCircuit(c) ==
    /\ circuits' = IF c \in circuits THEN circuits \ {c} ELSE circuits \cup {c}
    /\ opened' = opened \cup circuits'
    /\ UNCHANGED <<items, pc, failure, selection, pricing, ending>>

\* Nothing of it is read any more once the request has failed or is charged.
WorldChanges ==
    /\ pc \notin {"charging", "placed", "failed", "answered"}
    /\ changes < MaxChanges
    /\ changes' = changes + 1
    /\ \/ (W!StockChanges \/ W!CacheExpires) /\ UNCHANGED <<pricing, ending, opened>>
       \/ P!CatalogChanges /\ UNCHANGED <<selection, ending, opened>>
       \/ \E c \in Circuits : ToggleCircuit(c)

Next ==
    \/ ValidateBody
    \/ SelectWarehouse
    \/ PriceOrder
    \/ StartReserving
    \/ \E i \in DOMAIN items : ReserveItem(i)
    \/ FinishReserving
    \/ AssertPaymentClosed
    \/ Charge
    \/ Answer
    \/ WorldChanges

Spec == Init /\ [][Next]_vars

-----------------------------------------------------------------------------
(* Properties.                                                             *)

TypeOK ==
    /\ W!TypeOK
    /\ P!TypeOK
    /\ items \in Bodies
    /\ unreserved \subseteq DOMAIN items
    /\ charged \in Nat
    /\ answer \in {0, 201, 400, 402, 409, 422, 500, 503}

\* The properties of the parts, under names a configuration can use.
ClosestIsChosen == W!ClosestIsChosen
ChosenHadEveryItem == W!ChosenHadEveryItem
PricedAtOneMoment == P!PricedAtOneMoment
BooksAgree == P!BooksAgree
TaxNearlyExact == P!TaxNearlyExact
OneLinePerProduct == P!OneLinePerProduct
TotalCheckHolds == P!TotalCheckHolds

\* openapi.ts, 409: "Insufficient inventory in any single warehouse".  No
\* warehouse had all items throughout; or the chosen one had not, and lost them
\* between being chosen and being reserved from.
ConflictIsJustified ==
    answer = 409 => IF chosen = NoWarehouse THEN steady = {} ELSE chosen \notin steady

\* DESIGN_DOC.md, "a cache hit bypasses it entirely": 503 is answered only when
\* the circuit of the stage that was reached has been open, and for geocoding
\* only when the coordinates were not in the cache all the time.
UnavailableIsJustified ==
    answer = 503 =>
        /\ chosen = NoWarehouse => "geocoding" \in opened /\ uncached
        /\ chosen # NoWarehouse /\ orders = {} => "tax" \in opened
        /\ orders # {} => "payment" \in opened

\* The client is told of an order only when one was written and the total of
\* its row, which is that of its receipt, was asked of the gateway; and what is
\* refused as its own fault or for want of stock was neither written nor charged.
AnswerFitsOrder ==
    /\ answer = 201 => \E o \in orders : charged = o.amounts.total
    /\ answer \in {400, 409, 422} => orders = {} /\ charged = 0

-----------------------------------------------------------------------------
(* The inductive invariant.                                                *)

Selecting == {"geocoding", "missed", "calling", "caching", "reading"}
Reserving == {"chosen", "reserving", "reserved"}
Priced == {"taxed", "persisted", "charging", "placed"}
Written == Priced \ {"taxed"}
Over == {"failed", "answered"}
Errors == {"NoWarehouseAvailable", "InsufficientInventory", "CircuitOpen",
           "TaxCalculation", "PaymentDeclined", "other"}

\* How far the request is, and what of its end is decided.
PhaseInv ==
    /\ pc \in {"received", "arrived"} \cup Selecting \cup Reserving \cup {"taxing"}
              \cup Priced \cup Over
    /\ failure \in Errors \cup {"none"}
    /\ failure # "none" => pc \in Over
    /\ pc = "failed" => failure # "none"
    /\ answer = 0 <=> pc # "answered"
    /\ answer \notin {0, 201, 400} => failure # "none" /\ answer = StatusFor(failure)
    /\ circuits \subseteq opened

\* No warehouse is lost between the reads: one that had all items throughout is
\* still to be asked, being asked with no item missing so far, or eligible.
NoneOverlooked ==
    \A w \in steady : w \in todo \cup eligible \/ (w = current /\ able)

SelectionInv ==
    /\ steady \subseteq W!HavingAll(available)
    /\ W!PairsIn(available) \subseteq seen
    /\ ~cached => uncached
    /\ pc = "missed" => uncached
    /\ current \notin todo
    /\ NoneOverlooked
    /\ \A w \in eligible, i \in DOMAIN items : <<w, i>> \in seen
    /\ able /\ current # NoWarehouse =>
         \A i \in DOMAIN items \ unread : <<current, i>> \in seen
    /\ pc \in {"received", "arrived"} \cup Selecting => chosen = NoWarehouse
    /\ pc \in Reserving \cup {"taxing"} \cup Priced => chosen # NoWarehouse
    /\ chosen # NoWarehouse =>
         chosen \in W!Closest(eligible) /\ todo = {} /\ current = NoWarehouse

\* Every item has been found, and no two are the same product.
ItemsFound ==
    /\ \A i \in DOMAIN items : items[i].product \in DOMAIN found
    /\ \A i, j \in DOMAIN items : items[i].product = items[j].product => i = j

\* The lines are those of the items at the prices and codes that were found, and
\* the amounts are the sums of the lines.
LinesPriced ==
    /\ DOMAIN lines = DOMAIN items
    /\ \A i \in DOMAIN items :
         /\ lines[i].product = items[i].product
         /\ lines[i].quantity = items[i].quantity
         /\ lines[i].unitPrice = P!Product(i).price
         /\ lines[i].taxCode = P!Product(i).taxCode
         /\ lines[i].taxCode \in DOMAIN TaxRates
         /\ lines[i].subtotal = lines[i].unitPrice * lines[i].quantity
         /\ lines[i].tax \in P!Rounded(TaxRates[lines[i].taxCode] * lines[i].subtotal)
    /\ amounts.subtotal =
         P!SumFunction([i \in DOMAIN lines |-> lines[i].unitPrice * lines[i].quantity])
    /\ amounts.tax = P!SumFunction([i \in DOMAIN lines |-> lines[i].tax])
    /\ P!TotalCheck

PricingInv ==
    /\ catalogs \subseteq [Products -> Entries]
    /\ catalog \in catalogs
    /\ \E c \in catalogs : \A p \in DOMAIN found : found[p] = c[p]
    /\ pc \notin {"received"} \cup Over => WellFormed
    /\ pc \notin {"received", "arrived"} \cup Over => ItemsFound
    /\ pc \in Priced => LinesPriced
    /\ pc \in Written => orders # {}
    /\ pc \notin Written \cup Over => orders = {}
    /\ \A o \in orders : o.amounts = amounts
    /\ charged # 0 => orders # {}
    /\ pc = "placed" => charged = amounts.total

\* What a failure tells of the stage it happened in.
FailureInv ==
    /\ failure = "NoWarehouseAvailable" => chosen = NoWarehouse /\ steady = {}
    /\ failure = "InsufficientInventory" => chosen # NoWarehouse /\ chosen \notin steady
    /\ failure \in {"NoWarehouseAvailable", "InsufficientInventory", "TaxCalculation"} =>
         orders = {}
    /\ failure = "CircuitOpen" =>
         /\ chosen = NoWarehouse => "geocoding" \in opened /\ uncached
         /\ chosen # NoWarehouse /\ orders = {} => "tax" \in opened
         /\ orders # {} => "payment" \in opened

\* The inductive invariant: the request is where its state says it is, whatever
\* stock, catalogue, circuits and cache did between its steps.
CheckoutInv ==
    /\ TypeOK
    /\ PhaseInv
    /\ SelectionInv
    /\ PricingInv
    /\ FailureInv
    /\ PricedAtOneMoment /\ BooksAgree /\ TaxNearlyExact /\ OneLinePerProduct
    /\ AnswerFitsOrder
=============================================================================
