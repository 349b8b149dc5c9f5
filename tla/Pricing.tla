-------------------------------- MODULE Pricing --------------------------------
(***************************************************************************)
(* What an order costs: validateItemsToOrder, buildPreTaxLineItems,        *)
(* buildTaxedLineItems with the tax gateway, and what persistOrder writes, *)
(* for one request.                                                        *)
(*                                                                         *)
(* Amounts are cents.  Prices are NUMERIC(10,2), so a price times a        *)
(* quantity and a sum of such are whole cents; but they are computed in    *)
(* doubles, and what round2 is given may be off by up to Imprecision for   *)
(* every addition.  A tax is rounded to the cent; half way between two, it *)
(* is the one the double happens to be nearer to.                          *)
(*                                                                         *)
(* `pc` goes from "arrived" to "geocoding", and from "reserved" to         *)
(* "persisted"; or to "failed" with `failure`.                             *)
(***************************************************************************)
EXTENDS Integers, Sequences, FiniteSets, Functions

CONSTANTS
    Products,       \* products.id
    Entries,        \* bound: the prices and tax codes a product can have
    TaxRates,       \* TAX_RATES, in percent, by the codes it knows
    InitialCatalogs,    \* bound: what products can be at first
    MaxAmount,      \* what fits into NUMERIC(10,2)
    Imprecision     \* what one addition of doubles loses, in hundredths of a cent

VARIABLES
    items,      \* orderToPlace.items: a sequence of products and quantities
    circuits,   \* the circuits whose flag is '1'
    pc, failure,
    catalog,    \* products: a price and a tax code for each
    found,      \* productByIdMap: the products the request has read
    lines,      \* taxedLineItems
    amounts,    \* subtotal, tax and total
    orders,     \* the row of orders with its items and its receipt: at most one
    catalogs    \* history: the catalogues there were since the request arrived

vars == <<items, circuits, pc, failure, catalog, found, lines, amounts, orders, catalogs>>

NoAmounts == [subtotal |-> 0, tax |-> 0, total |-> 0]

Init ==
    /\ catalog \in InitialCatalogs
    /\ found = << >>
    /\ lines = << >>
    /\ amounts = NoAmounts
    /\ orders = {}
    /\ catalogs = {catalog}

Goto(from, to) ==
    /\ pc = from
    /\ pc' = to
    /\ UNCHANGED failure

Fail(error) ==
    /\ pc' = "failed"
    /\ failure' = error

-----------------------------------------------------------------------------
(* validateItemsToOrder.                                                   *)

Wanted == {items[i].product : i \in DOMAIN items}

\* Mutant of AllFound: every wanted product is there, however often it is wanted.
AllFoundAsSet(products) == products = Wanted

\* As many products as items: none that does not exist, and none twice.
AllFound(products) == Cardinality(products) = Len(items)

\* Mutant of FindProducts: a query for each product.
FindProductsOneByOne ==
    /\ pc = "arrived"
    /\ \E p \in (Wanted \cap Products) \ DOMAIN found :
         LET products == DOMAIN found \cup {p} IN
           /\ found' = [q \in products |-> IF q = p THEN catalog[p] ELSE found[q]]
           /\ IF products # Wanted \cap Products THEN Goto("arrived", "arrived")
              ELSE IF AllFound(products) THEN Goto("arrived", "geocoding")
              ELSE Fail("other")
    /\ UNCHANGED <<items, circuits, catalog, lines, amounts, orders, catalogs>>

\* findByIds: one statement, which returns the products there are.
FindProducts ==
    /\ pc = "arrived"
    /\ LET products == Wanted \cap Products IN
         /\ found' = [p \in products |-> catalog[p]]
         /\ IF AllFound(products) THEN Goto("arrived", "geocoding") ELSE Fail("other")
    /\ UNCHANGED <<items, circuits, catalog, lines, amounts, orders, catalogs>>

-----------------------------------------------------------------------------
(* buildPreTaxLineItems and buildTaxedLineItems.                           *)

Product(i) == found[items[i].product]

LineSubtotal(i) == Product(i).price * items[i].quantity

\* Math.round of an amount in hundredths of a cent.
Rounded(n) == {m \in n \div 100 .. n \div 100 + 1 : 100 * m - 50 <= n /\ n <= 100 * m + 50}

\* What doubles can make of some cents in so many additions, in hundredths of one.
Doubles(cents, additions) ==
    100 * cents - additions * Imprecision .. 100 * cents + additions * Imprecision

\* round2 of any of them.
Round2(doubles) == UNION {Rounded(n) : n \in doubles}

\* The subtotals a request can come to.
Subtotals ==
    Round2(Doubles(SumFunction([i \in DOMAIN items |-> LineSubtotal(i)]), Len(items)))

AssertTaxClosed ==
    /\ IF "tax" \in circuits THEN pc = "reserved" /\ Fail("CircuitOpen")
       ELSE Goto("reserved", "taxing")
    /\ UNCHANGED <<items, circuits, catalog, found, lines, amounts, orders, catalogs>>

KnownCodes == \A i \in DOMAIN items : Product(i).taxCode \in DOMAIN TaxRates

\* The tax of a line in hundredths of a cent.
ExactTax(i) == TaxRates[Product(i).taxCode] * LineSubtotal(i)

\* The breakdowns calculate can return: a rounded tax for each line.
Breakdowns ==
    {taxes \in [DOMAIN items -> UNION {Rounded(ExactTax(i)) : i \in DOMAIN items}] :
        \A i \in DOMAIN items : taxes[i] \in Rounded(ExactTax(i))}

\* What the lines owe before anything is rounded.
ExactTotalTax == SumFunction([i \in DOMAIN items |-> ExactTax(i)])

\* Mutant of TotalTaxes: the tax of the order is rounded, not that of its lines.
TotalTaxesOfOrder(taxes) == Rounded(ExactTotalTax)

\* totalTaxAmount: the sum of what was rounded line by line.
TotalTaxes(taxes) == Round2(Doubles(SumFunction(taxes), Len(items)))

\* Mutant of GrandTotals: the cents are cut off.
GrandTotalsTruncated(subtotal, tax) == {n \div 100 : n \in Doubles(subtotal + tax, 1)}

\* total: one more addition of doubles, of what was rounded.
GrandTotals(subtotal, tax) == Round2(Doubles(subtotal + tax, 1))

CalculateTax ==
    /\ Goto("taxing", "taxed")
    /\ KnownCodes
    /\ \E taxes \in Breakdowns, subtotal \in Subtotals :
       \E tax \in TotalTaxes(taxes) : \E total \in GrandTotals(subtotal, tax) :
         /\ lines' = [i \in DOMAIN items |->
                        [product |-> items[i].product, quantity |-> items[i].quantity,
                         unitPrice |-> Product(i).price, taxCode |-> Product(i).taxCode,
                         subtotal |-> LineSubtotal(i), tax |-> taxes[i]]]
         /\ amounts' = [subtotal |-> subtotal, tax |-> tax, total |-> total]
    /\ UNCHANGED <<items, circuits, catalog, found, orders, catalogs>>

UnknownTaxCode ==
    /\ pc = "taxing"
    /\ ~KnownCodes
    /\ Fail("TaxCalculation")
    /\ UNCHANGED <<items, circuits, catalog, found, lines, amounts, orders, catalogs>>

-----------------------------------------------------------------------------
(* persistOrder.                                                           *)

\* orders_total_check.
TotalCheck == amounts.total = amounts.subtotal + amounts.tax

Fits == amounts.total <= MaxAmount

\* One transaction: the order with its receipt, and its items.
PersistOrder ==
    /\ Goto("taxed", "persisted")
    /\ TotalCheck /\ Fits
    /\ orders' = {[amounts |-> amounts,
                   items |-> [i \in DOMAIN lines |->
                                [product |-> lines[i].product,
                                 quantity |-> lines[i].quantity,
                                 unitPrice |-> lines[i].unitPrice,
                                 taxCode |-> lines[i].taxCode,
                                 tax |-> lines[i].tax]],
                   receipt |-> [lines |-> lines, amounts |-> amounts]]}
    /\ UNCHANGED <<items, circuits, catalog, found, lines, amounts, catalogs>>

\* The database or Redis fails; or the database rejects the order, which is
\* the only outcome of one whose total does not fit.
PricingFails ==
    /\ pc \in {"arrived", "reserved", "taxed"}
    /\ Fail("other")
    /\ UNCHANGED <<items, circuits, catalog, found, lines, amounts, orders, catalogs>>

Price ==
    \/ FindProducts
    \/ AssertTaxClosed \/ CalculateTax \/ UnknownTaxCode
    \/ PersistOrder
    \/ PricingFails

\* External: a product gets another price or tax code.
CatalogChanges ==
    /\ \E p \in Products, entry \in Entries :
         /\ entry # catalog[p]
         /\ catalog' = [catalog EXCEPT ![p] = entry]
    /\ catalogs' = catalogs \cup {catalog'}
    /\ UNCHANGED <<items, circuits, pc, failure, found, lines, amounts, orders>>

-----------------------------------------------------------------------------
(* Properties.                                                             *)

AmountsOf(S) == [subtotal : S, tax : S, total : S]

TypeOK ==
    /\ catalog \in [Products -> Entries]
    /\ DOMAIN found \subseteq Products
    /\ amounts \in AmountsOf(Nat)
    /\ Cardinality(orders) <= 1

\* DESIGN_DOC.md, "a point-in-time contract": the prices and tax codes of an
\* order are those of one moment of its request, not a mixture of before and
\* after a change, however the catalogue changed until the order was written.
PricedAtOneMoment ==
    \A o \in orders : \E c \in catalogs : \A i \in DOMAIN o.items :
        c[o.items[i].product] =
            [price |-> o.items[i].unitPrice, taxCode |-> o.items[i].taxCode]

\* The columns of the order, its rows of order_items and its receipt, written by
\* different code from different variables, agree to the cent.
BooksAgree ==
    \A o \in orders :
        LET net == [i \in DOMAIN o.items |-> o.items[i].unitPrice * o.items[i].quantity]
            tax == [i \in DOMAIN o.items |-> o.items[i].tax]
        IN  /\ o.amounts.subtotal = SumFunction(net)
            /\ o.amounts.tax = SumFunction(tax)
            /\ o.receipt.amounts = o.amounts
            /\ \A i \in DOMAIN o.items : o.receipt.lines[i].subtotal = net[i]

\* What the customer pays in tax is what the rates make of the lines, but for the
\* rounding: at most half a cent for each line, in hundredths of a cent.
TaxNearlyExact ==
    \A o \in orders :
        LET exact == SumFunction([i \in DOMAIN o.items |->
                       TaxRates[o.items[i].taxCode]
                         * (o.items[i].unitPrice * o.items[i].quantity)])
            allowed == 50 * Cardinality(DOMAIN o.items)
        IN  /\ 100 * o.amounts.tax - exact <= allowed
            /\ exact - 100 * o.amounts.tax <= allowed

\* An order has lines, and none two of the same product: what the unique rows
\* per group and inventory of module Reservations rest on.
OneLinePerProduct ==
    \A o \in orders :
        /\ o.items # << >>
        /\ \A i, j \in DOMAIN o.items : o.items[i].product = o.items[j].product => i = j

\* DESIGN_DOC.md, "catching any discrepancy at the source": there is none to
\* catch.  Subtotal, tax and total are rounded in three places, each from a sum
\* of doubles, and whatever each loses, the CHECK never rejects an order that fits.
TotalCheckHolds == pc = "taxed" /\ Fits => TotalCheck
=============================================================================
