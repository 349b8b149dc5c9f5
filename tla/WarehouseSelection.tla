-------------------------- MODULE WarehouseSelection --------------------------
(***************************************************************************)
(* WarehouseService.findClosestToFulfill and GeocodeService.geocode, for   *)
(* one request: the address is turned into coordinates, the warehouses are *)
(* asked one after the other, the items of a warehouse at the same time,   *)
(* and the closest of those that had everything is taken.  No lock is held *)
(* and no transaction is open: the stock changes between any two reads.    *)
(*                                                                         *)
(* `pc` goes from "geocoding" to "chosen", or to "failed" with `failure`.  *)
(***************************************************************************)
EXTENDS Integers, Sequences

CONSTANTS
    Warehouses,
    NoWarehouse,    \* undefined, where a warehouse could be
    Stocked,        \* the pairs of warehouse and product in inventories
    Levels,         \* bound: the units that can be available
    Distance        \* from the shipping address to each warehouse

VARIABLES
    items,      \* orderItems: a sequence of products and quantities
    available,  \* what getAvailable returns for a pair of Stocked
    circuits,   \* the circuits whose flag is '1'
    cached,     \* geocode:<hash of the address> is in Redis
    pc, failure,
    todo,       \* the warehouses not yet asked
    current,    \* the warehouse being asked
    unread,     \* the items whose availability has not arrived yet
    able,       \* the items that have arrived were all there
    eligible,   \* eligibleWarehouses
    chosen,
    \* History, for the properties only.
    steady,     \* warehouses that had all items all the time
    seen,       \* pairs of warehouse and item that were there at some moment
    uncached    \* the coordinates were out of the cache at some moment

vars == <<items, available, circuits, cached, pc, failure, todo, current, unread,
          able, eligible, chosen, steady, seen, uncached>>
choice == <<todo, current, unread, able, eligible, chosen>>
stock == <<items, available, circuits, steady, seen>>

-----------------------------------------------------------------------------
\* No row of inventories for the pair, or fewer than are wanted: not enough.
EnoughIn(levels, w, i) ==
    LET pair == <<w, items[i].product>>
    IN  pair \in Stocked /\ levels[pair] >= items[i].quantity

HavingAll(levels) == {w \in Warehouses : \A i \in DOMAIN items : EnoughIn(levels, w, i)}
PairsIn(levels) ==
    {pair \in Warehouses \X DOMAIN items : EnoughIn(levels, pair[1], pair[2])}

\* Mutant of Enough: > instead of >=.
MoreThanEnough(w, i) ==
    LET pair == <<w, items[i].product>>
    IN  pair \in Stocked /\ available[pair] > items[i].quantity

Enough(w, i) == EnoughIn(available, w, i)

Init ==
    /\ available \in [Stocked -> Levels]
    /\ cached \in BOOLEAN
    /\ todo = Warehouses
    /\ current = NoWarehouse
    /\ unread = {}
    /\ able = TRUE
    /\ eligible = {}
    /\ chosen = NoWarehouse
    /\ steady = HavingAll(available)
    /\ seen = PairsIn(available)
    /\ uncached = ~cached

Goto(from, to) ==
    /\ pc = from
    /\ pc' = to
    /\ UNCHANGED failure

Fail(error) ==
    /\ pc' = "failed"
    /\ failure' = error

-----------------------------------------------------------------------------
(* GeocodeService.geocode.                                                 *)

\* Mutant of LookUp: the circuit is asked before the cache.
LookUpAfterCircuit ==
    /\ IF "geocoding" \in circuits THEN pc = "geocoding" /\ Fail("CircuitOpen")
       ELSE Goto("geocoding", IF cached THEN "reading" ELSE "calling")
    /\ UNCHANGED <<stock, cached, choice, uncached>>

\* GET: a hit asks neither the circuit nor the gateway.
LookUp ==
    /\ Goto("geocoding", IF cached THEN "reading" ELSE "missed")
    /\ UNCHANGED <<stock, cached, choice, uncached>>

AssertGeocodingClosed ==
    /\ IF "geocoding" \in circuits THEN pc = "missed" /\ Fail("CircuitOpen")
       ELSE Goto("missed", "calling")
    /\ UNCHANGED <<stock, cached, choice, uncached>>

\* The gateway answers, and the answer is cached.
Geocode ==
    /\ Goto("calling", "caching")
    /\ UNCHANGED <<stock, cached, choice, uncached>>

FillCache ==
    /\ Goto("caching", "reading")
    /\ cached' = TRUE
    /\ UNCHANGED <<stock, choice, uncached>>

-----------------------------------------------------------------------------
(* WarehouseService.findClosestToFulfill.                                  *)

\* Mutant of AskWarehouse: the loop does not leave the warehouse behind.
AskWarehouseAgain(w) ==
    /\ Goto("reading", "reading")
    /\ current = NoWarehouse
    /\ w \in todo
    /\ current' = w
    /\ unread' = DOMAIN items
    /\ able' = TRUE
    /\ UNCHANGED <<stock, cached, todo, eligible, chosen, uncached>>

\* findAll returns the warehouses in any order.
AskWarehouse(w) ==
    /\ Goto("reading", "reading")
    /\ current = NoWarehouse
    /\ w \in todo
    /\ todo' = todo \ {w}
    /\ current' = w
    /\ unread' = DOMAIN items
    /\ able' = TRUE
    /\ UNCHANGED <<stock, cached, eligible, chosen, uncached>>

\* Mutant of ReadAvailable: the last answer decides, not every one.
ReadLast(i) ==
    /\ Goto("reading", "reading")
    /\ i \in unread
    /\ unread' = unread \ {i}
    /\ able' = Enough(current, i)
    /\ UNCHANGED <<stock, cached, todo, current, eligible, chosen, uncached>>

\* One of the queries of Promise.all returns.
ReadAvailable(i) ==
    /\ Goto("reading", "reading")
    /\ i \in unread
    /\ unread' = unread \ {i}
    /\ able' = (able /\ Enough(current, i))
    /\ UNCHANGED <<stock, cached, todo, current, eligible, chosen, uncached>>

\* canFulfill, and eligibleWarehouses.push.
FinishWarehouse ==
    /\ Goto("reading", "reading")
    /\ current # NoWarehouse
    /\ unread = {}
    /\ eligible' = IF able THEN eligible \cup {current} ELSE eligible
    /\ current' = NoWarehouse
    /\ UNCHANGED <<stock, cached, todo, unread, able, chosen, uncached>>

\* Mutant of Closest: without the sort.
AnyOf(S) == S

\* sort, and the first: any one of the closest.
Closest(S) == {w \in S : \A v \in S : Distance[w] <= Distance[v]}

ChooseWarehouse ==
    /\ Goto("reading", "chosen")
    /\ todo = {} /\ current = NoWarehouse
    /\ \E w \in Closest(eligible) : chosen' = w
    /\ UNCHANGED <<stock, cached, todo, current, unread, able, eligible, uncached>>

NoWarehouseAvailable ==
    /\ pc = "reading"
    /\ todo = {} /\ current = NoWarehouse /\ eligible = {}
    /\ Fail("NoWarehouseAvailable")
    /\ UNCHANGED <<stock, cached, choice, uncached>>

\* Redis, the gateway or the database fails: even a coordinate that could not
\* be written to the cache fails the request.
SelectionFails ==
    /\ pc \in {"geocoding", "missed", "calling", "caching", "reading"}
    /\ Fail("other")
    /\ UNCHANGED <<stock, cached, choice, uncached>>

Select ==
    \/ LookUp \/ AssertGeocodingClosed \/ Geocode \/ FillCache
    \/ \E w \in Warehouses : AskWarehouse(w)
    \/ \E i \in DOMAIN items : ReadAvailable(i)
    \/ FinishWarehouse \/ ChooseWarehouse \/ NoWarehouseAvailable
    \/ SelectionFails

-----------------------------------------------------------------------------
(* What happens around the request.                                        *)

\* Reservations of others, their releases, and deliveries.
StockChanges ==
    /\ \E pair \in Stocked, level \in Levels :
         /\ level # available[pair]
         /\ available' = [available EXCEPT ![pair] = level]
    /\ steady' = steady \cap HavingAll(available')
    /\ seen' = seen \cup PairsIn(available')
    /\ UNCHANGED <<items, circuits, cached, pc, failure, choice, uncached>>

\* CACHE_TTL_SECONDS pass.
CacheExpires ==
    /\ cached
    /\ cached' = FALSE
    /\ uncached' = TRUE
    /\ UNCHANGED <<stock, pc, failure, choice>>

-----------------------------------------------------------------------------
(* Properties.                                                             *)

TypeOK ==
    /\ available \in [Stocked -> Levels]
    /\ cached \in BOOLEAN
    /\ todo \subseteq Warehouses
    /\ current \in Warehouses \cup {NoWarehouse}
    /\ unread \subseteq DOMAIN items
    /\ able \in BOOLEAN
    /\ eligible \subseteq Warehouses \ todo
    /\ chosen \in eligible \cup {NoWarehouse}

\* "Finds the closest warehouse that can fulfill the given order items": no
\* warehouse that had all items from the arrival of the request on is closer
\* than the chosen one, whatever the stock of the others did between the reads.
ClosestIsChosen ==
    chosen # NoWarehouse => \A w \in steady \cup {chosen} : Distance[chosen] <= Distance[w]

\* Each item was in the chosen warehouse at some moment of the request (not all
\* at the same moment: the items are read one by one).
ChosenHadEveryItem ==
    chosen # NoWarehouse => \A i \in DOMAIN items : <<chosen, i>> \in seen
=============================================================================
