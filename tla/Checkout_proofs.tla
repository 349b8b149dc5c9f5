---------------------------- MODULE Checkout_proofs ----------------------------
(***************************************************************************)
(* Proofs about module Checkout: what one request is told, what was chosen *)
(* and what was written for it fit together, for every set of warehouses,  *)
(* every catalogue and every order, whatever changes while it runs.        *)
(*                                                                         *)
(* CheckoutInv is the inductive invariant.  The sums of Pricing are folds: *)
(* that they are numbers is proved with smallest counterexamples.          *)
(***************************************************************************)
EXTENDS Checkout, FiniteSetTheorems, WellFoundedInduction, TLAPS

-----------------------------------------------------------------------------
(* Sums.                                                                   *)

\* The sum over the set `s` by those over smaller sets, as Folds builds it.
Summed(f, sums, s) ==
    IF s = {} THEN 0 ELSE LET i == CHOOSE i \in s : TRUE IN f[i] + sums[s \ {i}]

SumsOf(f, sums) == sums = [s \in SUBSET DOMAIN f |-> Summed(f, sums, s)]

\* A set of natural numbers has a least one: what stands for induction here.
LEMMA LeastNumber ==
    ASSUME NEW S \in SUBSET Nat, S # {}
    PROVE  \E n \in S : \A m \in S : n <= m
<1> DEFINE Less == {ss \in Nat \X Nat : ss[1] < ss[2]}
<1>1. IsWellFoundedOn(Less, Nat)
  BY NatLessThanWellFounded DEF OpToRel
<1>2. PICK n \in S : \A m \in S : <<m, n>> \notin Less
  <2> HIDE DEF Less
  <2> QED BY <1>1, WFMin
<1>3. ASSUME NEW m \in S PROVE n <= m
  <2>1. m \in Nat /\ n \in Nat /\ <<m, n>> \notin Less
    BY <1>2
  <2>2. ~(m < n)
    BY <2>1
  <2> HIDE DEF Less
  <2> QED BY <2>1, <2>2
<1> QED BY <1>3

\* Whatever adds up natural numbers comes to natural numbers.
LEMMA SumsAreNumbers ==
    ASSUME NEW f, IsFiniteSet(DOMAIN f), \A i \in DOMAIN f : f[i] \in Nat,
           NEW sums, SumsOf(f, sums)
    PROVE  \A s \in SUBSET DOMAIN f : sums[s] \in Nat
<1> DEFINE Wrong == {s \in SUBSET DOMAIN f : sums[s] \notin Nat}
           Sizes == {Cardinality(s) : s \in Wrong}
<1>1. \A s \in SUBSET DOMAIN f : IsFiniteSet(s) /\ Cardinality(s) \in Nat
  BY FS_Subset, FS_CardinalityType
<1>2. SUFFICES ASSUME Wrong # {} PROVE FALSE
  OBVIOUS
<1>3. Sizes \in SUBSET Nat /\ Sizes # {}
  BY <1>1, <1>2
<1>4. PICK n \in Sizes : \A m \in Sizes : n <= m
  <2> HIDE DEF Sizes
  <2> QED BY <1>3, LeastNumber
<1>5. PICK s \in Wrong : \A t \in Wrong : Cardinality(s) <= Cardinality(t)
  BY <1>4
<1>6. s # {}
  BY <1>5, SumsOf(f, sums) DEF SumsOf, Summed
<1>7. PICK i \in s : i = CHOOSE j \in s : TRUE
  BY <1>6
<1>8. sums[s] = f[i] + sums[s \ {i}]
  BY <1>5, <1>6, <1>7 DEF SumsOf, Summed
<1>9. Cardinality(s \ {i}) = Cardinality(s) - 1
  BY <1>1, <1>5, <1>7, FS_RemoveElement
<1>10. s \ {i} \notin Wrong
  BY <1>1, <1>5, <1>9
<1> QED BY <1>5, <1>7, <1>8, <1>10

\* There is a function that adds up what a finite function has: for the sets of
\* up to n elements, whatever n.
LEMMA SumsExist ==
    ASSUME NEW f, IsFiniteSet(DOMAIN f)
    PROVE  \E sums : SumsOf(f, sums)
<1> DEFINE D == DOMAIN f
           UpTo(n) == \E sums : \A s \in SUBSET D :
                         Cardinality(s) <= n => sums[s] = Summed(f, sums, s)
           Sizes == {n \in Nat : ~UpTo(n)}
<1>1. \A s \in SUBSET D :
        IsFiniteSet(s) /\ Cardinality(s) \in Nat /\ Cardinality(s) <= Cardinality(D)
  BY FS_Subset, FS_CardinalityType
<1>2. UpTo(0)
  <2>1. \A s \in SUBSET D : Cardinality(s) <= 0 => s = {}
    BY <1>1, FS_EmptySet
  <2> DEFINE sums == [s \in SUBSET D |-> 0]
  <2>2. \A s \in SUBSET D : Cardinality(s) <= 0 => sums[s] = Summed(f, sums, s)
    BY <2>1 DEF Summed
  <2> QED BY <2>2
<1>3. ASSUME NEW n \in Nat, UpTo(n) PROVE UpTo(n + 1)
  <2>1. PICK sums : \A s \in SUBSET D :
                      Cardinality(s) <= n => sums[s] = Summed(f, sums, s)
    BY <1>3
  <2> DEFINE more == [s \in SUBSET D |-> IF Cardinality(s) <= n THEN sums[s]
                                         ELSE Summed(f, sums, s)]
  <2>2. ASSUME NEW s \in SUBSET D, Cardinality(s) <= n + 1
        PROVE  more[s] = Summed(f, more, s)
    <3>1. CASE s = {}
      <4>1. more[s] = Summed(f, sums, s)
        BY <2>1
      <4> QED BY <3>1, <4>1 DEF Summed
    <3>2. CASE s # {}
      <4>1. PICK i \in s : i = CHOOSE j \in s : TRUE
        BY <3>2
      <4>2. Cardinality(s \ {i}) = Cardinality(s) - 1
        BY <1>1, <4>1, FS_RemoveElement
      <4>3. more[s] = Summed(f, sums, s)
        BY <2>1
      <4>4. s \ {i} \in SUBSET D /\ Cardinality(s \ {i}) <= n
        BY <1>1, <2>2, <4>2
      <4>5. more[s \ {i}] = sums[s \ {i}]
        BY <4>4
      <4> HIDE DEF more
      <4> QED BY <3>2, <4>1, <4>3, <4>5 DEF Summed
    <3> QED BY <3>1, <3>2
  <2> QED BY <2>2
<1>4. Sizes = {}
  <2>1. SUFFICES ASSUME Sizes # {} PROVE FALSE
    OBVIOUS
  <2>2. PICK n \in Sizes : \A m \in Sizes : n <= m
    <3> Sizes \in SUBSET Nat OBVIOUS
    <3> HIDE DEF Sizes
    <3> QED BY <2>1, LeastNumber
  <2> HIDE DEF UpTo
  <2>3. n \in Nat /\ n # 0 /\ n - 1 \in Nat /\ n - 1 \notin Sizes
    BY <1>2, <2>2
  <2>4. UpTo(n - 1 + 1)
    BY <1>3, <2>3
  <2> QED BY <2>2, <2>3, <2>4
<1>5. UpTo(Cardinality(D))
  <2> HIDE DEF UpTo
  <2> QED BY <1>1, <1>4
<1>6. PICK sums : \A s \in SUBSET D : sums[s] = Summed(f, sums, s)
  BY <1>1, <1>5
<1> DEFINE all == [s \in SUBSET D |-> sums[s]]
<1>7. ASSUME NEW s \in SUBSET D PROVE Summed(f, sums, s) = Summed(f, all, s)
  <2>1. CASE s = {}
    BY <2>1 DEF Summed
  <2>2. CASE s # {}
    <3>1. PICK i \in s : i = CHOOSE j \in s : TRUE
      BY <2>2
    <3>2. all[s \ {i}] = sums[s \ {i}]
      OBVIOUS
    <3> HIDE DEF all
    <3> QED BY <2>2, <3>1, <3>2 DEF Summed
  <2> QED BY <2>1, <2>2
<1>8. all = [s \in SUBSET D |-> Summed(f, all, s)]
  BY <1>6, <1>7
<1> QED BY <1>8 DEF SumsOf

\* A sum is what any function that adds up as Folds does has for the whole domain.
LEMMA SumBySums ==
    ASSUME NEW f, IsFiniteSet(DOMAIN f)
    PROVE  \E sums : SumsOf(f, sums) /\ P!SumFunction(f) = sums[DOMAIN f]
<1>1. P!SumFunction(f) = (CHOOSE sums : SumsOf(f, sums))[DOMAIN f]
  BY DEF P!SumFunction, P!SumFunctionOnSet, P!FoldFunctionOnSet, P!MapThenFoldSet,
         SumsOf, Summed
<1>2. SumsOf(f, CHOOSE sums : SumsOf(f, sums))
  BY SumsExist
<1> QED BY <1>1, <1>2

\* The sum of finitely many natural numbers is one.
LEMMA SumOfNumbers ==
    ASSUME NEW f, IsFiniteSet(DOMAIN f), \A i \in DOMAIN f : f[i] \in Nat
    PROVE  P!SumFunction(f) \in Nat
BY SumBySums, SumsAreNumbers

\* Rounded and exact in hundredths of a cent.
Near(rounded, exact, allowed) ==
    100 * rounded - exact <= allowed /\ exact - 100 * rounded <= allowed

\* Half a cent off for each line is half a cent for each of them off in the sum.
LEMMA SumsAreNear ==
    ASSUME NEW f, NEW g, IsFiniteSet(DOMAIN f), DOMAIN g = DOMAIN f,
           \A i \in DOMAIN f : f[i] \in Nat /\ g[i] \in Nat /\ Near(f[i], g[i], 50)
    PROVE  Near(P!SumFunction(f), P!SumFunction(g), 50 * Cardinality(DOMAIN f))
<1>1. PICK fs : SumsOf(f, fs) /\ P!SumFunction(f) = fs[DOMAIN f]
  BY SumBySums
<1>2. PICK gs : SumsOf(g, gs) /\ P!SumFunction(g) = gs[DOMAIN f]
  BY SumBySums
<1>3. \A s \in SUBSET DOMAIN f : fs[s] \in Nat /\ gs[s] \in Nat
  BY <1>1, <1>2, SumsAreNumbers
<1>4. \A s \in SUBSET DOMAIN f : IsFiniteSet(s) /\ Cardinality(s) \in Nat
  BY FS_Subset, FS_CardinalityType
<1> DEFINE Wrong == {s \in SUBSET DOMAIN f : ~Near(fs[s], gs[s], 50 * Cardinality(s))}
           Sizes == {Cardinality(s) : s \in Wrong}
<1>5. Wrong = {}
  <2>1. SUFFICES ASSUME Wrong # {} PROVE FALSE
    OBVIOUS
  <2>2. Sizes \in SUBSET Nat /\ Sizes # {}
    BY <1>4, <2>1
  <2>3. PICK n \in Sizes : \A m \in Sizes : n <= m
    <3> HIDE DEF Sizes
    <3> QED BY <2>2, LeastNumber
  <2>4. PICK s \in Wrong : \A t \in Wrong : Cardinality(s) <= Cardinality(t)
    BY <2>3
  <2>5. s # {}
    <3>1. SUFFICES ASSUME s = {} PROVE FALSE
      OBVIOUS
    <3>2. fs[s] = 0 /\ gs[s] = 0
      BY <1>1, <1>2, <3>1 DEF SumsOf, Summed
    <3>3. Cardinality(s) = 0
      BY <3>1, FS_EmptySet
    <3> QED BY <2>4, <3>2, <3>3 DEF Near
  <2>6. PICK i \in s : i = CHOOSE j \in s : TRUE
    BY <2>5
  <2>7. /\ fs[s] = f[i] + fs[s \ {i}]
        /\ gs[s] = g[i] + gs[s \ {i}]
    BY <1>1, <1>2, <2>4, <2>5, <2>6 DEF SumsOf, Summed
  <2>8. Cardinality(s \ {i}) = Cardinality(s) - 1
    BY <1>4, <2>4, <2>6, FS_RemoveElement
  <2>9. s \ {i} \in SUBSET DOMAIN f /\ s \ {i} \notin Wrong
    BY <1>4, <2>4, <2>8
  <2>10. Near(fs[s \ {i}], gs[s \ {i}], 50 * (Cardinality(s) - 1)) /\ Near(f[i], g[i], 50)
    BY <2>4, <2>6, <2>8, <2>9
  <2>11. /\ fs[s \ {i}] \in Nat /\ gs[s \ {i}] \in Nat
         /\ f[i] \in Nat /\ g[i] \in Nat /\ Cardinality(s) \in Nat
    BY <1>3, <1>4, <2>4, <2>6
  <2>12. Near(fs[s], gs[s], 50 * Cardinality(s))
    BY <2>7, <2>10, <2>11 DEF Near
  <2> QED BY <2>4, <2>12
<1> QED BY <1>1, <1>2, <1>5

-----------------------------------------------------------------------------
(* Items.                                                                  *)

\* The items of a request are a finite sequence.
LEMMA ItemsAreASequence ==
    ASSUME items \in Bodies
    PROVE  /\ Len(items) \in Nat
           /\ DOMAIN items = 1 .. Len(items)
           /\ IsFiniteSet(DOMAIN items)
           /\ Cardinality(DOMAIN items) = Len(items)
           /\ \A i \in DOMAIN items : items[i].quantity \in Int
<1>1. Len(items) \in Nat /\ DOMAIN items = 1 .. Len(items)
  BY CheckoutAssumption
<1>2. \A i \in DOMAIN items : items[i].quantity \in Int
  BY CheckoutAssumption
<1>3. \A n \in Nat : IsFiniteSet(1 .. n) /\ Cardinality(1 .. n) = n
  BY FS_Interval
<1>4. IsFiniteSet(DOMAIN items) /\ Cardinality(DOMAIN items) = Len(items)
  BY <1>1, <1>3
<1> QED BY <1>1, <1>2, <1>4

\* As many products found as items: each item's is found, and none is there twice.
LEMMA FoundOnceEach ==
    ASSUME items \in Bodies, P!AllFound(P!Wanted \cap Products)
    PROVE  /\ \A i \in DOMAIN items : items[i].product \in Products
           /\ \A i, j \in DOMAIN items : items[i].product = items[j].product => i = j
<1> DEFINE product == [i \in DOMAIN items |-> items[i].product]
<1>1. product \in Surjection(DOMAIN items, P!Wanted)
  BY DEF Surjection, P!Wanted
<1>2. /\ IsFiniteSet(P!Wanted)
      /\ Cardinality(P!Wanted) <= Len(items)
      /\ Cardinality(P!Wanted) = Len(items) => product \in Injection(DOMAIN items, P!Wanted)
  <2> HIDE DEF product
  <2> QED BY <1>1, ItemsAreASequence, FS_Surjection
<1>3. Cardinality(P!Wanted \cap Products) = Len(items)
  BY DEF P!AllFound, Cardinality, P!Cardinality, IsFiniteSet, P!IsFiniteSet
<1>4. P!Wanted \cap Products = P!Wanted /\ Cardinality(P!Wanted) = Len(items)
  BY <1>2, <1>3, ItemsAreASequence, FS_Subset, FS_CardinalityType
<1>5. product \in Injection(DOMAIN items, P!Wanted)
  BY <1>2, <1>4
<1>6. \A i \in DOMAIN items : items[i].product \in Products
  BY <1>4 DEF P!Wanted
<1>7. \A i, j \in DOMAIN items : product[i] = product[j] => i = j
  <2> HIDE DEF product
  <2> QED BY <1>5 DEF Injection, IsInjective
<1> QED BY <1>6, <1>7

-----------------------------------------------------------------------------
(* Steps.                                                                  *)

Before == {"received", "arrived"}

\* The steps that choose the warehouse or change what it is chosen from.
SelectionMoves == W!Select \/ W!StockChanges \/ W!CacheExpires

\* Every other step leaves the choice as it is, enters no stage of it and comes
\* behind it only from behind it.
LEMMA QuietSelection ==
    ASSUME [Next]_vars
    PROVE  \/ SelectionMoves
           \/ /\ UNCHANGED <<items, selection>>
              /\ pc' = pc \/ pc' \in {"arrived", "answered"} \/ pc' = "failed"
                   \/ <<pc, pc'>> \in {<<"arrived", "geocoding">>,
                        <<"chosen", "reserving">>, <<"reserving", "reserved">>,
                        <<"reserved", "taxing">>, <<"taxing", "taxed">>,
                        <<"taxed", "persisted">>, <<"persisted", "charging">>,
                        <<"charging", "placed">>}
              /\ pc' = "arrived" => pc \in Before
<1> USE DEF selection
<1>1. CASE UNCHANGED vars
  BY <1>1 DEF vars, Before
<1>2. CASE ValidateBody
  BY <1>2 DEF ValidateBody, Before
<1>3. CASE SelectWarehouse
  BY <1>3 DEF SelectWarehouse, SelectionMoves
<1>4. CASE PriceOrder
  BY <1>4 DEF PriceOrder, P!Price, P!FindProducts, P!AssertTaxClosed, P!CalculateTax,
       P!UnknownTaxCode, P!PersistOrder, P!PricingFails, P!Goto, P!Fail, Before
<1>5. CASE StartReserving \/ FinishReserving \/ \E i \in DOMAIN items : ReserveItem(i)
  BY <1>5 DEF StartReserving, FinishReserving, ReserveItem, W!Goto, W!Fail, Before
<1>6. CASE AssertPaymentClosed \/ Charge \/ Answer
  BY <1>6 DEF AssertPaymentClosed, Charge, Answer, W!Goto, W!Fail, Before
<1>7. CASE WorldChanges
  BY <1>7 DEF WorldChanges, SelectionMoves, P!CatalogChanges, ToggleCircuit, Before
<1> QED BY <1>1, <1>2, <1>3, <1>4, <1>5, <1>6, <1>7 DEF Next

\* The steps that price the order or change what it is priced from.
PricingMoves == P!Price \/ P!CatalogChanges

\* Every other step leaves what was found and written as it is.
LEMMA QuietPricing ==
    ASSUME [Next]_vars
    PROVE  \/ PricingMoves /\ UNCHANGED <<charged, answer>>
           \/ ValidateBody
           \/ Charge
           \/ /\ UNCHANGED <<items, pricing, charged>>
              /\ \/ pc' \in Over
                 \/ pc' = pc
                 \/ pc \in Selecting \cup Reserving /\ pc' \in Selecting \cup Reserving
                 \/ pc = "persisted" /\ pc' = "charging"
<1> USE DEF pricing, Over, Selecting, Reserving, ending
<1>1. CASE UNCHANGED vars
  BY <1>1 DEF vars
<1>2. CASE SelectWarehouse
  BY <1>2 DEF SelectWarehouse, W!Select, W!LookUp, W!AssertGeocodingClosed, W!Geocode,
       W!FillCache, W!AskWarehouse, W!ReadAvailable, W!FinishWarehouse,
       W!ChooseWarehouse, W!NoWarehouseAvailable, W!SelectionFails, W!Goto, W!Fail,
       W!stock
<1>3. CASE PriceOrder
  BY <1>3 DEF PriceOrder, PricingMoves
<1>4. CASE StartReserving \/ FinishReserving \/ \E i \in DOMAIN items : ReserveItem(i)
  BY <1>4 DEF StartReserving, FinishReserving, ReserveItem, W!Goto, W!Fail
<1>5. CASE AssertPaymentClosed \/ Answer
  BY <1>5 DEF AssertPaymentClosed, Answer, W!Goto, W!Fail
<1>6. CASE WorldChanges
  BY <1>6 DEF WorldChanges, PricingMoves, W!StockChanges, W!CacheExpires, ToggleCircuit,
       W!stock
<1> QED BY <1>1, <1>2, <1>3, <1>4, <1>5, <1>6 DEF Next

\* Neither the items nor the failure of a request change once they are known, and
\* nothing happens to a request that has been answered.
LEMMA RequestSteps ==
    ASSUME [Next]_vars, PhaseInv
    PROVE  /\ items' = items
           /\ failure # "none" => failure' = failure
           /\ pc = "answered" => UNCHANGED vars
<1> USE DEF PhaseInv, Over
<1>1. CASE UNCHANGED vars
  BY <1>1 DEF vars
<1>2. CASE ValidateBody
  BY <1>2 DEF ValidateBody
<1>3. CASE SelectWarehouse
  BY <1>3 DEF SelectWarehouse, W!Select, W!LookUp, W!AssertGeocodingClosed, W!Geocode,
       W!FillCache, W!AskWarehouse, W!ReadAvailable, W!FinishWarehouse,
       W!ChooseWarehouse, W!NoWarehouseAvailable, W!SelectionFails, W!Goto, W!Fail,
       W!stock
<1>4. CASE PriceOrder
  BY <1>4 DEF PriceOrder, P!Price, P!FindProducts, P!AssertTaxClosed, P!CalculateTax,
       P!UnknownTaxCode, P!PersistOrder, P!PricingFails, P!Goto, P!Fail
<1>5. CASE StartReserving \/ FinishReserving \/ \E i \in DOMAIN items : ReserveItem(i)
  BY <1>5 DEF StartReserving, FinishReserving, ReserveItem, W!Goto, W!Fail
<1>6. CASE AssertPaymentClosed \/ Charge \/ Answer
  BY <1>6 DEF AssertPaymentClosed, Charge, Answer, W!Goto, W!Fail
<1>7. CASE WorldChanges
  BY <1>7 DEF WorldChanges, P!CatalogChanges, ToggleCircuit, W!StockChanges,
       W!CacheExpires, W!stock
<1> QED BY <1>1, <1>2, <1>3, <1>4, <1>5, <1>6, <1>7 DEF Next

-----------------------------------------------------------------------------
(* Where the request is.                                                   *)

Phases == Before \cup Selecting \cup Reserving \cup {"taxing"} \cup Priced \cup Over

\* No step takes the request where it cannot be, and the answer is that of its end.
LEMMA PhaseStep ==
    ASSUME PhaseInv, [Next]_vars
    PROVE  PhaseInv'
<1> USE DEF Over, Selecting, Reserving, Priced, Written, Errors
<1> SUFFICES /\ pc' \in Phases
             /\ failure' \in Errors \cup {"none"}
             /\ failure' # "none" => pc' \in Over
             /\ pc' = "failed" => failure' # "none"
             /\ answer' = 0 <=> pc' # "answered"
             /\ answer' \notin {0, 201, 400} =>
                  failure' # "none" /\ answer' = StatusFor(failure')
             /\ circuits' \subseteq opened'
  BY DEF PhaseInv, Phases, Before, StatusFor
<1>1. CASE UNCHANGED vars
  BY <1>1 DEF vars, around, ending, PhaseInv, Phases, Before
<1>2. CASE ValidateBody
  BY <1>2 DEF ValidateBody, around, PhaseInv, Phases, Before
<1>3. CASE SelectWarehouse
  <2>1. UNCHANGED <<circuits, opened, answer>>
    BY <1>3 DEF SelectWarehouse, ending, around, W!Select, W!LookUp,
         W!AssertGeocodingClosed, W!Geocode, W!FillCache, W!AskWarehouse,
         W!ReadAvailable, W!FinishWarehouse, W!ChooseWarehouse, W!NoWarehouseAvailable,
         W!SelectionFails, W!stock
  <2>2. \/ UNCHANGED failure /\ pc \in Selecting /\ pc' \in Selecting \cup {"chosen"}
        \/ pc \in Selecting /\ pc' = "failed"
             /\ failure' \in {"CircuitOpen", "NoWarehouseAvailable", "other"}
    BY <1>3 DEF SelectWarehouse, W!Select, W!LookUp,
         W!AssertGeocodingClosed, W!Geocode, W!FillCache, W!AskWarehouse,
         W!ReadAvailable, W!FinishWarehouse, W!ChooseWarehouse, W!NoWarehouseAvailable,
         W!SelectionFails, W!Goto, W!Fail
  <2> QED BY <2>1, <2>2 DEF PhaseInv, Phases, Before
<1>4. CASE PriceOrder
  <2>1. UNCHANGED <<circuits, opened, answer>>
    BY <1>4 DEF PriceOrder, ending, around, P!Price, P!FindProducts, P!AssertTaxClosed,
         P!CalculateTax, P!UnknownTaxCode, P!PersistOrder, P!PricingFails
  <2>2. /\ pc \in {"arrived", "reserved", "taxing", "taxed"}
        /\ \/ UNCHANGED failure /\ pc' \in {"geocoding", "taxing", "taxed", "persisted"}
           \/ pc' = "failed" /\ failure' \in {"CircuitOpen", "TaxCalculation", "other"}
    BY <1>4 DEF PriceOrder, P!Price, P!FindProducts, P!AssertTaxClosed,
         P!CalculateTax, P!UnknownTaxCode, P!PersistOrder, P!PricingFails, P!Goto, P!Fail
  <2> QED BY <2>1, <2>2 DEF PhaseInv, Phases, Before
<1>5. CASE StartReserving \/ FinishReserving \/ \E i \in DOMAIN items : ReserveItem(i)
  BY <1>5 DEF StartReserving, FinishReserving, ReserveItem, W!Goto, W!Fail, around, ending,
       PhaseInv, Phases, Before
<1>6. CASE AssertPaymentClosed \/ Charge
  BY <1>6 DEF AssertPaymentClosed, Charge, W!Goto, W!Fail, around, ending,
       PhaseInv, Phases, Before
<1>7. CASE Answer
  BY <1>7 DEF Answer, W!Goto, around, PhaseInv, Phases, Before, StatusFor
<1>8. CASE WorldChanges
  <2>1. UNCHANGED <<pc, failure, answer>>
    BY <1>8 DEF WorldChanges, P!CatalogChanges, ToggleCircuit, W!StockChanges,
         W!CacheExpires, ending
  <2>2. circuits' \subseteq opened'
    BY <1>8 DEF WorldChanges, P!CatalogChanges, ToggleCircuit, W!StockChanges,
         W!CacheExpires, W!stock, ending, PhaseInv
  <2> QED BY <2>1, <2>2 DEF PhaseInv, Phases, Before
<1> QED BY <1>1, <1>2, <1>3, <1>4, <1>5, <1>6, <1>7, <1>8 DEF Next

-----------------------------------------------------------------------------
(* The choice of the warehouse.                                            *)

\* The choice keeps its types: eligible warehouses have been asked, and the chosen
\* one is eligible.
LEMMA SelectionTypes ==
    ASSUME TypeOK, SelectionInv, [Next]_vars
    PROVE  W!TypeOK'
<1> USE DEF W!TypeOK
<1>1. W!TypeOK
  BY DEF TypeOK
<1>2. CASE UNCHANGED <<items, selection>>
  BY <1>1, <1>2 DEF selection
<1>3. CASE W!Select
  <2> USE <1>1, CheckoutAssumption
  <2>1. CASE W!LookUp \/ W!AssertGeocodingClosed \/ W!Geocode
              \/ W!NoWarehouseAvailable \/ W!SelectionFails
    BY <2>1 DEF W!LookUp, W!AssertGeocodingClosed, W!Geocode, W!NoWarehouseAvailable,
         W!SelectionFails, W!stock, W!choice
  <2>2. CASE W!FillCache
    BY <2>2 DEF W!FillCache, W!stock, W!choice
  <2>3. ASSUME NEW w \in Warehouses, W!AskWarehouse(w)
        PROVE  W!TypeOK'
    <3>1. UNCHANGED <<items, available, cached, eligible, chosen>>
      BY <2>3 DEF W!AskWarehouse, W!stock
    <3>2. todo' = todo \ {w} /\ current' = w /\ unread' = DOMAIN items /\ able' = TRUE
      BY <2>3 DEF W!AskWarehouse
    <3> QED BY <3>1, <3>2
  <2>4. ASSUME NEW i \in DOMAIN items, W!ReadAvailable(i)
        PROVE  W!TypeOK'
    <3>1. UNCHANGED <<items, available, cached, todo, current, eligible, chosen>>
      BY <2>4 DEF W!ReadAvailable, W!stock
    <3>2. unread' \subseteq unread /\ able' \in BOOLEAN
      BY <2>4 DEF W!ReadAvailable
    <3> QED BY <3>1, <3>2
  <2>5. CASE W!FinishWarehouse
    <3>1. UNCHANGED <<items, available, cached, todo, unread, able, chosen>>
      BY <2>5 DEF W!FinishWarehouse, W!stock
    <3>2. /\ current # NoWarehouse
          /\ eligible' \in {eligible, eligible \cup {current}}
          /\ current' = NoWarehouse
      BY <2>5 DEF W!FinishWarehouse
    <3>3. current \in Warehouses \ todo
      BY <3>2 DEF SelectionInv
    <3> QED BY <3>1, <3>2, <3>3
  <2>6. CASE W!ChooseWarehouse
    <3>1. UNCHANGED <<items, available, cached, todo, current, unread, able, eligible>>
      BY <2>6 DEF W!ChooseWarehouse, W!stock
    <3>2. chosen' \in eligible
      BY <2>6 DEF W!ChooseWarehouse, W!Closest
    <3> QED BY <3>1, <3>2
  <2> QED BY <1>3, <2>1, <2>2, <2>3, <2>4, <2>5, <2>6 DEF W!Select
<1>4. CASE W!StockChanges
  BY <1>1, <1>4 DEF W!StockChanges, W!choice
<1>5. CASE W!CacheExpires
  BY <1>1, <1>5 DEF W!CacheExpires, W!stock, W!choice
<1> QED BY <1>2, <1>3, <1>4, <1>5, QuietSelection DEF SelectionMoves

\* Neither a read nor a change of the stock loses a warehouse that had all items
\* throughout, or keeps one that missed an item when it was asked.
LEMMA SelectionStep ==
    ASSUME TypeOK, PhaseInv, SelectionInv, [Next]_vars
    PROVE  SelectionInv'
<1> DEFINE Earlier == Before \cup Selecting
           Later == Reserving \cup {"taxing"} \cup Priced
           Chosen(w) == w \in W!Closest(eligible) /\ todo = {} /\ current = NoWarehouse
<1>1. W!TypeOK /\ CheckoutAssumption
  BY CheckoutAssumption DEF TypeOK
<1> USE <1>1 DEF Selecting, Reserving, Priced, Before
<1>2. CASE UNCHANGED <<items, selection>>
  <2>1. UNCHANGED <<items, available, cached, todo, current, unread, able, eligible,
                    chosen, steady, seen, uncached>>
    BY <1>2 DEF selection
  <2>2. /\ pc' = "missed" => uncached'
        /\ pc' \in Earlier => chosen' = NoWarehouse
        /\ pc' \in Later => chosen' # NoWarehouse
    <3>1. CASE SelectionMoves
      <4>1. CASE W!Select
        BY <2>1, <3>1, <4>1 DEF W!Select, W!LookUp, W!AssertGeocodingClosed, W!Geocode,
           W!FillCache, W!AskWarehouse, W!ReadAvailable, W!FinishWarehouse,
           W!ChooseWarehouse, W!NoWarehouseAvailable, W!SelectionFails, W!Goto, W!Fail,
           W!Closest, W!TypeOK, SelectionInv
      <4>2. CASE W!StockChanges \/ W!CacheExpires
        BY <2>1, <4>2 DEF W!StockChanges, W!CacheExpires, SelectionInv
      <4> QED BY <3>1, <4>1, <4>2 DEF SelectionMoves
    <3>2. CASE ~SelectionMoves
      BY <2>1, <3>2, QuietSelection DEF SelectionInv
    <3> QED BY <3>1, <3>2
  <2> QED BY <2>1, <2>2 DEF SelectionInv, NoneOverlooked, W!HavingAll, W!PairsIn,
           W!EnoughIn, W!Closest
<1>3. CASE W!Select
  <2>1. UNCHANGED <<items, available, steady, seen>>
    BY <1>3 DEF W!Select, W!LookUp, W!AssertGeocodingClosed, W!Geocode,
         W!FillCache, W!AskWarehouse, W!ReadAvailable, W!FinishWarehouse,
         W!ChooseWarehouse, W!NoWarehouseAvailable, W!SelectionFails, W!stock
  <2>2. steady' \subseteq W!HavingAll(available)' /\ W!PairsIn(available)' \subseteq seen'
    BY <2>1 DEF SelectionInv, W!HavingAll, W!PairsIn, W!EnoughIn
  <2>3. pc \in Selecting /\ chosen = NoWarehouse
    BY <1>3 DEF W!Select, W!LookUp, W!AssertGeocodingClosed, W!Geocode,
         W!FillCache, W!AskWarehouse, W!ReadAvailable, W!FinishWarehouse,
         W!ChooseWarehouse, W!NoWarehouseAvailable, W!SelectionFails, W!Goto, W!Fail,
         SelectionInv
  <2>4. CASE W!LookUp \/ W!AssertGeocodingClosed \/ W!Geocode \/ W!FillCache
              \/ W!NoWarehouseAvailable \/ W!SelectionFails
    <3>1. UNCHANGED <<todo, current, unread, able, eligible, chosen>>
      BY <2>4 DEF W!LookUp, W!AssertGeocodingClosed, W!Geocode, W!FillCache,
           W!NoWarehouseAvailable, W!SelectionFails, W!choice
    <3>2. (~cached' => uncached') /\ (pc' = "missed" => uncached')
      BY <2>4 DEF W!LookUp, W!AssertGeocodingClosed, W!Geocode, W!FillCache,
           W!NoWarehouseAvailable, W!SelectionFails, W!Goto, W!Fail, SelectionInv
    <3>3. pc' \notin Later
      BY <2>4 DEF W!LookUp, W!AssertGeocodingClosed, W!Geocode, W!FillCache,
           W!NoWarehouseAvailable, W!SelectionFails, W!Goto, W!Fail
    <3> QED BY <2>1, <2>2, <2>3, <3>1, <3>2, <3>3 DEF SelectionInv, NoneOverlooked
  <2>5. ASSUME NEW w \in Warehouses, W!AskWarehouse(w)
        PROVE  SelectionInv'
    <3>1. UNCHANGED <<pc, cached, uncached, eligible, chosen>>
      BY <2>5 DEF W!AskWarehouse, W!Goto
    <3>2. /\ current = NoWarehouse /\ w \in todo
          /\ todo' = todo \ {w} /\ current' = w /\ unread' = DOMAIN items /\ able' = TRUE
      BY <2>5 DEF W!AskWarehouse
    <3>3. NoneOverlooked'
      BY <2>1, <3>1, <3>2 DEF SelectionInv, NoneOverlooked, W!HavingAll
    <3> QED BY <2>1, <2>2, <2>3, <3>1, <3>2, <3>3 DEF SelectionInv
  <2>6. ASSUME NEW i \in DOMAIN items, W!ReadAvailable(i)
        PROVE  SelectionInv'
    <3>1. UNCHANGED <<pc, cached, uncached, todo, current, eligible, chosen>>
      BY <2>6 DEF W!ReadAvailable, W!Goto
    <3>2. /\ i \in unread
          /\ unread' = unread \ {i}
          /\ able' = (able /\ W!EnoughIn(available, current, i))
      BY <2>6 DEF W!ReadAvailable, W!Enough
    <3>3. NoneOverlooked'
      BY <2>1, <3>1, <3>2 DEF SelectionInv, NoneOverlooked, W!HavingAll
    <3>4. able' /\ current # NoWarehouse =>
            \A j \in DOMAIN items \ unread' : <<current, j>> \in seen
      BY <3>1, <3>2 DEF SelectionInv, W!PairsIn, W!TypeOK
    <3> QED BY <2>1, <2>2, <2>3, <3>1, <3>2, <3>3, <3>4 DEF SelectionInv
  <2>7. CASE W!FinishWarehouse
    <3>1. UNCHANGED <<pc, cached, uncached, todo, unread, able, chosen>>
      BY <2>7 DEF W!FinishWarehouse, W!Goto
    <3>2. /\ current # NoWarehouse /\ unread = {}
          /\ eligible' = IF able THEN eligible \cup {current} ELSE eligible
          /\ current' = NoWarehouse
      BY <2>7 DEF W!FinishWarehouse
    <3>3. NoneOverlooked'
      BY <2>1, <3>1, <3>2 DEF SelectionInv, NoneOverlooked
    <3>4. \A w \in eligible', i \in DOMAIN items : <<w, i>> \in seen
      BY <3>2 DEF SelectionInv
    <3>5. NoWarehouse \notin todo
      BY DEF W!TypeOK
    <3> QED BY <2>1, <2>2, <2>3, <3>1, <3>2, <3>3, <3>4, <3>5 DEF SelectionInv
  <2>8. CASE W!ChooseWarehouse
    <3>1. UNCHANGED <<cached, uncached, todo, current, unread, able, eligible>>
      BY <2>8 DEF W!ChooseWarehouse
    <3>2. pc' = "chosen" /\ todo = {} /\ current = NoWarehouse
            /\ chosen' \in W!Closest(eligible)
      BY <2>8 DEF W!ChooseWarehouse, W!Goto
    <3>3. chosen' # NoWarehouse
      BY <3>2 DEF W!Closest, W!TypeOK
    <3>4. W!Closest(eligible)' = W!Closest(eligible)
      BY <3>1 DEF W!Closest
    <3> QED BY <2>1, <2>2, <3>1, <3>2, <3>3, <3>4 DEF SelectionInv, NoneOverlooked
  <2> QED BY <1>3, <2>4, <2>5, <2>6, <2>7, <2>8 DEF W!Select
<1>4. CASE W!StockChanges
  <2>1. UNCHANGED <<items, pc, cached, uncached, todo, current, unread, able, eligible,
                    chosen>>
    BY <1>4 DEF W!StockChanges, W!choice
  <2>2. /\ steady' = steady \cap W!HavingAll(available')
        /\ seen' = seen \cup W!PairsIn(available')
    BY <1>4 DEF W!StockChanges
  <2>3. steady' \subseteq W!HavingAll(available)' /\ W!PairsIn(available)' \subseteq seen'
    BY <2>1, <2>2 DEF W!HavingAll, W!PairsIn, W!EnoughIn
  <2>4. W!Closest(eligible)' = W!Closest(eligible)
    BY <2>1 DEF W!Closest
  <2> QED BY <2>1, <2>2, <2>3, <2>4 DEF SelectionInv, NoneOverlooked
<1>5. CASE W!CacheExpires
  <2>1. UNCHANGED <<items, available, pc, todo, current, unread, able, eligible, chosen,
                    steady, seen>>
    BY <1>5 DEF W!CacheExpires, W!stock, W!choice
  <2>2. uncached' = TRUE
    BY <1>5 DEF W!CacheExpires
  <2>3. steady' \subseteq W!HavingAll(available)' /\ W!PairsIn(available)' \subseteq seen'
    BY <2>1 DEF SelectionInv, W!HavingAll, W!PairsIn, W!EnoughIn
  <2>4. W!Closest(eligible)' = W!Closest(eligible)
    BY <2>1 DEF W!Closest
  <2> QED BY <2>1, <2>2, <2>3, <2>4 DEF SelectionInv, NoneOverlooked
<1> QED BY <1>2, <1>3, <1>4, <1>5, QuietSelection DEF SelectionMoves

-----------------------------------------------------------------------------
(* What the order costs.                                                   *)

\* What a catalogue has of a product is a price and a tax code, and no more.
LEMMA EntriesAreRecords ==
    ASSUME PricingInv, NEW c \in catalogs, NEW p \in Products
    PROVE  c[p] = [price |-> c[p].price, taxCode |-> c[p].taxCode] /\ c[p].price \in Nat
<1>1. c[p] \in Entries
  BY DEF PricingInv
<1> QED BY <1>1, CheckoutAssumption

\* A line costs a natural number of cents, and so does its tax.
LEMMA LineAmounts ==
    ASSUME TypeOK, PricingInv, WellFormed, ItemsFound, NEW i \in DOMAIN items
    PROVE  /\ P!Product(i).price \in Nat
           /\ P!LineSubtotal(i) \in Nat
           /\ P!KnownCodes => P!ExactTax(i) \in Nat
<1>1. PICK c \in catalogs : \A p \in DOMAIN found : found[p] = c[p]
  BY DEF PricingInv
<1>2. items[i].product \in DOMAIN found /\ items[i].product \in Products
  BY DEF ItemsFound, TypeOK, P!TypeOK
<1>3. P!Product(i) = c[items[i].product]
  BY <1>1, <1>2 DEF P!Product
<1>4. P!Product(i).price \in Nat
  BY <1>2, <1>3, EntriesAreRecords
<1>5. items[i].quantity \in Nat
  BY ItemsAreASequence DEF TypeOK, WellFormed
<1>6. \A m, n \in Nat : m * n \in Nat
  OBVIOUS
<1>7. P!LineSubtotal(i) \in Nat
  BY <1>4, <1>5, <1>6 DEF P!LineSubtotal
<1>8. ASSUME P!KnownCodes PROVE P!ExactTax(i) \in Nat
  <2>1. \A code \in DOMAIN TaxRates : TaxRates[code] \in 0 .. 99
    BY CheckoutAssumption
  <2>2. TaxRates[P!Product(i).taxCode] \in Nat
    BY <1>8, <2>1 DEF P!KnownCodes
  <2> QED BY <1>6, <1>7, <2>2 DEF P!ExactTax
<1> QED BY <1>4, <1>7, <1>8

\* One addition of doubles loses less than half a cent.
LEMMA ImprecisionIsSmall == Imprecision \in Nat /\ Imprecision < 50
<1>1. Imprecision \in 0 .. 49
  BY CheckoutAssumption, Zenon
<1> QED BY <1>1

\* round2 recovers the cents from a sum of doubles: all that was lost in the
\* additions is less than half a cent.
LEMMA RoundingRecovers ==
    ASSUME NEW cents \in Nat, NEW additions \in Nat, additions * Imprecision < 50
    PROVE  P!Round2(P!Doubles(cents, additions)) = {cents}
<1> DEFINE lost == additions * Imprecision
<1>1. lost \in Nat /\ lost < 50
  <2>1. \A m, n \in Nat : m * n \in Nat
    OBVIOUS
  <2> QED BY <2>1, ImprecisionIsSmall
<1>2. P!Doubles(cents, additions) = 100 * cents - lost .. 100 * cents + lost
  BY DEF P!Doubles
<1> HIDE DEF lost
<1>3. \A n \in 100 * cents - lost .. 100 * cents + lost : P!Rounded(n) \subseteq {cents}
  BY <1>1 DEF P!Rounded
<1>4. cents \in P!Rounded(100 * cents)
  BY DEF P!Rounded
<1>5. 100 * cents \in 100 * cents - lost .. 100 * cents + lost
  BY <1>1
<1> QED BY <1>2, <1>3, <1>4, <1>5 DEF P!Round2

\* The taxes of the lines are natural numbers, and whatever the doubles lose, the
\* amounts are the sums of what the lines were rounded to.
LEMMA AmountsAreSums ==
    ASSUME TypeOK, PricingInv, WellFormed, ItemsFound, P!KnownCodes,
           NEW taxes \in P!Breakdowns, NEW subtotal \in P!Subtotals,
           NEW tax \in P!TotalTaxes(taxes), NEW total \in P!GrandTotals(subtotal, tax)
    PROVE  /\ taxes \in [DOMAIN items -> Nat]
           /\ subtotal \in Nat /\ tax \in Nat /\ total = subtotal + tax
           /\ subtotal = P!SumFunction([i \in DOMAIN items |-> P!LineSubtotal(i)])
           /\ tax = P!SumFunction(taxes)
<1>1. items \in Bodies
  BY DEF TypeOK
<1>2. \A n \in Nat : P!Rounded(n) \subseteq Nat
  BY DEF P!Rounded
<1>3. taxes \in [DOMAIN items -> Nat]
  <2>1. DOMAIN taxes = DOMAIN items /\ taxes = [i \in DOMAIN items |-> taxes[i]]
    BY DEF P!Breakdowns
  <2>2. \A i \in DOMAIN items : taxes[i] \in P!Rounded(P!ExactTax(i))
    BY DEF P!Breakdowns
  <2>3. \A i \in DOMAIN items : taxes[i] \in Nat
    BY <1>2, <2>2, LineAmounts
  <2> QED BY <2>1, <2>3
<1>4. Len(items) \in Nat /\ Len(items) * Imprecision < 50 /\ P!Len(items) = Len(items)
  BY <1>1, CheckoutAssumption
<1>5. /\ subtotal \in Nat
      /\ subtotal = P!SumFunction([i \in DOMAIN items |-> P!LineSubtotal(i)])
  <2> DEFINE net == [i \in DOMAIN items |-> P!LineSubtotal(i)]
  <2>1. DOMAIN net = DOMAIN items /\ IsFiniteSet(DOMAIN net)
    BY <1>1, ItemsAreASequence
  <2>2. \A i \in DOMAIN net : net[i] \in Nat
    BY LineAmounts
  <2>3. P!SumFunction(net) \in Nat
    <3> HIDE DEF net
    <3> QED BY <2>1, <2>2, SumOfNumbers
  <2>4. subtotal \in P!Round2(P!Doubles(P!SumFunction(net), Len(items)))
    BY DEF P!Subtotals
  <2> HIDE DEF net
  <2>5. subtotal = P!SumFunction(net)
    BY <1>4, <2>3, <2>4, RoundingRecovers
  <2> QED BY <2>3, <2>5 DEF net
<1>6. tax \in Nat /\ tax = P!SumFunction(taxes)
  <2>1. DOMAIN taxes = DOMAIN items /\ IsFiniteSet(DOMAIN taxes)
    BY <1>1, <1>3, ItemsAreASequence
  <2>2. P!SumFunction(taxes) \in Nat
    BY <1>3, <2>1, SumOfNumbers
  <2>3. tax \in P!Round2(P!Doubles(P!SumFunction(taxes), Len(items)))
    BY DEF P!TotalTaxes
  <2> QED BY <1>4, <2>2, <2>3, RoundingRecovers
<1>7. total = subtotal + tax
  <2>1. 1 * Imprecision < 50
    BY ImprecisionIsSmall
  <2>2. subtotal + tax \in Nat
    BY <1>5, <1>6
  <2>3. total \in P!Round2(P!Doubles(subtotal + tax, 1))
    BY DEF P!GrandTotals
  <2> QED BY <2>1, <2>2, <2>3, RoundingRecovers
<1> QED BY <1>3, <1>5, <1>6, <1>7

\* What pricing keeps its types: at most one order, and amounts in whole cents.
LEMMA PricingTypes ==
    ASSUME TypeOK, PhaseInv, PricingInv, [Next]_vars
    PROVE  P!TypeOK' /\ charged' \in Nat
<1> USE DEF Over, Selecting, Reserving, Priced, Written
<1>1. P!TypeOK /\ charged \in Nat
  BY DEF TypeOK
<1>2. CASE UNCHANGED <<items, pricing, charged>>
  BY <1>1, <1>2 DEF pricing, P!TypeOK
<1>3. CASE ValidateBody
  BY <1>1, <1>3 DEF ValidateBody, pricing, P!TypeOK
<1>4. CASE Charge
  BY <1>1, <1>4 DEF Charge, pricing, P!TypeOK, P!AmountsOf
<1>5. CASE PricingMoves /\ UNCHANGED <<charged, answer>>
  <2>1. CASE P!FindProducts
    <3>1. UNCHANGED <<catalog, amounts, orders>> /\ DOMAIN found' = P!Wanted \cap Products
      BY <2>1 DEF P!FindProducts
    <3> QED BY <1>1, <1>5, <3>1 DEF P!TypeOK
  <2>2. CASE P!AssertTaxClosed \/ P!UnknownTaxCode \/ P!PricingFails
    BY <1>1, <1>5, <2>2 DEF P!AssertTaxClosed, P!UnknownTaxCode, P!PricingFails, P!TypeOK
  <2>3. CASE P!CalculateTax
    <3>1. WellFormed /\ ItemsFound /\ P!KnownCodes
      BY <2>3 DEF P!CalculateTax, P!Goto, PricingInv
    <3>2. /\ amounts' = [subtotal |-> amounts'.subtotal, tax |-> amounts'.tax,
                         total |-> amounts'.total]
          /\ \E taxes \in P!Breakdowns :
               /\ amounts'.subtotal \in P!Subtotals
               /\ amounts'.tax \in P!TotalTaxes(taxes)
               /\ amounts'.total \in P!GrandTotals(amounts'.subtotal, amounts'.tax)
      BY <2>3 DEF P!CalculateTax
    <3>3. /\ amounts'.subtotal \in Nat /\ amounts'.tax \in Nat
          /\ amounts'.total = amounts'.subtotal + amounts'.tax
      BY <3>1, <3>2, AmountsAreSums
    <3>5. amounts' \in P!AmountsOf(Nat)
      BY <3>2, <3>3 DEF P!AmountsOf
    <3>4. UNCHANGED <<catalog, found, orders>>
      BY <2>3 DEF P!CalculateTax
    <3> QED BY <1>1, <1>5, <3>4, <3>5 DEF P!TypeOK, P!AmountsOf
  <2>4. CASE P!PersistOrder
    <3>1. UNCHANGED <<catalog, found, amounts>> /\ \E o : orders' = {o}
      BY <2>4 DEF P!PersistOrder
    <3>2. Cardinality(orders') = 1
      BY <3>1, FS_Singleton
    <3>3. P!Cardinality(orders') = 1
      BY <3>2 DEF Cardinality, P!Cardinality
    <3> QED BY <1>1, <1>5, <3>1, <3>3 DEF P!TypeOK, P!AmountsOf
  <2>5. CASE P!CatalogChanges
    <3>1. UNCHANGED <<found, amounts, orders>> /\ catalog' \in [Products -> Entries]
      <4>1. PICK p \in Products, entry \in Entries :
              catalog' = [catalog EXCEPT ![p] = entry]
        BY <2>5 DEF P!CatalogChanges
      <4> QED BY <1>1, <2>5, <4>1 DEF P!CatalogChanges, P!TypeOK
    <3> QED BY <1>1, <1>5, <3>1 DEF P!TypeOK, P!AmountsOf
  <2> QED BY <1>5, <2>1, <2>2, <2>3, <2>4, <2>5 DEF PricingMoves, P!Price
<1> QED BY <1>2, <1>3, <1>4, <1>5, QuietPricing

\* The types of the whole request.
LEMMA TypesStep ==
    ASSUME TypeOK, PhaseInv, SelectionInv, PricingInv, [Next]_vars
    PROVE  TypeOK'
<1>1. items' \in Bodies
  BY RequestSteps DEF TypeOK
<1>2. unreserved' \subseteq DOMAIN items /\ items' = items
  <2>1. unreserved' \subseteq unreserved \/ unreserved' = DOMAIN items
    BY DEF Next, vars, ending, ValidateBody, SelectWarehouse, PriceOrder, StartReserving,
         ReserveItem, FinishReserving, AssertPaymentClosed, Charge, Answer, WorldChanges,
         ToggleCircuit
  <2> QED BY <2>1, RequestSteps DEF TypeOK
<1>3. answer' \in {0, 201, 400, 402, 409, 422, 500, 503}
  <2>1. answer' = answer \/ answer' \in {201, 400} \/ answer' = StatusFor(failure)
    BY DEF Next, vars, ending, ValidateBody, SelectWarehouse, PriceOrder, StartReserving,
         ReserveItem, FinishReserving, AssertPaymentClosed, Charge, Answer, WorldChanges,
         ToggleCircuit
  <2>2. StatusFor(failure) \in {402, 409, 422, 500, 503}
    BY DEF StatusFor
  <2> QED BY <2>1, <2>2 DEF TypeOK
<1> QED BY <1>1, <1>2, <1>3, SelectionTypes, PricingTypes DEF TypeOK

\* Lines and amounts are those of the items at what was found, when the tax has
\* been calculated: the total is the sum of what was rounded line by line, though
\* it is rounded from a sum of doubles, as both its parts are.
LEMMA LinesStep ==
    ASSUME TypeOK, PricingInv, P!CalculateTax
    PROVE  LinesPriced'
<1>1. WellFormed /\ ItemsFound /\ P!KnownCodes
  BY DEF P!CalculateTax, P!Goto, PricingInv, Over
<1>2. PICK taxes \in P!Breakdowns :
        /\ lines' = [i \in DOMAIN items |->
                       [product |-> items[i].product, quantity |-> items[i].quantity,
                        unitPrice |-> P!Product(i).price, taxCode |-> P!Product(i).taxCode,
                        subtotal |-> P!LineSubtotal(i), tax |-> taxes[i]]]
        /\ amounts'.subtotal \in P!Subtotals
        /\ amounts'.tax \in P!TotalTaxes(taxes)
        /\ amounts'.total \in P!GrandTotals(amounts'.subtotal, amounts'.tax)
  BY DEF P!CalculateTax
<1>3. UNCHANGED <<items, found>>
  BY DEF P!CalculateTax
<1>4. /\ DOMAIN lines' = DOMAIN items
      /\ \A i \in DOMAIN items :
           /\ lines'[i].product = items[i].product
           /\ lines'[i].unitPrice = P!Product(i).price
           /\ lines'[i].taxCode = P!Product(i).taxCode
           /\ lines'[i].subtotal = P!LineSubtotal(i)
           /\ lines'[i].unitPrice * lines'[i].quantity = P!LineSubtotal(i)
           /\ lines'[i].tax = taxes[i]
           /\ lines'[i].quantity = items[i].quantity
  BY <1>2 DEF P!LineSubtotal
<1>5. \A i \in DOMAIN items :
         /\ lines'[i].taxCode \in DOMAIN TaxRates
         /\ lines'[i].tax \in P!Rounded(TaxRates[lines'[i].taxCode] * lines'[i].subtotal)
  BY <1>1, <1>4 DEF P!Breakdowns, P!ExactTax, P!KnownCodes
<1>6. [i \in DOMAIN items |-> P!LineSubtotal(i)]
        = [i \in DOMAIN lines' |-> lines'[i].unitPrice * lines'[i].quantity]
  BY <1>4
<1>7. taxes = [i \in DOMAIN lines' |-> lines'[i].tax]
  <2>1. taxes = [i \in DOMAIN items |-> taxes[i]]
    BY DEF P!Breakdowns
  <2> QED BY <1>4, <2>1
<1>8. /\ amounts'.subtotal = P!SumFunction([i \in DOMAIN items |-> P!LineSubtotal(i)])
      /\ amounts'.tax = P!SumFunction(taxes)
      /\ amounts'.total = amounts'.subtotal + amounts'.tax
  BY <1>1, <1>2, AmountsAreSums
<1>9. /\ amounts'.subtotal =
           P!SumFunction([i \in DOMAIN lines' |-> lines'[i].unitPrice * lines'[i].quantity])
      /\ amounts'.tax = P!SumFunction([i \in DOMAIN lines' |-> lines'[i].tax])
  BY <1>6, <1>7, <1>8
<1>10. \A i \in DOMAIN items' : P!Product(i)' = P!Product(i)
  BY <1>3 DEF P!Product
<1> QED BY <1>3, <1>4, <1>8, <1>9, <1>10, <1>5 DEF LinesPriced, P!TotalCheck

\* What was found stays what one catalogue had, and the lines what they were made
\* of, whatever the catalogue changes to meanwhile.
LEMMA PricingStep ==
    ASSUME TypeOK, PhaseInv, PricingInv, [Next]_vars
    PROVE  PricingInv'
<1> USE DEF Over, Selecting, Reserving, Priced, Written
<1>1. P!TypeOK
  BY DEF TypeOK
<1>2. CASE ValidateBody
  <2>1. UNCHANGED <<items, catalog, found, lines, amounts, orders, catalogs, charged>>
    BY <1>2 DEF ValidateBody, pricing
  <2>2. /\ pc = "received"
        /\ pc' = "answered" \/ (pc' = "arrived" /\ WellFormed)
    BY <1>2 DEF ValidateBody
  <2> QED BY <2>1, <2>2 DEF PricingInv, WellFormed
<1>3. CASE Charge
  <2>1. UNCHANGED <<items, catalog, found, lines, amounts, orders, catalogs>>
    BY <1>3 DEF Charge, pricing
  <2>2. charged' = amounts.total /\ pc = "charging" /\ pc' \in {"placed", "failed"}
    BY <1>3 DEF Charge, W!Goto, W!Fail
  <2>3. WellFormed' = WellFormed /\ ItemsFound' = ItemsFound
          /\ LinesPriced' = LinesPriced
    BY <2>1 DEF WellFormed, ItemsFound, LinesPriced, P!Product, P!TotalCheck
  <2> QED BY <2>1, <2>2, <2>3 DEF PricingInv
<1>4. CASE /\ UNCHANGED <<items, pricing, charged>>
           /\ \/ pc' \in Over
              \/ pc' = pc
              \/ pc \in Selecting \cup Reserving /\ pc' \in Selecting \cup Reserving
              \/ pc = "persisted" /\ pc' = "charging"
  <2>1. UNCHANGED <<items, catalog, found, lines, amounts, orders, catalogs, charged>>
    BY <1>4 DEF pricing
  <2>2. WellFormed' = WellFormed /\ ItemsFound' = ItemsFound
          /\ LinesPriced' = LinesPriced
    BY <2>1 DEF WellFormed, ItemsFound, LinesPriced, P!Product, P!TotalCheck
  <2> QED BY <1>4, <2>1, <2>2 DEF PricingInv
<1>5. CASE PricingMoves /\ UNCHANGED <<charged, answer>>
  <2>1. CASE P!FindProducts
    <3>1. UNCHANGED <<items, catalog, lines, amounts, orders, catalogs, charged>>
      BY <1>5, <2>1 DEF P!FindProducts
    <3>2. pc = "arrived" /\ found' = [p \in P!Wanted \cap Products |-> catalog[p]]
      BY <2>1 DEF P!FindProducts
    <3>3. \/ pc' = "geocoding" /\ P!AllFound(P!Wanted \cap Products)
          \/ pc' = "failed"
      BY <2>1 DEF P!FindProducts, P!Goto, P!Fail
    <3>4. \E c \in catalogs' : \A p \in DOMAIN found' : found'[p] = c[p]
      BY <3>1, <3>2 DEF PricingInv
    <3>5. pc' = "geocoding" => ItemsFound'
      <4>1. SUFFICES ASSUME pc' = "geocoding" PROVE ItemsFound'
        OBVIOUS
      <4>2. /\ \A i \in DOMAIN items : items[i].product \in Products
            /\ \A i, j \in DOMAIN items : items[i].product = items[j].product => i = j
        BY <3>3, <4>1, FoundOnceEach DEF TypeOK
      <4>3. \A i \in DOMAIN items : items[i].product \in DOMAIN found'
        BY <3>2, <4>2 DEF P!Wanted
      <4> QED BY <3>1, <4>2, <4>3 DEF ItemsFound
    <3>6. WellFormed' = WellFormed
      BY <3>1 DEF WellFormed
    <3> QED BY <3>1, <3>2, <3>3, <3>4, <3>5, <3>6 DEF PricingInv
  <2>2. CASE P!AssertTaxClosed \/ P!UnknownTaxCode \/ P!PricingFails
    <3>1. UNCHANGED <<items, catalog, found, lines, amounts, orders, catalogs, charged>>
      BY <1>5, <2>2 DEF P!AssertTaxClosed, P!UnknownTaxCode, P!PricingFails
    <3>2. (pc = "reserved" /\ pc' = "taxing") \/ pc' = "failed"
      BY <2>2 DEF P!AssertTaxClosed, P!UnknownTaxCode, P!PricingFails, P!Goto, P!Fail
    <3>3. WellFormed' = WellFormed /\ ItemsFound' = ItemsFound
      BY <3>1 DEF WellFormed, ItemsFound
    <3> QED BY <3>1, <3>2, <3>3 DEF PricingInv
  <2>3. CASE P!CalculateTax
    <3>1. UNCHANGED <<items, catalog, found, orders, catalogs, charged>>
      BY <1>5, <2>3 DEF P!CalculateTax
    <3>2. pc = "taxing" /\ pc' = "taxed"
      BY <2>3 DEF P!CalculateTax, P!Goto
    <3>3. WellFormed' = WellFormed /\ ItemsFound' = ItemsFound /\ LinesPriced'
      BY <2>3, <3>1, LinesStep DEF WellFormed, ItemsFound
    <3>4. orders = {}
      BY <3>2 DEF PricingInv
    <3> QED BY <3>1, <3>2, <3>3, <3>4 DEF PricingInv
  <2>4. CASE P!PersistOrder
    <3>1. UNCHANGED <<items, catalog, found, lines, amounts, catalogs, charged>>
      BY <1>5, <2>4 DEF P!PersistOrder
    <3>2. pc = "taxed" /\ pc' = "persisted"
      BY <2>4 DEF P!PersistOrder, P!Goto
    <3>3. WellFormed' = WellFormed /\ ItemsFound' = ItemsFound
            /\ LinesPriced' = LinesPriced
      BY <3>1 DEF WellFormed, ItemsFound, LinesPriced, P!Product, P!TotalCheck
    <3>4. orders' # {} /\ \A o \in orders' : o.amounts = amounts
      BY <2>4 DEF P!PersistOrder
    <3> QED BY <3>1, <3>2, <3>3, <3>4 DEF PricingInv
  <2>5. CASE P!CatalogChanges
    <3>1. UNCHANGED <<items, pc, found, lines, amounts, orders, charged>>
      BY <1>5, <2>5 DEF P!CatalogChanges
    <3>2. catalogs' = catalogs \cup {catalog'} /\ catalog' \in [Products -> Entries]
      <4>1. PICK p \in Products, entry \in Entries :
              catalog' = [catalog EXCEPT ![p] = entry]
        BY <2>5 DEF P!CatalogChanges
      <4> QED BY <1>1, <2>5, <4>1 DEF P!CatalogChanges, P!TypeOK
    <3>3. WellFormed' = WellFormed /\ ItemsFound' = ItemsFound
            /\ LinesPriced' = LinesPriced
      BY <3>1 DEF WellFormed, ItemsFound, LinesPriced, P!Product, P!TotalCheck
    <3> QED BY <3>1, <3>2, <3>3 DEF PricingInv
  <2> QED BY <1>5, <2>1, <2>2, <2>3, <2>4, <2>5 DEF PricingMoves, P!Price
<1> QED BY <1>2, <1>3, <1>4, <1>5, QuietPricing

\* What an order says of itself.
OrderIsSound(o) ==
    /\ \E c \in catalogs : \A i \in DOMAIN o.items :
         c[o.items[i].product] =
           [price |-> o.items[i].unitPrice, taxCode |-> o.items[i].taxCode]
    /\ o.amounts.subtotal =
         P!SumFunction([i \in DOMAIN o.items |-> o.items[i].unitPrice * o.items[i].quantity])
    /\ o.amounts.tax = P!SumFunction([i \in DOMAIN o.items |-> o.items[i].tax])
    /\ Near(o.amounts.tax,
            P!SumFunction([i \in DOMAIN o.items |-> TaxRates[o.items[i].taxCode]
                             * (o.items[i].unitPrice * o.items[i].quantity)]),
            50 * P!Cardinality(DOMAIN o.items))
    /\ o.receipt.amounts = o.amounts
    /\ \A i \in DOMAIN o.items :
         o.receipt.lines[i].subtotal = o.items[i].unitPrice * o.items[i].quantity
    /\ o.items # << >>
    /\ \A i, j \in DOMAIN o.items : o.items[i].product = o.items[j].product => i = j

\* The properties of the orders, order by order.
LEMMA SoundOrders ==
    (PricedAtOneMoment /\ BooksAgree /\ TaxNearlyExact /\ OneLinePerProduct)
      <=> \A o \in orders : OrderIsSound(o)
BY DEF OrderIsSound, PricedAtOneMoment, BooksAgree, TaxNearlyExact, OneLinePerProduct,
       P!PricedAtOneMoment, P!BooksAgree, P!TaxNearlyExact, P!OneLinePerProduct, Near

\* The order that is written says what its lines and amounts say.
LEMMA WrittenOrderIsSound ==
    ASSUME TypeOK, PricingInv, P!PersistOrder, NEW o \in orders'
    PROVE  OrderIsSound(o)
<1>1. pc = "taxed"
  BY DEF P!PersistOrder, P!Goto
<1>2. WellFormed /\ ItemsFound /\ LinesPriced
  BY <1>1 DEF PricingInv, Over, Priced
<1>3. /\ o.amounts = amounts
      /\ o.items = [i \in DOMAIN lines |->
                      [product |-> lines[i].product, quantity |-> lines[i].quantity,
                       unitPrice |-> lines[i].unitPrice, taxCode |-> lines[i].taxCode,
                       tax |-> lines[i].tax]]
      /\ o.receipt.lines = lines /\ o.receipt.amounts = amounts
  BY DEF P!PersistOrder
<1>4. /\ DOMAIN o.items = DOMAIN items
      /\ \A i \in DOMAIN items :
           /\ o.items[i].product = items[i].product
           /\ o.items[i].unitPrice = lines[i].unitPrice
           /\ o.items[i].taxCode = lines[i].taxCode
           /\ o.items[i].quantity = lines[i].quantity
           /\ o.items[i].tax = lines[i].tax
  BY <1>2, <1>3 DEF LinesPriced
<1>5. PICK c \in catalogs : \A p \in DOMAIN found : found[p] = c[p]
  BY DEF PricingInv
<1>6. ASSUME NEW i \in DOMAIN items
      PROVE  c[o.items[i].product] =
               [price |-> o.items[i].unitPrice, taxCode |-> o.items[i].taxCode]
  <2>1. items[i].product \in DOMAIN found /\ items[i].product \in Products
    BY <1>2 DEF ItemsFound, TypeOK, P!TypeOK
  <2>2. c[items[i].product] = P!Product(i)
    BY <1>5, <2>1 DEF P!Product
  <2>3. P!Product(i) = [price |-> P!Product(i).price, taxCode |-> P!Product(i).taxCode]
    BY <2>1, <2>2, EntriesAreRecords
  <2>4. o.items[i].unitPrice = P!Product(i).price
          /\ o.items[i].taxCode = P!Product(i).taxCode
    BY <1>2, <1>4 DEF LinesPriced
  <2> QED BY <1>4, <2>2, <2>3, <2>4
<1>7. [i \in DOMAIN o.items |-> o.items[i].unitPrice * o.items[i].quantity]
        = [i \in DOMAIN lines |-> lines[i].unitPrice * lines[i].quantity]
  BY <1>2, <1>4 DEF LinesPriced
<1>8. [i \in DOMAIN o.items |-> o.items[i].tax] = [i \in DOMAIN lines |-> lines[i].tax]
  BY <1>2, <1>4 DEF LinesPriced
<1>9. /\ o.amounts.subtotal = P!SumFunction(
           [i \in DOMAIN o.items |-> o.items[i].unitPrice * o.items[i].quantity])
      /\ o.amounts.tax = P!SumFunction([i \in DOMAIN o.items |-> o.items[i].tax])
  BY <1>2, <1>3, <1>7, <1>8 DEF LinesPriced
<1> DEFINE exact == [i \in DOMAIN o.items |-> TaxRates[o.items[i].taxCode]
                                * (o.items[i].unitPrice * o.items[i].quantity)]
           tax == [i \in DOMAIN o.items |-> o.items[i].tax]
<1>10. /\ DOMAIN tax = DOMAIN o.items /\ DOMAIN exact = DOMAIN o.items
       /\ IsFiniteSet(DOMAIN o.items)
  BY <1>4, ItemsAreASequence DEF TypeOK
<1>11. ASSUME NEW i \in DOMAIN o.items
       PROVE  tax[i] \in Nat /\ exact[i] \in Nat /\ Near(tax[i], exact[i], 50)
  <2>1. /\ lines[i].tax \in P!Rounded(TaxRates[lines[i].taxCode] * lines[i].subtotal)
        /\ lines[i].subtotal = lines[i].unitPrice * lines[i].quantity
    BY <1>2, <1>4 DEF LinesPriced
  <2>2. tax[i] = lines[i].tax /\ exact[i] = TaxRates[lines[i].taxCode] * lines[i].subtotal
    BY <1>4, <2>1
  <2>3. exact[i] \in Nat
    <3>1. lines[i].subtotal = P!LineSubtotal(i) /\ lines[i].subtotal \in Nat
      BY <1>2, <1>4, LineAmounts DEF LinesPriced, P!LineSubtotal
    <3>2. TaxRates[lines[i].taxCode] \in Nat
      <4>1. \A code \in DOMAIN TaxRates : TaxRates[code] \in 0 .. 99
        BY CheckoutAssumption
      <4> QED BY <1>2, <1>4, <4>1 DEF LinesPriced
    <3>3. \A m, n \in Nat : m * n \in Nat
      OBVIOUS
    <3> HIDE DEF exact
    <3> QED BY <2>2, <3>1, <3>2, <3>3
  <2> HIDE DEF tax, exact
  <2> QED BY <2>1, <2>2, <2>3 DEF P!Rounded, Near
<1>12. Near(o.amounts.tax, P!SumFunction(exact), 50 * P!Cardinality(DOMAIN o.items))
  <2>1. P!Cardinality(DOMAIN o.items) = Cardinality(DOMAIN o.items)
    BY DEF Cardinality, P!Cardinality
  <2>2. o.amounts.tax = P!SumFunction(tax)
    BY <1>9
  <2> HIDE DEF tax, exact
  <2> QED BY <1>10, <1>11, <2>1, <2>2, SumsAreNear
<1>13. \A i \in DOMAIN o.items :
         o.receipt.lines[i].subtotal = o.items[i].unitPrice * o.items[i].quantity
  BY <1>2, <1>3, <1>4 DEF LinesPriced
<1>14. DOMAIN o.items # {}
  BY <1>2, <1>4, ItemsAreASequence DEF WellFormed, TypeOK
<1>15. o.items # << >>
  BY <1>14
<1>16. \A i, j \in DOMAIN o.items : o.items[i].product = o.items[j].product => i = j
  BY <1>2, <1>4 DEF ItemsFound
<1>17. \E d \in catalogs : \A i \in DOMAIN o.items :
         d[o.items[i].product] =
           [price |-> o.items[i].unitPrice, taxCode |-> o.items[i].taxCode]
  BY <1>4, <1>6
<1>18. o.receipt.amounts = o.amounts
  BY <1>3
<1> QED BY <1>9, <1>13, <1>15, <1>16, <1>12, <1>17, <1>18, Zenon DEF OrderIsSound

\* Orders stay sound: none is changed, and no catalogue is forgotten.
LEMMA SoundStep ==
    ASSUME TypeOK, PhaseInv, PricingInv, [Next]_vars,
           PricedAtOneMoment, BooksAgree, TaxNearlyExact, OneLinePerProduct
    PROVE  PricedAtOneMoment' /\ BooksAgree' /\ TaxNearlyExact' /\ OneLinePerProduct'
<1>1. catalogs \subseteq catalogs' /\ (orders' = orders \/ P!PersistOrder)
  BY QuietPricing DEF pricing, ValidateBody, Charge, PricingMoves, P!Price,
     P!FindProducts, P!AssertTaxClosed, P!CalculateTax, P!UnknownTaxCode, P!PersistOrder,
     P!PricingFails, P!CatalogChanges
<1>2. \A o \in orders' : OrderIsSound(o)
  BY <1>1, SoundOrders, WrittenOrderIsSound
<1>3. \A o \in orders' : OrderIsSound(o)'
  BY <1>1, <1>2 DEF OrderIsSound
<1> QED BY <1>3 DEF OrderIsSound, PricedAtOneMoment, BooksAgree, TaxNearlyExact,
       OneLinePerProduct, P!PricedAtOneMoment, P!BooksAgree, P!TaxNearlyExact,
       P!OneLinePerProduct, Near

-----------------------------------------------------------------------------
(* What the client is told.                                                *)

\* A failure says the same of its stage for as long as the request exists.
LEMMA FailureStep ==
    ASSUME TypeOK, PhaseInv, SelectionInv, PricingInv, FailureInv, [Next]_vars
    PROVE  FailureInv'
<1> USE DEF Over, Selecting, Reserving, Priced, Written, Before
<1>1. CASE failure # "none"
  <2>1. pc \in Over /\ failure' = failure
    BY <1>1, RequestSteps DEF PhaseInv
  <2>2. CASE UNCHANGED vars
    BY <2>2 DEF vars, selection, pricing, around, FailureInv
  <2>3. CASE Answer
    BY <2>1, <2>3 DEF Answer, selection, pricing, around, FailureInv
  <2> QED BY <2>1, <2>2, <2>3 DEF Next, ValidateBody, SelectWarehouse, PriceOrder,
         StartReserving, ReserveItem, FinishReserving, AssertPaymentClosed, Charge,
         WorldChanges, W!Goto, W!Select, W!LookUp, W!AssertGeocodingClosed, W!Geocode,
         W!FillCache, W!AskWarehouse, W!ReadAvailable, W!FinishWarehouse,
         W!ChooseWarehouse, W!NoWarehouseAvailable, W!SelectionFails, P!Price,
         P!FindProducts, P!AssertTaxClosed, P!CalculateTax, P!UnknownTaxCode,
         P!PersistOrder, P!PricingFails, P!Goto
<1>2. CASE failure = "none" /\ failure' = "none"
  BY <1>2 DEF FailureInv
<1>3. CASE failure = "none" /\ failure' # "none"
  <2>1. CASE SelectWarehouse
    <3>1. UNCHANGED orders
      BY <2>1 DEF SelectWarehouse, pricing
    <3>2. CASE W!AssertGeocodingClosed
      <4>1. /\ pc = "missed" /\ "geocoding" \in circuits /\ failure' = "CircuitOpen"
            /\ UNCHANGED <<chosen, uncached, opened>>
        BY <1>3, <2>1, <3>2 DEF W!AssertGeocodingClosed, W!Goto, W!Fail, W!choice,
           SelectWarehouse, around
      <4> QED BY <3>1, <4>1 DEF FailureInv, PhaseInv, SelectionInv, PricingInv
    <3>3. CASE W!NoWarehouseAvailable
      <4>1. /\ pc = "reading" /\ todo = {} /\ current = NoWarehouse /\ eligible = {}
            /\ failure' = "NoWarehouseAvailable" /\ UNCHANGED <<chosen, steady>>
        BY <3>3 DEF W!NoWarehouseAvailable, W!Fail, W!choice, W!stock
      <4>2. steady \subseteq Warehouses
        BY DEF SelectionInv, W!HavingAll
      <4>3. steady = {}
        BY <4>1, <4>2, CheckoutAssumption DEF SelectionInv, NoneOverlooked
      <4> QED BY <3>1, <4>1, <4>3 DEF FailureInv, SelectionInv, PricingInv
    <3>4. CASE W!SelectionFails
      BY <3>4 DEF W!SelectionFails, W!Fail, FailureInv
    <3> QED BY <1>3, <2>1, <3>2, <3>3, <3>4 DEF SelectWarehouse, W!Select, W!LookUp,
           W!Geocode, W!FillCache, W!AskWarehouse, W!ReadAvailable, W!FinishWarehouse,
           W!ChooseWarehouse, W!Goto
  <2>2. CASE PriceOrder
    <3>1. UNCHANGED <<chosen, opened>>
      BY <2>2 DEF PriceOrder, selection, around
    <3>2. CASE P!AssertTaxClosed
      <4>1. /\ pc = "reserved" /\ "tax" \in circuits /\ failure' = "CircuitOpen"
            /\ UNCHANGED orders
        BY <1>3, <3>2 DEF P!AssertTaxClosed, P!Goto, P!Fail
      <4> QED BY <3>1, <4>1 DEF FailureInv, PhaseInv, SelectionInv, PricingInv
    <3>3. CASE P!UnknownTaxCode
      <4>1. pc = "taxing" /\ failure' = "TaxCalculation" /\ UNCHANGED orders
        BY <3>3 DEF P!UnknownTaxCode, P!Fail
      <4> QED BY <4>1 DEF FailureInv, PricingInv
    <3>4. CASE P!FindProducts \/ P!PricingFails
      BY <1>3, <3>4 DEF P!FindProducts, P!PricingFails, P!Goto, P!Fail, FailureInv
    <3> QED BY <1>3, <2>2, <3>2, <3>3, <3>4 DEF PriceOrder, P!Price, P!CalculateTax,
           P!PersistOrder, P!Goto
  <2>3. ASSUME NEW i \in DOMAIN items, ReserveItem(i) PROVE FailureInv'
    <3>1. /\ pc = "reserving" /\ failure' = "InsufficientInventory"
          /\ ~W!EnoughIn(available, chosen, i)
          /\ UNCHANGED <<chosen, steady, orders>>
      BY <1>3, <2>3 DEF ReserveItem, W!Fail, W!Enough, selection, pricing
    <3>2. chosen # NoWarehouse /\ orders = {}
      BY <3>1 DEF SelectionInv, PricingInv
    <3>3. chosen \notin steady
      BY <3>1 DEF SelectionInv, W!HavingAll
    <3> QED BY <3>1, <3>2, <3>3 DEF FailureInv
  <2>4. CASE AssertPaymentClosed
    <3>1. /\ pc = "persisted" /\ "payment" \in circuits /\ failure' = "CircuitOpen"
          /\ UNCHANGED <<chosen, orders, opened>>
      BY <1>3, <2>4 DEF AssertPaymentClosed, W!Goto, W!Fail, selection, pricing, around
    <3> QED BY <3>1 DEF FailureInv, PhaseInv, SelectionInv, PricingInv
  <2>5. CASE Charge
    BY <1>3, <2>5 DEF Charge, W!Goto, W!Fail, FailureInv
  <2> QED BY <1>3, <2>1, <2>2, <2>3, <2>4, <2>5 DEF Next, vars, ValidateBody,
         StartReserving, FinishReserving, Answer, WorldChanges, W!Goto, W!StockChanges,
         W!CacheExpires, P!CatalogChanges, ToggleCircuit
<1> QED BY <1>1, <1>2, <1>3

\* What is answered fits what was written and charged.
LEMMA AnswerStep ==
    ASSUME PhaseInv, PricingInv, FailureInv, AnswerFitsOrder, [Next]_vars
    PROVE  AnswerFitsOrder'
<1> USE DEF Over, Selecting, Reserving, Priced, Written
<1>1. CASE UNCHANGED vars
  BY <1>1 DEF vars, pricing, ending, AnswerFitsOrder
<1>2. CASE ValidateBody
  <2>1. UNCHANGED <<orders, charged>> /\ answer' \in {answer, 400} /\ pc = "received"
    BY <1>2 DEF ValidateBody, pricing
  <2>2. orders = {} /\ charged = 0 /\ answer = 0
    BY <2>1 DEF PricingInv, PhaseInv
  <2> QED BY <2>1, <2>2 DEF AnswerFitsOrder
<1>3. CASE Answer
  <2>1. UNCHANGED <<orders, charged, amounts>>
    BY <1>3 DEF Answer, pricing
  <2>2. CASE pc = "placed" /\ answer' = 201
    BY <2>1, <2>2 DEF AnswerFitsOrder, PricingInv
  <2>3. CASE pc = "failed" /\ answer' = StatusFor(failure)
    <3>1. answer' \in {400, 409, 422} =>
            failure \in {"NoWarehouseAvailable", "InsufficientInventory", "TaxCalculation"}
      BY <2>3 DEF StatusFor
    <3>2. answer' # 201
      BY <2>3 DEF StatusFor
    <3>3. orders = {} => charged = 0
      BY DEF PricingInv
    <3> QED BY <2>1, <3>1, <3>2, <3>3 DEF AnswerFitsOrder, FailureInv
  <2> QED BY <1>3, <2>2, <2>3 DEF Answer, W!Goto
<1>4. CASE pc # "answered" /\ UNCHANGED answer
  BY <1>4 DEF PhaseInv, AnswerFitsOrder
<1>5. [Next]_vars /\ ~ValidateBody /\ ~Answer => UNCHANGED answer
  BY DEF Next, vars, ending, SelectWarehouse, PriceOrder, StartReserving,
         ReserveItem, FinishReserving, AssertPaymentClosed, Charge, WorldChanges,
         ToggleCircuit
<1> QED BY <1>1, <1>2, <1>3, <1>4, <1>5, RequestSteps

-----------------------------------------------------------------------------
(* The theorems.                                                           *)

\* A request that has just been received satisfies the invariant.
LEMMA CheckoutInit == Init => CheckoutInv
<1> SUFFICES ASSUME Init PROVE CheckoutInv
  OBVIOUS
<1>1. items \in Bodies /\ circuits = {} /\ pc = "received" /\ failure = "none"
        /\ unreserved = {} /\ charged = 0 /\ answer = 0 /\ opened = {} /\ changes = 0
  BY DEF Init
<1>2. /\ available \in [Stocked -> Levels] /\ cached \in BOOLEAN
      /\ todo = Warehouses /\ current = NoWarehouse /\ unread = {} /\ able = TRUE
      /\ eligible = {} /\ chosen = NoWarehouse
      /\ steady = W!HavingAll(available) /\ seen = W!PairsIn(available)
      /\ uncached = ~cached
  BY DEF Init, W!Init
<1>3. /\ catalog \in [Products -> Entries] /\ found = << >>
      /\ amounts = [subtotal |-> 0, tax |-> 0, total |-> 0]
      /\ orders = {} /\ catalogs = {catalog}
  BY CheckoutAssumption DEF Init, P!Init, P!NoAmounts
<1>4. P!TypeOK
  <2>1. DOMAIN found = {}
    BY <1>3
  <2>2. P!Cardinality(orders) = 0
    BY <1>3, FS_EmptySet DEF Cardinality, P!Cardinality
  <2> QED BY <1>3, <2>1, <2>2 DEF P!TypeOK, P!AmountsOf
<1>5. W!TypeOK
  BY <1>2 DEF W!TypeOK
<1>6. TypeOK
  BY <1>1, <1>4, <1>5 DEF TypeOK
<1>7. PhaseInv
  BY <1>1 DEF PhaseInv, Over, Errors
<1>8. SelectionInv
  BY <1>1, <1>2, CheckoutAssumption DEF SelectionInv, NoneOverlooked, W!HavingAll,
     Reserving, Priced
<1>9. PricingInv
  <2>1. \E c \in catalogs : \A p \in DOMAIN found : found[p] = c[p]
    BY <1>3
  <2> QED BY <1>1, <1>3, <2>1 DEF PricingInv, Priced, Written, Over
<1>10. FailureInv /\ AnswerFitsOrder
  BY <1>1 DEF FailureInv, AnswerFitsOrder
<1>11. PricedAtOneMoment /\ BooksAgree /\ TaxNearlyExact /\ OneLinePerProduct
  BY <1>3, SoundOrders
<1> QED BY <1>6, <1>7, <1>8, <1>9, <1>10, <1>11 DEF CheckoutInv

\* CheckoutInv is kept by every step of a request and of the world around it:
\* validation, the stages of OrderService.placeOrder and the answer of errorHandler,
\* between changes of stock, catalogue, circuits and cache.
THEOREM CheckoutInvariant == Spec => []CheckoutInv
<1>1. CheckoutInv /\ [Next]_vars => CheckoutInv'
  <2> SUFFICES ASSUME CheckoutInv, [Next]_vars PROVE CheckoutInv'
    OBVIOUS
  <2>1. /\ TypeOK /\ PhaseInv /\ SelectionInv /\ PricingInv /\ FailureInv
        /\ PricedAtOneMoment /\ BooksAgree /\ TaxNearlyExact /\ OneLinePerProduct
        /\ AnswerFitsOrder
    BY DEF CheckoutInv
  <2>2. TypeOK' /\ PhaseInv'
    BY <2>1, TypesStep, PhaseStep
  <2>3. SelectionInv' /\ PricingInv' /\ FailureInv'
    BY <2>1, SelectionStep, PricingStep, FailureStep
  <2>4. PricedAtOneMoment' /\ BooksAgree' /\ TaxNearlyExact' /\ OneLinePerProduct'
    BY <2>1, SoundStep
  <2>5. AnswerFitsOrder'
    BY <2>1, AnswerStep
  <2> QED BY <2>2, <2>3, <2>4, <2>5 DEF CheckoutInv
<1> QED BY <1>1, CheckoutInit, PTL DEF Spec

\* What the properties say follows from the invariant.
LEMMA InvariantImplies ==
    ASSUME CheckoutInv
    PROVE  /\ ClosestIsChosen /\ ChosenHadEveryItem
           /\ TotalCheckHolds
           /\ ConflictIsJustified /\ UnavailableIsJustified
<1>1. TypeOK /\ PhaseInv /\ SelectionInv /\ PricingInv /\ FailureInv
  BY DEF CheckoutInv
<1>2. ClosestIsChosen
  <2>1. SUFFICES ASSUME chosen # NoWarehouse, NEW w \in steady \cup {chosen}
                 PROVE  Distance[chosen] <= Distance[w]
    BY DEF ClosestIsChosen, W!ClosestIsChosen
  <2>2. chosen \in W!Closest(eligible) /\ todo = {} /\ current = NoWarehouse
    BY <1>1, <2>1 DEF SelectionInv
  <2>3. steady \subseteq Warehouses
    BY <1>1 DEF SelectionInv, W!HavingAll
  <2>4. w \in eligible
    BY <1>1, <2>2, <2>3, CheckoutAssumption DEF SelectionInv, NoneOverlooked, W!Closest
  <2> QED BY <2>2, <2>4 DEF W!Closest
<1>3. ChosenHadEveryItem
  BY <1>1 DEF SelectionInv, ChosenHadEveryItem, W!ChosenHadEveryItem, W!Closest
<1>4. TotalCheckHolds
  BY <1>1 DEF PricingInv, Priced, LinesPriced, TotalCheckHolds, P!TotalCheckHolds
<1>5. ConflictIsJustified
  <2>1. answer = 409 => failure \in {"NoWarehouseAvailable", "InsufficientInventory"}
    BY <1>1 DEF PhaseInv, Errors, StatusFor
  <2> QED BY <1>1, <2>1 DEF FailureInv, ConflictIsJustified
<1>6. UnavailableIsJustified
  <2>1. answer = 503 => failure = "CircuitOpen"
    BY <1>1 DEF PhaseInv, Errors, StatusFor
  <2> QED BY <1>1, <2>1 DEF FailureInv, UnavailableIsJustified
<1> QED BY <1>2, <1>3, <1>4, <1>5, <1>6

\* Every variable of a request keeps its type; in particular the amounts are whole
\* cents, however many lines are added up.
THEOREM CheckoutTypeCorrect == Spec => []TypeOK
<1>1. CheckoutInv => TypeOK
  BY DEF CheckoutInv
<1> QED BY <1>1, CheckoutInvariant, PTL

\* findClosestToFulfill: no warehouse that had everything throughout is closer than
\* the chosen one.
THEOREM ClosestWarehouseIsChosen == Spec => []ClosestIsChosen
<1>1. CheckoutInv => ClosestIsChosen
  BY InvariantImplies
<1> QED BY <1>1, CheckoutInvariant, PTL

\* findClosestToFulfill: each item was in the chosen warehouse at some moment.
THEOREM ChosenWarehouseHadEveryItem == Spec => []ChosenHadEveryItem
<1>1. CheckoutInv => ChosenHadEveryItem
  BY InvariantImplies
<1> QED BY <1>1, CheckoutInvariant, PTL

\* persistOrder: the prices and tax codes of an order are those of one moment of its
\* request.
THEOREM OrderIsPricedAtOneMoment == Spec => []PricedAtOneMoment
<1>1. CheckoutInv => PricedAtOneMoment
  BY DEF CheckoutInv
<1> QED BY <1>1, CheckoutInvariant, PTL

\* persistOrder: the order, its items and its receipt agree to the cent.
THEOREM OrderItemsAndReceiptAgree == Spec => []BooksAgree
<1>1. CheckoutInv => BooksAgree
  BY DEF CheckoutInv
<1> QED BY <1>1, CheckoutInvariant, PTL

\* TaxGateway.calculate and persistOrder: the tax of an order is the exact one but for
\* half a cent per line, for any number of lines and whichever way halves are rounded.
THEOREM TaxIsNearlyExact == Spec => []TaxNearlyExact
<1>1. CheckoutInv => TaxNearlyExact
  BY DEF CheckoutInv
<1> QED BY <1>1, CheckoutInvariant, PTL

\* validateItemsToOrder: an order has lines, and no two of the same product.
THEOREM NoProductTwice == Spec => []OneLinePerProduct
<1>1. CheckoutInv => OneLinePerProduct
  BY DEF CheckoutInv
<1> QED BY <1>1, CheckoutInvariant, PTL

\* orders_total_check never rejects the order of a customer: subtotal, tax and total
\* are each rounded to the cent they would have without doubles, for any number of
\* lines whose additions lose less than half a cent together.
THEOREM TotalCheckNeverFails == Spec => []TotalCheckHolds
<1>1. CheckoutInv => TotalCheckHolds
  BY InvariantImplies
<1> QED BY <1>1, CheckoutInvariant, PTL

\* errorHandler: 409 means that no warehouse had everything throughout, or that the
\* chosen one lost it.
THEOREM ConflictsAreJustified == Spec => []ConflictIsJustified
<1>1. CheckoutInv => ConflictIsJustified
  BY InvariantImplies
<1> QED BY <1>1, CheckoutInvariant, PTL

\* errorHandler: 503 means that the circuit of the stage reached has been open.
THEOREM UnavailabilityIsJustified == Spec => []UnavailableIsJustified
<1>1. CheckoutInv => UnavailableIsJustified
  BY InvariantImplies
<1> QED BY <1>1, CheckoutInvariant, PTL

\* The client is told of an order that was written and charged for its total, and a
\* refusal leaves neither an order nor a charge.
THEOREM AnswersFitOrders == Spec => []AnswerFitsOrder
<1>1. CheckoutInv => AnswerFitsOrder
  BY DEF CheckoutInv
<1> QED BY <1>1, CheckoutInvariant, PTL
=============================================================================
