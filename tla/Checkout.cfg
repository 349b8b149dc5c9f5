\* Prices of 5 and 15 cents, so that taxes fall half way between two cents, and
\* amounts of up to 45 cents, which the dearest order exceeds.  An addition of
\* doubles is off by up to 0.24 cents, so that the sum of two lines is by just less
\* than half a cent.  Two changes of stock, catalogue, circuits or cache during a
\* request.
CONSTANTS
    bare = bare
    near = near
    far = far
    none = none
    apples = apples
    keyboard = keyboard
    ghost = ghost
    NoWarehouse = none
    Warehouses <- MCWarehouses
    Distance <- MCDistance
    Stocked <- MCStocked
    Levels = {0, 2}
    Products <- MCProducts
    Entries <- MCEntries
    InitialCatalogs <- MCInitialCatalogs
    TaxRates <- MCTaxRates
    MaxAmount = 45
    Imprecision = 24
    Bodies <- MCBodies
    MaxChanges = 2
SPECIFICATION Spec
INVARIANTS
    TypeOK
    ClosestIsChosen
    ChosenHadEveryItem
    PricedAtOneMoment
    BooksAgree
    OneLinePerProduct
    TotalCheckHolds
    ConflictIsJustified
    UnavailableIsJustified
    AnswerFitsOrder
    CheckoutInv
CHECK_DEADLOCK FALSE
