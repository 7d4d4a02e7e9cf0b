SPECIFICATION WalletSpec
CONSTANTS
    Refs <- MCRefs
    OrderRefs <- MCOrderRefs
    AdminRef = "admin"
    OpeningRef = "deposit"
    Users = {u1}
    Requests = {r1, r2}
    Amounts = {1, 2}
    Adjustments <- UpwardOnly
    Opening <- MCOpening
    MaxEntries = 4
CHECK_DEADLOCK FALSE
INVARIANTS HoldCovered LedgerHead
PROPERTY AtomicUnlessStale
