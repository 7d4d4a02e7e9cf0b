SPECIFICATION FairGuestSpec
CONSTANTS
    a = a
    b = b
    o1 = o1
    o2 = o2
    NoPanel = none
    Orders = {o1, o2}
    Panels = {a, b}
    Route <- Cart
    Tasks = {t1, t2}
    MaxFaults <- OfEach
CHECK_DEADLOCK FALSE
INVARIANTS PlacedOncePerPanel CopiesCostFaults NothingBeforePayment ConfirmedAtMostOnce OutcomeIsTrue
PROPERTIES PaidMovesOn PaidIsResolved NoneWaitsForever
