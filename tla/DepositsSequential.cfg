SPECIFICATION FairDepositSpec
CONSTANTS
    Order = order
    Admin = admin
    Earlier = earlier
    Ids = {d1, d2}
    DepositIds = {d1, d2}
    Refs <- MCRefs
    OrderRefs <- MCOrderRefs
    AdminRef = admin
    OpeningRef = earlier
    Users = {u1}
    Requests = {r1}
    Amounts = {1}
    Adjustments <- NoAdjustment
    Opening <- MCOpening
    MaxEntries = 3
    Owner <- MCOwner
    Value <- MCValue
    Tasks = {t1}
    AdminSettles = {}
    MaxAborts = 2
CHECK_DEADLOCK FALSE
INVARIANT CreditedOnceIfConfirmed
PROPERTY PaidIsCredited
