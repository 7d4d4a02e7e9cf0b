SPECIFICATION DepositSpec
CONSTANTS
    Order = order
    Admin = admin
    Earlier = earlier
    Ids = {d1}
    DepositIds = {d1}
    Refs <- MCRefs
    OrderRefs <- MCOrderRefs
    AdminRef = admin
    OpeningRef = earlier
    Users = {u1}
    Requests = {}
    Amounts = {1}
    Adjustments <- NoAdjustment
    Opening <- MCOpening
    MaxEntries = 3
    Owner <- MCOwner
    Value <- MCValue
    Tasks = {t1, t2}
    AdminSettles = {}
    MaxAborts = 0
CHECK_DEADLOCK FALSE
INVARIANT NoDoubleCredit
