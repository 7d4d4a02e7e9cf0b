SPECIFICATION FairOrderSpec
CONSTANTS
    o1 = o1
    o2 = o2
    g = g
    r = r
    Refs = {o1}
    Orders = {o1}
    Price <- MCPrice
    Quantity <- MCQuantity
    Remains <- Wild
    Least <- MinusOne
    NoNumber = NoNumber
    Prepaid = {}
    Refills = {}
    AdminOrders = {}
    Tasks = {t1, t2}
    Opening <- Shared
    MaxFaults = 2
    MaxActs = 0
CHECK_DEADLOCK FALSE
INVARIANTS HeldIsThere ChargedWasTold
PROPERTIES EndedIsFinal PlacedEnds
