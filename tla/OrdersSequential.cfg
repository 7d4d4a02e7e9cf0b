SPECIFICATION OrderSpec
CONSTANTS
    o1 = o1
    o2 = o2
    g = g
    r = r
    Refs = {o1, o2, g, r}
    Orders = {o1, o2, g, r}
    Price <- MCPrice
    Quantity <- MCQuantity
    Remains <- Left
    Least = 0
    NoNumber = NoNumber
    Prepaid = {g}
    Refills = {r}
    AdminOrders = {g}
    Tasks = {t1}
    Opening <- Tight
    MaxFaults = 0
    MaxActs = 1
CHECK_DEADLOCK FALSE
INVARIANTS PoolIsExplained SettledAsItEnded
