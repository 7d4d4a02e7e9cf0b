SPECIFICATION FairDripSpec
CONSTANTS
    o1 = o1
    o2 = o2
    Refs = {o1}
    Orders = {o1}
    Price <- MCPrice
    Quantity <- MCQuantity
    Remains = {0, 1}
    Least = 0
    NoNumber = NoNumber
    Prepaid = {}
    Refills = {}
    AdminOrders = {}
    Tasks = {t1}
    Opening <- Enough
    MaxFaults = 1
    MaxActs = 0
    Drips = {o1}
    Runs <- MCRuns
    Age <- MCAge
    Ticks = {k1, k2}
CHECK_DEADLOCK FALSE
INVARIANTS DripTypeOK RunsArePaidFor OverrunsBounded
PROPERTIES CompletedInFull LeftAlone RunsGoOut
