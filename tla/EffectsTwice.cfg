SPECIFICATION EffectsSpec
CONSTANTS
    c1 = c1
    c2 = c2
    r = r
    coupon = coupon
    Rows = {c1, r}
    Workers = {w1}
    HandlerCount <- OneHandler
    Kind <- MCKind
    Coupons = {coupon}
    Coupon <- MCCoupon
    MaxUses <- MCMaxUses
    MaxAttempts = 2
    BatchSize = 2
    SlowWorkers = FALSE
    MaxFaults = 1
CHECK_DEADLOCK FALSE
INVARIANT AppliedOnce
