\* Generations of two periods at once, on a pool they can exhaust.
SPECIFICATION BlFairSpec
CONSTANTS
    Adjustments = {a1}
    Chargebacks = {b1}
    Periods = {jan, feb}
    BillProcs = {p1, p2, p3}
    PoolSize = 3
    MaxInvoices = 3
    BlFaults = TRUE
INVARIANT BlTypeOK
INVARIANT AdjustmentBilledOnce
INVARIANT BilledIsListed
PROPERTY LedgerKept
PROPERTY GenerationsEnd
CHECK_DEADLOCK FALSE
