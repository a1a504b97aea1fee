\* Pushes and retries over three log rows, with lost answers, failures and crashes.
SPECIFICATION INSpec
CONSTANTS
    Pushers = {p1, p2}
    Queuers = {}
    Entities = {e1}
    Operation <- AllInvoices
    Threshold = 1
    MaxRetries = 1
    SapRequests = {"push", "approve", "reject", "retry"}
    MaxLogs = 3
    SapFaults = TRUE
SYMMETRY SapSymmetry
INVARIANT INTypeOK
INVARIANT SuccessIsBooked
INVARIANT RetriesBounded
PROPERTY BreakerKept
CHECK_DEADLOCK FALSE
