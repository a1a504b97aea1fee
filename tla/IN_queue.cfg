\* Every endpoint, when only caught errors occur.
SPECIFICATION INFairSpec
CONSTANTS
    Pushers = {p1}
    Queuers = {q1}
    Entities = {e1}
    Operation <- AllMileage
    Threshold = 2
    MaxRetries = 1
    SapRequests = {"push", "retry", "reset"}
    MaxLogs = 2
    SapFaults = FALSE
PROPERTY QueueBreakerKept
PROPERTY LogsSettle
CHECK_DEADLOCK FALSE
