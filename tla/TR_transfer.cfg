\* Two requests at once: a car goes to another rider while it is added, rented and released.
SPECIFICATION TrSpec
CONSTANTS
    Cars = {c1}
    Leases = {l1}
    Riders = {r1, r2}
    LeaseOf <- OneLease
    LeaseProcs = {p1, p2}
    Requests = {"addCar", "transition"}
    RequestedStatuses = {"on_rent"}
    ManualResolutions = {}
    ReleaseRequests = {"INITIATED", "APPROVED", "EXECUTING", "COMPLETED"}
    TransferRequests = {"initiate", "confirm", "complete", "cancel"}
    MaxRiderCars = 1
    MaxTriage = 0
    MaxReleases = 1
    MaxTransfers = 1
    Faults = FALSE
SYMMETRY TransferSymmetry
INVARIANT TrTypeOK
INVARIANT OneActiveRider
PROPERTY CustodyKept
PROPERTY CompletionKeepsCar
CHECK_DEADLOCK FALSE
