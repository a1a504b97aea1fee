\* Two requests at once over two releases of a car, with crashes and no transfers.
SPECIFICATION TrSpec
CONSTANTS
    Cars = {c1}
    Leases = {l1}
    Riders = {r1}
    LeaseOf <- OneLease
    LeaseProcs = {p1, p2}
    Requests = {"addCar", "removeCar", "transition"}
    RequestedStatuses = {"on_rent"}
    ManualResolutions = {}
    ReleaseRequests = {"INITIATED", "APPROVED", "EXECUTING", "COMPLETED", "CANCELLED"}
    TransferRequests = {}
    MaxRiderCars = 1
    MaxTriage = 0
    MaxReleases = 2
    MaxTransfers = 0
    Faults = TRUE
SYMMETRY TransferSymmetry
INVARIANT RelTypeOK
PROPERTY RentalEndsThroughRelease
PROPERTY ReleaseEndsOnce
CHECK_DEADLOCK FALSE
