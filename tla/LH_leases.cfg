\* The life of a lease, its rider and a car, with lost promises and crashes.
SPECIFICATION LHSpec
CONSTANTS
    Cars = {c1}
    Leases = {l1}
    Riders = {r1}
    LeaseOf <- OneLease
    LeaseProcs = {p1, p2}
    Requests = {"updateLease", "deactivateLease", "createRider", "addCar", "removeCar", "transition", "assignToRider"}
    RequestedStatuses = {"prep_required", "on_rent", "releasing", "off_rent"}
    ManualResolutions = {}
    MaxRiderCars = 1
    MaxTriage = 1
    Faults = TRUE
SYMMETRY HierarchySymmetry
INVARIANT LHTypeOK
INVARIANT CyclesAreBroken
CHECK_DEADLOCK FALSE
