\* Calls that lock riders and cars in opposite orders, and a car taken off rent, when nothing fails.
SPECIFICATION LHPromiseFairSpec
CONSTANTS
    Cars = {c1}
    Leases = {l1}
    Riders = {r1}
    LeaseOf <- OneLease
    LeaseProcs = {p1, p2}
    Requests = {"deactivateRider", "addCar", "removeCar", "transition"}
    RequestedStatuses = {"on_rent", "releasing", "off_rent"}
    ManualResolutions = {}
    MaxRiderCars = 1
    MaxTriage = 1
    Faults = FALSE
INVARIANT ExpiredRiderHasNoRentedCar
PROPERTY CallsEnd
PROPERTY RentEndIsTriaged
CHECK_DEADLOCK FALSE
