\* Review loops, every kind of close, storage promises, crashes and rejected promises.
SPECIFICATION SESpec
CONSTANTS
    Cars = {c1}
    Procs = {p1}
    Types = {"MRU", "REPAIR", "null"}
    RequestedStates = {"FINAL_ESTIMATE_RECEIVED", "FINAL_APPROVED", "DISPO_TO_DESTINATION", "CLOSED", "CANCELLED"}
    RequestedDispos = {"to_customer", "to_storage"}
    RequestedRefs = {0, 1}
    ManualResolutions = {"dismissed"}
    MaxEvents = 1
    MaxTriage = 2
    Faults = TRUE
INVARIANTS SETypeOK ApprovedBeforeDisposition TypedCloseHasDisposition
CHECK_DEADLOCK FALSE
