\* A cancelled scrap and a car sent to storage, when nothing fails.
SPECIFICATION ScFairSpec
CONSTANTS
    Cars = {c1}
    Procs = {p1}
    Types = {"REPAIR"}
    RequestedStates = {"FINAL_APPROVED", "DISPO_TO_DESTINATION", "CLOSED"}
    RequestedDispos = {"to_storage"}
    RequestedRefs = {0}
    ManualResolutions = {}
    MaxEvents = 1
    MaxTriage = 2
    Faults = FALSE
    ScrapProcs = {s1, s2}
    ScrapRequests = {"proposed", "under_review", "cancelled"}
    MaxScraps = 2
PROPERTY StorageReturnIsTriaged
PROPERTY CancelledScrapIsTriaged
CHECK_DEADLOCK FALSE
