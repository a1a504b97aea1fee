\* Two requests at once over two scraps of a car that may also be shopped, with failures and crashes.
SPECIFICATION ScSpec
CONSTANTS
    Cars = {c1}
    Procs = {p1}
    Types = {"REPAIR"}
    RequestedStates = {"CANCELLED"}
    RequestedDispos = {}
    RequestedRefs = {0}
    ManualResolutions = {}
    MaxEvents = 1
    MaxTriage = 2
    Faults = TRUE
    ScrapProcs = {s1, s2}
    ScrapRequests = {"proposed", "under_review", "approved", "scheduled", "in_progress", "completed", "cancelled"}
    MaxScraps = 2
SYMMETRY ScrapSymmetry
INVARIANT ScTypeOK
INVARIANT DisposedIffScrapped
INVARIANT ScrapUnderwayWasApproved
PROPERTY DisposalKept
PROPERTY ShoppingEventKept
CHECK_DEADLOCK FALSE
