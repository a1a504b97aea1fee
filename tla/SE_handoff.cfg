\* Chains of up to three events of a car, dispositions and creations in parallel.
SPECIFICATION SESpec
CONSTANTS
    Cars = {c1}
    Procs = {p1, p2}
    Types = {"REPAIR"}
    RequestedStates = {"FINAL_APPROVED", "DISPO_TO_DESTINATION", "CLOSED", "CANCELLED"}
    RequestedDispos = {"to_customer"}
    RequestedRefs = {1}
    ManualResolutions = {}
    MaxEvents = 3
    MaxTriage = 0
    Faults = FALSE
SYMMETRY CarCallSymmetry
INVARIANTS HandoffOrder ChainLinks
PROPERTY TerminalIsFinal
CHECK_DEADLOCK FALSE
