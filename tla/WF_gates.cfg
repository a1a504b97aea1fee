\* Two requests at once over an event and two versions of its estimate.
SPECIFICATION WfSpec
CONSTANTS
    WfCars = {c1}
    WfProcs = {p1, p2}
    WfTargets <- Forward
    WfVerdicts = {"approved", "rejected"}
    MaxWorkflows = 1
    MaxVersions = 2
    WfFaults = TRUE
SYMMETRY WorkflowSymmetry
INVARIANT WfTypeOK
INVARIANT WorkFollowsApproval
INVARIANT FinalFollowsNewest
PROPERTY WorkNotRecalled
CHECK_DEADLOCK FALSE
