SPECIFICATION Spec
CONSTANTS
    Endpoints = {e1}
    Workers = {w1, w2}
    Waits = 1
    DisableAfter = 2
    JobTries = 2
    MaxDeliveries = 2
    MaxJobs = 5
    MaxUpsets = 1
    Nobody = Nobody
    NoEndpoint = NoEndpoint
INVARIANTS ChainKept CountedOnce
SYMMETRY Symmetry
CHECK_DEADLOCK FALSE
