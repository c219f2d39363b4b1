SPECIFICATION FairSpec
CONSTANTS
    Nodes = {n1, n2}
    Specs = {2, 3}
    NextDue <- Every
    MaxTime = 4
    MaxUpsets = 3
    NoSpec = NoSpec
    NoRow = NoRow
    Nobody = Nobody
INVARIANT CaughtUp
PROPERTIES DuePasses DeploySettles
CHECK_DEADLOCK FALSE
