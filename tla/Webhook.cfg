SPECIFICATION FairSpec
CONSTANTS
    Requests = {r1, r2, r3}
    MaxUpsets = 4
    Nobody = Nobody
INVARIANT DeliveryKept
PROPERTY Acknowledged
CHECK_DEADLOCK FALSE
