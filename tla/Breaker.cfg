SPECIFICATION BreakerFairSpec
CONSTANTS
    Calls = {c1, c2, c3}
    Threshold = 2
INVARIANT OneTrial
PROPERTY Recovers
