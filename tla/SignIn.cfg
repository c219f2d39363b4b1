SPECIFICATION Spec
CONSTANTS
    Subjects = {s1, s2}
    SessionIds = {i1, i2}
    Requests = {q1, q2}
    MaxCalls = 5
    NoSubject = NoSubject
    NoSession = NoSession
INVARIANTS BarredIsOut SessionsRestOnPassword EveryAccountHasAWayIn
SYMMETRY Symmetry
CHECK_DEADLOCK FALSE
