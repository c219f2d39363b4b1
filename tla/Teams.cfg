SPECIFICATION Spec
CONSTANTS
    Subjects = {a, b}
    RoleNames = {owner, manager}
    Owner = owner
    manager = manager
    Grants <- MCGrants
    Invites = {i1, i2}
    MaxPending = 2
    Requests = {q1, q2}
    MaxCalls = 3
    AppCode = AppCode
    NoRow = NoRow
    Nobody = Nobody
INVARIANTS OwnerKept GrantersHadIt
PROPERTY ClosedStaysClosed
SYMMETRY Symmetry
CHECK_DEADLOCK FALSE
