SPECIFICATION HubFairSpec
CONSTANTS
    Clients = {c1, c2}
    Topics = {a, b}
    MaxConns = 1
    MaxTopics = 2
    Buffer = 1
    MaxMessages = 2
INVARIANT HubKept
PROPERTY SlotsReturn
CHECK_DEADLOCK FALSE
