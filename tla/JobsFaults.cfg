SPECIFICATION Spec
CONSTANTS
    n1 = n1
    n2 = n2
    w1 = w1
    w2 = w2
    j1 = j1
    j2 = j2
    j3 = j3
    sync = sync
    mail = mail
    k1 = k1
    Nodes = {n1, n2}
    Workers = {w1, w2}
    Home <- TwoHomes
    JobIds = {j1, j2}
    Kinds = {sync, mail}
    KindOf <- SyncKinds
    KeyOf <- NoKeys
    NoKey = NoKey
    Cap <- OneAtATime
    Handles <- AllKinds
    MaxAttempts = 2
    Callers = {}
    Stamps = {s1, s2, s3, s4}
    NoStamp = NoStamp
    Nobody = Nobody
    NoJob = NoJob
    MaxUpsets = 2
INVARIANT ClaimsKept
PROPERTIES QueueSpec FailsOnlyOutOfBudget
