SPECIFICATION Spec
CONSTANTS
    n1 = n1
    n2 = n2
    w1 = w1
    w2 = w2
    j1 = j1
    j2 = j2
    j3 = j3
    sync = sync
    mail = mail
    k1 = k1
    Nodes = {n1}
    Workers = {w1}
    Home <- OneHome
    JobIds = {j1, j2, j3}
    Kinds = {sync, mail}
    KindOf <- MailKinds
    KeyOf <- SameKey
    NoKey = NoKey
    Cap <- Uncapped
    Handles <- AllKinds
    MaxAttempts = 2
    Callers = {c1, c2}
    Stamps = {s1, s2, s3, s4}
    NoStamp = NoStamp
    Nobody = Nobody
    NoJob = NoJob
    MaxUpsets = 1
PROPERTY KeyFollowsJob
