SPECIFICATION Spec
CONSTANTS
    PageRequests = {q1, q2, q3}
    MaxExpiries = 2
    Checks = {q1, q2}
    MaxFailures = 2
    Skew = 1
    MaxStep = 2
    MaxSecrets = 2
    Spare = 1
    NoFactor = NoFactor
    Processes = {n1, n2}
    Callers = {q1, q2, q3}
    Elsewhere = q3
    MaxGrants = 2
    NoCaller = NoCaller
    NoConnection = NoConnection
    PoolCalls = {q1, q2, q3}
    Size = 2
    MaxInstances = 4
    NoInstance = NoInstance
    Keys = {k1, k2, k3, k4}
    Prefixed = {k1, k2}
    MaxItems = 2
    MaxOrder = 5
    Pair = {q1, q2}
    Nothing = Nothing
    Wrong = Wrong
    MaxForms = 1
    MailTries = 2
    MaxClaims = 3
    MaxResends = 1
    Unclaimed = Unclaimed
    MaxChanges = 2
    MaxSeconds = 2
    Scripts = {1, 2, 3}
    NoTransaction = {2}
    DataLoss = {3}
    Statements = 2
    LockRetries = 1
    MaxMishaps = 1
    Unlocked = Unlocked
    Hosts = {h1, h2}
    ApproveTTL = 2
    RefuseTTL = 1
    MaxVerdicts = 1
    EndOfTime = 2
    HourLength = 2
    Hours = 4
    Week = 2
    MonthLength = 3
    Months = 1
    LastInstant = 26
    MaxSaves = 3
    MaxFalls = 1
    Configs <- TwoConfigs
    MaxSwitches = 2
    MaxRuns = 2
    PartSize = 2
    MaxSize = 5
    PacksListed = 3
    MaxBusy = 2
    Base = 10
    Figures = {0, 1, 5}
    Widths = {0, 1, 2}
    MaxExponent = 2
    Ratios <- SmallRatios
    Numerics <- FourNumerics
INVARIANTS SessionKept CodesHold StoredGrantWorks PoolWhole
    Bounded NodesFollow CopiesExplained RowIsCurrent RecordTells RevokedIsRefused EachTimeMet SchemasAgree
    DevFollows CallsKept UploadSettled LifecycleKept DecimalsExact
PROPERTY OffOnlyByCode
SYMMETRY Symmetry
CHECK_DEADLOCK FALSE
