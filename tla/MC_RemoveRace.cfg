CONSTANTS
    s1 = s1
    s2 = s2
    s3 = s3
    n1 = n1
    n2 = n2
    v1 = v1
    t1 = t1
    Sessions <- MCSessions
    TxnSessions <- MCNoSessions
    Writers <- MCSessions
    Scanners <- MCNoSessions
    CallKinds <- Kinds
    Names <- MCNames
    Values <- MCValues
    Tags <- MCTags
    PoolSize = 2
    MaxRows = 3
    MaxNow = 0
    PageSize = 1
    MayClose = FALSE
    NoExpiry = NoExpiry
    None = None

SPECIFICATION Spec
PROPERTY RemoveNotFoundOnlyIfAbsent
