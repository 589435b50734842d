SPECIFICATION CloudFairSpec
CONSTANTS
    a1 = a1
    a2 = a2
    a3 = a3
    b1 = b1
    ja = ja
    jb = jb
    n1 = n1
    q1 = q1
    Call = {a1, a2, b1}
    Id = {ja, jb}
    Conn = {n1}
    Canceller = {q1}
    Nobody = Nobody
    NoKey = NoKey
    NoConn = NoConn
    IdOf <- JobOf
    KeyOf <- JobOf
    HashOf <- Digest
    ConnOf <- OneConn
    Ipp = {}
    Fickle = {}
    Hanging = {}
    Plan <- OneWrite
    MaxRecent = 2
    Durable = FALSE
    SaveFaults = FALSE
    LoadFaults = FALSE
    MaxCrashes = 0
    Unusable = {b1}
    Slots = 1
    MaxLosses = 1
    StoreFaults = FALSE
    CoarseClock = FALSE
PROPERTIES ResultReported
CHECK_DEADLOCK FALSE
