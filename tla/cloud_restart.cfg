SPECIFICATION CloudSpec
CONSTANTS
    a1 = a1
    a2 = a2
    a3 = a3
    b1 = b1
    ja = ja
    jb = jb
    n1 = n1
    q1 = q1
    Call = {a1, a2}
    Id = {ja}
    Conn = {n1}
    Canceller = {}
    Nobody = Nobody
    NoKey = NoKey
    NoConn = NoConn
    IdOf <- JobOf
    KeyOf <- JobOf
    HashOf <- Digest
    ConnOf <- OneConn
    Ipp = {}
    Fickle = {}
    Hanging = {}
    Plan <- OneWrite
    MaxRecent = 2
    Durable = FALSE
    SaveFaults = FALSE
    LoadFaults = FALSE
    MaxCrashes = 1
    Unusable = {}
    Slots = 2
    MaxLosses = 0
    StoreFaults = FALSE
    CoarseClock = FALSE
INVARIANTS OnePrintPerKey
CHECK_DEADLOCK FALSE
