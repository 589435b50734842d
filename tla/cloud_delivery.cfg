SPECIFICATION CloudSpec
CONSTANTS
    a1 = a1
    a2 = a2
    a3 = a3
    b1 = b1
    ja = ja
    jb = jb
    n1 = n1
    q1 = q1
    Call = {a1, a2, a3}
    Id = {ja}
    Conn = {n1}
    Canceller = {q1}
    Nobody = Nobody
    NoKey = NoKey
    NoConn = NoConn
    IdOf <- JobOf
    KeyOf <- JobOf
    HashOf <- Digests
    ConnOf <- OneConn
    Ipp = {}
    Fickle = {}
    Hanging = {}
    Plan <- OneWrite
    MaxRecent = 2
    Durable = FALSE
    SaveFaults = FALSE
    LoadFaults = FALSE
    MaxCrashes = 1
    Unusable = {}
    Slots = 2
    MaxLosses = 1
    StoreFaults = TRUE
    CoarseClock = TRUE
INVARIANTS CloudTypeOK StoredFirst StoredDigestOnly OnePrintPerLife HonestResult
PROPERTIES OutcomeStands
CHECK_DEADLOCK FALSE
