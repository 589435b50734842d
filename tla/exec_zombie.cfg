SPECIFICATION Spec
CONSTANTS
    c1 = c1
    c2 = c2
    c3 = c3
    k1 = k1
    n1 = n1
    q1 = q1
    q2 = q2
    Call = {c1, c2}
    Id = {c1, c2}
    Conn = {n1}
    Canceller = {}
    Nobody = Nobody
    NoKey = NoKey
    NoConn = NoConn
    IdOf <- FreshId
    KeyOf <- NoKeys
    HashOf <- TwoHash
    ConnOf <- OneConn
    Ipp = {}
    Fickle = {c1}
    Hanging = {}
    Plan <- OneWrite
    MaxRecent = 2
    Durable = TRUE
    SaveFaults = TRUE
    LoadFaults = FALSE
    MaxCrashes = 0
INVARIANTS UnfinishedIsActive
CHECK_DEADLOCK FALSE
