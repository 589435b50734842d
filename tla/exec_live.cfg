SPECIFICATION FairSpec
CONSTANTS
    c1 = c1
    c2 = c2
    c3 = c3
    k1 = k1
    n1 = n1
    q1 = q1
    q2 = q2
    Call = {c1, c2, c3}
    Id = {c1, c2, c3}
    Conn = {n1}
    Canceller = {q1}
    Nobody = Nobody
    NoKey = NoKey
    NoConn = NoConn
    IdOf <- FreshId
    KeyOf <- NoKeys
    HashOf <- TwoHash
    ConnOf <- MixConn
    Ipp = {c2}
    Fickle = {}
    Hanging = {c3}
    Plan <- OneWrite
    MaxRecent = 3
    Durable = TRUE
    SaveFaults = FALSE
    LoadFaults = FALSE
    MaxCrashes = 1
INVARIANTS UnfinishedIsActive
PROPERTIES AcceptedFinishes
CHECK_DEADLOCK FALSE
