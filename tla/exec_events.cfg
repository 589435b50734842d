SPECIFICATION FairFeedSpec
CONSTANTS
    c1 = c1
    c2 = c2
    c3 = c3
    k1 = k1
    n1 = n1
    f1 = f1
    q1 = q1
    q2 = q2
    Call = {c1, c2, c3}
    Id = {c1, c2, c3}
    Conn = {n1}
    Canceller = {q1}
    Nobody = Nobody
    NoKey = NoKey
    NoConn = NoConn
    IdOf <- FreshId
    KeyOf <- OneKey
    HashOf <- TwoHash
    ConnOf <- OneConn
    Ipp = {c2}
    Fickle = {c1}
    Hanging = {}
    Plan <- TwoWrites
    MaxRecent = 3
    Durable = TRUE
    SaveFaults = TRUE
    LoadFaults = FALSE
    MaxCrashes = 1
    Follower = {f1}
    Slots = 1
INVARIANTS ShownStands OneJobPerKey OnePrintPerKey
PROPERTIES OneOutcomeShown CancelReachesWorker OutcomeReachesFollower
CHECK_DEADLOCK FALSE
