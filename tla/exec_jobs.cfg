SPECIFICATION Spec
CONSTANTS
    c1 = c1
    c2 = c2
    c3 = c3
    k1 = k1
    n1 = n1
    q1 = q1
    q2 = q2
    Call = {c1, c2, c3}
    Id = {c1, c2, c3}
    Conn = {n1}
    Canceller = {q1}
    Nobody = Nobody
    NoKey = NoKey
    NoConn = NoConn
    IdOf <- FreshId
    KeyOf <- NoKeys
    HashOf <- TwoHash
    ConnOf <- MixConn
    Ipp = {c2}
    Fickle = {c1}
    Hanging = {}
    Plan <- Handshake
    MaxRecent = 2
    Durable = TRUE
    SaveFaults = TRUE
    LoadFaults = TRUE
    MaxCrashes = 1
INVARIANTS HonestVerdict ConnectionExclusive LiveJobRetained RetentionBound
PROPERTIES TerminalStands DurableVerdictStands JournalKept
CHECK_DEADLOCK FALSE
