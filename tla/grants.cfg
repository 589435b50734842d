SPECIFICATION Spec
CONSTANTS
    Request = {r1, r2, r3, r4}
    Command = {x1, x2}
    Change = {ch1, ch2}
    Nothing = Nothing
    OriginOf <- OneOrigin
    Ttl = {2}
    PairedTtl = 1
    PairTtl = 1
    PrintTtl = 2
    AdminTtl = 1
    ApprovalTtl = 1
    MaxTime = 2
    PersistFaults = TRUE
    MaxRestarts = 1
SYMMETRY Alike
INVARIANTS GrantTypeOK PairedOnce AppliedOnce AppliedAsApproved EndedStays
CHECK_DEADLOCK FALSE
