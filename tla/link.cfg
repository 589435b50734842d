SPECIFICATION FairSpec
CONSTANTS
    s1 = s1  s2 = s2
    u1 = u1  u2 = u2  t1 = t1
    d1 = d1  d2 = d2  sn = sn  none = none
    None = none
    Session = {s1, s2}
    Printer = {u1, u2, t1}
    Usb = {u1, u2}
    Place = {d1, d2}
    Serial <- MCSerial
    Product <- MCProduct
    Readable = {u1, u2, t1}
    Silent = {u1}
    Request <- Mixed
    DrainLimit = 1
    QueueLimit = 1
    MaxPlugs = 1
INVARIANTS AnswersAreOwn
PROPERTIES AdministersTheNamed RequestsEnd
CHECK_DEADLOCK FALSE
