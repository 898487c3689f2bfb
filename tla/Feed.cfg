CONSTANTS
    m1 = m1
    m2 = m2
    Sockets = {s1, s2}
    Messages = {m1, m2}
    Workers = {w1, w2}
    Handshake = Handshake
    Blank = Blank
    None = None
    Placeholders = 2
    Unit = 1000
    LeastMax <- MCLeastMax
    MostMin = 9999999
    MaxZoom = 1
    Value <- MCValue
SPECIFICATION Spec
INVARIANTS
    TypeOK
    
    FailsOnlyByEarlySend
    ChartSound

    
CHECK_DEADLOCK FALSE
