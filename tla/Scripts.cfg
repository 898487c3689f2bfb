\* Two nodes, with one url or with two; two files; one request or reply at a time.
CONSTANTS
    n1 = n1
    n2 = n2
    n3 = n3
    u1 = u1
    u2 = u2
    Ids = {n1, n2, n3}
    Urls = {u1, u2}
    UrlOf <- MCUrlOf
    None = None
    MaxNodes = 2
    MaxEdges = 2
    MaxRays = 2
    Names = {demo, mine}
    Demo = demo
    Null = Null
    MaxRequests = 1
    MaxSaves = 1
    LaterEdges = 0
SPECIFICATION Spec
INVARIANTS
    TypeOK
    MapsAgree
    DrawnLinesListed
    ListedTargetsLive
    CanvasDiesOnlyOfBlank
    
PROPERTIES
    RayLostToServerOnly
SYMMETRY NodeSymmetry
CHECK_DEADLOCK FALSE
