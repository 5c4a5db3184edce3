SPECIFICATION Spec
CONSTANTS
    c1 = c1
    c2 = c2
    camera = camera
    cam = cam
    ip1 = ip1
    ip10 = ip10
    Nobody = Nobody
    NoFile = NoFile
    NotFound = NotFound
    Empty = Empty
    Junk = Junk
    Clients = {c1, c2}
    QName <- Asks
    Prefixes <- Beginnings
    Backlog = 1
    Files <- TwoFiles
    FaultSets <- ResetOnly
INVARIANT StreamsFromDiscovered
