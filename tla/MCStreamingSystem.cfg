SPECIFICATION System
CONSTANTS
    c1 = c1
    c2 = c2
    elsewhere = elsewhere
    host = host
    Zero = Zero
    NotFound = NotFound
    Empty = Empty
    Nobody = Nobody
    Clients = {c1, c2}
    SockCap = 4
    MaxDups = 2
    Lossy = {c1}
    FaultSets <- Environments
    Addresses <- Parsed
    VideoAt <- Machines
    Records <- AnyRecord
    OthersSay <- OtherNames
    Prefixes <- Beginnings
INVARIANT OneOutstanding
PROPERTIES NoRecovery TheServedStream TheServedExit MisledForEver
