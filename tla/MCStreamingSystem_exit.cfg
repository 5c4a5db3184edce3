SPECIFICATION System
CONSTANTS
    c1 = c1
    c2 = c2
    elsewhere = elsewhere
    host = host
    Zero = Zero
    NotFound = NotFound
    Empty = Empty
    Nobody = Nobody
    Clients = {c1}
    SockCap = 4
    MaxDups = 2
    Lossy = {c1}
    FaultSets <- LossOnly
    Addresses <- Parsed
    VideoAt <- Machines
    Records <- VideoOnly
    OthersSay <- OtherNames
    Prefixes <- Beginnings
PROPERTY XExits
