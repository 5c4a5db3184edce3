SPECIFICATION Spec
CONSTANTS
    TicksPerSec = 2
    MAXI = 2
    Durations <- UpToThree
    Intervals <- Pauses
    SockCap = 1
    MaxTime = 5
    MaxSeq = 2
    MaxDups = 1
    Faults <- Both
INVARIANTS TypeOK TailBound InBounds FiledInItsSecond LengthBound
PROPERTIES TableFinal Terminates
