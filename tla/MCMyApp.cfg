SPECIFICATION Spec
CONSTANTS
    Scenarios <- Times
    SendBuffer = 2
INVARIANTS TypeOK CancelReachesAll OffersExactly
PROPERTIES SilentAfterStop Terminates
