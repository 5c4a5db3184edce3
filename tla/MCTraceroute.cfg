SPECIFICATION Spec
CONSTANTS
    MaxHops = 3
    ProbesPerHop = 2
    Environments <- Mixed
INVARIANTS AttributionBound ExactWhenInTime StopIsSound StopsAtDestination
PROPERTY Terminates
