SPECIFICATION Spec
CONSTANTS
    MaxHops = 3
    ProbesPerHop = 2
    Environments <- LateOnly
PROPERTY PortIsUnique
