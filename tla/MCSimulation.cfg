SPECIFICATION Spec
CONSTANTS
    Mains <- Programs
    QueueSize = 100
    MaxMeasure = 2
INVARIANTS TypeOK SentExactly HeardIfInstalled PdrMeaning TracesFindSockets JainMeaning
PROPERTIES FlowsAreIndependent EndsInTime
