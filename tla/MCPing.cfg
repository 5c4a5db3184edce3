SPECIFICATION Spec
CONSTANTS
    MsgCount = 3
    SockCap = 3
    MaxDups = 2
    FaultSets <- Environments
INVARIANT LossIsExact
PROPERTIES KeepsTally OneLateAnswerEndsCounting Terminates
