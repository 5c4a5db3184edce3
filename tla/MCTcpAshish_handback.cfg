SPECIFICATION Spec
CONSTANTS
    SegmentSize = 2
    InitialCWnd = 4
    InitialSsThresh = 12
    MaxRtt = 7
    MaxCWnd = 16
PROPERTY HandsBack
