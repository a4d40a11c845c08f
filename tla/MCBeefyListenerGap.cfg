CONSTANTS
    MaxRelay = 4
    MaxPara = 2
    OtherParas = 1
    Faults = {}
    ChanCap = 1
    MaxQueue = 2
SPECIFICATION Spec
CHECK_DEADLOCK FALSE
INVARIANT NoCommitmentSkipped
