CONSTANTS
    r1 = r1
    r2 = r2
    r3 = r3
    r4 = r4
    Req <- ThreeReq
    Refused <- OneRefused
    BatchSize = 2
    MaxFaults = 0
    Loop = Loop
    Stopper = Stopper
SPECIFICATION Spec
CHECK_DEADLOCK FALSE
PROPERTY AtLeastOnce
