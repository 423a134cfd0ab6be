CONSTANTS
    r1 = r1
    r2 = r2
    r3 = r3
    r4 = r4
    Req <- FourReq
    Refused <- NoneRefused
    BatchSize = 2
    MaxFaults = 1
    Loop = Loop
    Stopper = Stopper
SPECIFICATION Spec
CHECK_DEADLOCK FALSE
INVARIANTS WriterTypeOK NothingForgotten PendingInOrder
    FlushIsAccepted DuplicatesNeedFaults
PROPERTIES SubmitCompletes StoredInTheEnd
