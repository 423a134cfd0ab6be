SPECIFICATION Spec
CONSTANTS
    n1 = n1
    n2 = n2
    Node <- TwoNodes
    PollOrder <- PolledInTurn
    Base <- SameBase
    StartVnodes <- UnequalStart
    MinCount = 10
    Load <- Loads
    SeedLoad <- Idle
    PollInterval = 1
    FetchTimeout = 1
    DaaInterval = 2
    FeedbackInterval = 3
    CpuAlert = 90
    AlertDuration = 4
    VarianceThreshold = 20
    MaxChanges = 1
INVARIANTS
    ControlTypeOK
    LessLoadedGetsMore
PROPERTIES
    NoRatchet
    ConvergesToTarget
    OverloadReported
