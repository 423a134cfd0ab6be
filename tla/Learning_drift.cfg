SPECIFICATION Spec
CONSTANTS
    WindowTicks = 2
    WarmupRequests = 2
    MinSamples = 2
    MaxSamples = 3
    MaxOutcomes = 2
    WindowSize = 4
    WarmupPoints = 4
    RecentPoints = 2
    GruValues <- FewGruValues
    ForecastTicks = 2
    CheckTicks = 2
    AccuracyThreshold = 900
    MaxRequests = 4
    MaxAlerts = 2
INVARIANTS
    LearningTypeOK
    BurstFeatureNeedsRise
    DriftAlertedOnce
PROPERTY
    BurstEnds
