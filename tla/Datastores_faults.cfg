SPECIFICATION Spec
CONSTANTS
    n1 = n1
    CacheNode = {n1}
    Rings <- OneRing
    MaxWrites = 2
    MaxRingWrites = 1
    MaxCacheFaults = 1
    Series = {"rate", "cpu"}
    FlushSize = 2
    QueryPoints = 2
    MaxPoints = 3
    MaxSeriesFaults = 1
INVARIANTS
    DatastoresTypeOK
    HashesAreMortal
    WindowEndsWithNewest
PROPERTIES
    CachesSettle
    PointsWritten
CHECK_DEADLOCK FALSE
