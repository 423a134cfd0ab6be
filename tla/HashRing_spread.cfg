CONSTANTS
    s1 = s1
    s2 = s2
    s3 = s3
    Node <- MCNode
    Capacity <- MCCapacity
    VnodeHash <- SpreadHash
    HashSpace = 12
    BaseCount = 2
    MinCount = 1
    MaxVnodes = 3
    MaxProbes = 4
SPECIFICATION Spec
INVARIANTS HistoryIndependent CandidatesNearestFirst
PROPERTY FailoverInCandidateOrder
