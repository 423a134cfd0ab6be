SPECIFICATION Spec
CONSTANTS
    NodeCount = 2
    Workers = 1
    PollInterval = 1
    FetchTimeout = 1
    ForwardTimeout = 2
    Operations = 2
    MaxRequests = 2
    MaxChanges = 2
    MaxRestarts = 1
INVARIANT PredictionOfOwnRow
