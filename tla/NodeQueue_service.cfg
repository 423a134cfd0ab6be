CONSTANTS
    l1 = l1
    l2 = l2
    l3 = l3
    u1 = u1
    h1 = h1
    Req <- AllReq
    ClassOf <- ClassOfReq
    MaxDepth <- TwoPlaces
    Weight <- WeightOne
SPECIFICATION Spec
INVARIANTS NodeTypeOK FifoPerClass WeightedDrain
PROPERTIES ReportedSettles ImplementsService
