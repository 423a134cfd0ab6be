CONSTANTS
    N = 5
    Measure <- Measures
    Seed <- Idle
    Forecast = {0, 40}
    Threshold = 8500
SPECIFICATION Spec
INVARIANTS RoutingTypeOK AvoidsOverload OverflowGoesClockwise StaleYields
