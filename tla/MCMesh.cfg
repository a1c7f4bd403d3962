SPECIFICATION Spec
CONSTANTS
    Nodes = {1, 2, 3}
    Links <- Line
    Distance <- Hops
    Infinity = 4
    MaxSequence = 2
    MaxGeneration = 2
    MaxInFlight = 1
    MaxFaults = 2
INVARIANTS TypeOK NoRouteWithoutSession MetricsNotOptimistic TableIsRebuild InFlightIsFresh
CHECK_DEADLOCK FALSE
