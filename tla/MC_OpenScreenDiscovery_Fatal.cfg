CONSTANT NumServices = 3
SPECIFICATION DSpec
CHECK_DEADLOCK FALSE
INVARIANT FatalStopsDiscovery
