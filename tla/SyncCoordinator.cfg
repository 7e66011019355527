SPECIFICATION Spec
CONSTANT MaxCalls = 4
CHECK_DEADLOCK FALSE
INVARIANT NoLostWake
INVARIANT NoCycleWithoutSession
PROPERTY SignalsServed
PROPERTY ShutdownStops
