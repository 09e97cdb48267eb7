CONSTANTS
    Operators = {o1, o2, o3}
    Assuming = {o3}
    MaxFaults = 2
    MaxTimeouts = 2
    MaxCrashes = 2
SPECIFICATION Spec
INVARIANTS
    TypeOK
    OneRegistrar
    RegisteredStays
PROPERTIES
    EventuallyServed
CHECK_DEADLOCK FALSE
