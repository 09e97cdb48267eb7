CONSTANTS
    cm = cm
    pod = pod
    NoFactory = NoFactory
    Informers = {cm}
    Order <- OnlyCm
    FactoryOf <- Factory
    Awaited = {cm}
    Workers = 3
    MaxSignals = 2
SPECIFICATION Spec
INVARIANTS
    TypeOK
    WorkersAfterSync
    HandlerKnowsStore
    PanicMeansDoubleRun
    DoneBeforeExit
PROPERTIES
    StopsUnlessMissed
    SecondSignalEnds
CHECK_DEADLOCK FALSE
