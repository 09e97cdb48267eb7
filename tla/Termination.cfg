CONSTANTS
    cm = cm
    pod = pod
    NoFactory = NoFactory
    Informers = {cm, pod}
    Order <- CmAndPod
    FactoryOf <- Factory
    Awaited = {cm}
    Workers = 1
    MaxSignals = 2
SPECIFICATION Spec
INVARIANTS
    GracefulExit
CHECK_DEADLOCK FALSE
