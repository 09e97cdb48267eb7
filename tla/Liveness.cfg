CONSTANTS
    h1 = h1
    h2 = h2
    n1 = n1
    Keys = {h1, h2}
    Namespaces = {n1}
    NsOf <- OneNamespace
    MaxCount = 1
    Specs <- Templates2
    Scenarios <- InTheEnd
    IdleResync = TRUE
    None = None
    NoIP = NoIP
    Workers = {w1}
    ChanCap = 2
    RingOf <- RingNames
    Quantities <- Sizes
    MaxInt32 = 3
SPECIFICATION FairSpec
PROPERTIES
    EventuallyDeployed
    EventuallyPeerValid
    EventuallyCollected
CHECK_DEADLOCK FALSE
