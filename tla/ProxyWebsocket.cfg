SPECIFICATION Spec
CONSTANTS
    luna = luna
    terra = terra
    b1 = b1
    b2 = b2
    b3 = b3
    Backends = {b1, b2, b3}
    Probes <- ProbeTable
    MetricsTTL = 1
    PruneInterval = 1
    Clients = {c1}
    Chains = {luna, terra}
    ChainOf <- ChainTable
    CapsOf <- CapsTable
    AllowedChains = {}
    Requests <- SampleRequests
    HeightDelta = 0
INVARIANTS
    WebsocketFailsOver
