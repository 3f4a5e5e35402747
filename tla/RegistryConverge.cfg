SPECIFICATION FairSpec
CONSTANTS
    edge = edge
    seed = seed
    dns = dns
    Replicas = {edge, seed, dns}
    Publishers = {edge}
    Table = "nodes"
    Bootstrap <- Star
    MaxCrashes <- ReaderCrashes
    WarmUp = 0
    MinDowntime = 0
    MaxTime = 0
    MaxSeq = 1
    MaxFails = 0
PROPERTIES
    Convergence
    VectorCatchesUp
CHECK_DEADLOCK FALSE
