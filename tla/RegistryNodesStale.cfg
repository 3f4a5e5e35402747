SPECIFICATION Spec
CONSTANTS
    edge = edge
    seed = seed
    dns = dns
    Replicas = {edge, seed}
    Publishers = {edge}
    Table = "nodes"
    Bootstrap <- Star
    MaxCrashes <- OwnerCrashes
    WarmUp = 0
    MinDowntime = 1
    MaxTime = 1
    MaxSeq = 2
    MaxFails = 0
PROPERTIES
    LastWriterWins
CHECK_DEADLOCK FALSE
