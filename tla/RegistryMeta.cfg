SPECIFICATION Spec
CONSTANTS
    edge = edge
    seed = seed
    dns = dns
    Replicas = {edge, seed}
    Publishers = {edge}
    Table = "meta"
    Bootstrap <- Star
    MaxCrashes <- OwnerAndSeedCrash
    WarmUp = 1
    MinDowntime = 0
    MaxTime = 2
    MaxSeq = 1
    MaxFails = 1
INVARIANTS
    TypeOK
    StoreIsWitnessed
    ClockIdentifiesValue
    OwnerSeesItself
PROPERTIES
    ActsAsSharedTable
    ClocksNeverRegress
    LastWriterWins
CHECK_DEADLOCK FALSE
