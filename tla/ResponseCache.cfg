SPECIFICATION Spec
CONSTANTS
    Clients = {c1, c2}
    Keys = {k1, k2, k3}
    Sizes = {1, 2, 4}
    Capacity = 2
    MaxBytes = 3
    TTL = 1
    MaxTime = 2
INVARIANTS
    TypeOK
    ByteBudget
    ByteSizeExplained
