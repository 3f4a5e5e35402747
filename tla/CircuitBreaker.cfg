SPECIFICATION FairSpec
CONSTANTS
    Callers = {c1, c2, c3}
    MaxRequests = 2
    Interval = 1
    Timeout = 2
    MinSample = 2
    Modulus = 4
    MaxTime = 5
INVARIANTS
    TypeOK
    HalfOpenPermits
PROPERTIES
    ClosesOnProbes
    OpenLasts
    HalfOpenResolves
