SPECIFICATION Spec
CONSTANTS
    n1 = n1
    n2 = n2
    n3 = n3
    Nodes = {n1, n2, n3}
    V4 <- TwoAddresses
    V6 <- OneV6
    NoAddress = "-"
    NoAdvert = NoAdvert
    Services = {"rpc", "lcd", "ws"}
    Chains = {"c"}
    MaxAnswers = 2
    EnableECS = TRUE
    GeoEnabled = TRUE
    Nowhere = "ZZ"
    LocationOf <- Places
    Centroid <- Countries
    Score <- Far
    UnknownScore = 6
    Tolerance = 2
    Hash <- Hashes
    Handlers = {h1, h2}
    Names <- Asked
    Subnets = {"-", "c1", "c2"}
    Adverts <- Advertised
    MaxSerial = 3
    MaxTime = 1
    MaxSum = 3
INVARIANTS
    TypeOK
    NearlyClosest
    AnswerIsDetermined
PROPERTIES
    OnlyRacesRepeatSerials
    OtherTypeOnlyIfCut
VIEW Unwritten
CONSTRAINT UntilRace
SYMMETRY HandlersAlike
CHECK_DEADLOCK FALSE
