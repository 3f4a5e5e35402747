SPECIFICATION Spec
CONSTANTS
    Clients = {"a", "b", "c"}
    None = "none"
    Full = 4
    Cost = 2
    Window = 4
    CleanupPeriod = 2
    MaxClients = 2
INVARIANTS
    TypeOK
PROPERTIES
    ForgettingIsInvisible
    TableIsSwept
