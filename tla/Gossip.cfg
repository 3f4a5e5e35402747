SPECIFICATION FairSpec
CONSTANTS
    agent = agent
    seed = seed
    edge = edge
    dns = dns
    Nodes = {agent, seed, edge, dns}
    Links <- Triangle
    Publishers = {agent, edge, dns}
    MaxMessages = 1
INVARIANTS
    TypeOK
PROPERTIES
    NeighboursApply
CHECK_DEADLOCK FALSE
