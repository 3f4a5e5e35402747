SPECIFICATION FairSpec
CONSTANTS
    agent = agent
    seed = seed
    edge = edge
    dns = dns
    Nodes = {agent, seed, edge, dns}
    Links <- Star
    Publishers = {agent}
    MaxMessages = 3
PROPERTIES
    Propagates
CHECK_DEADLOCK FALSE
