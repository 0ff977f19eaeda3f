\* Two echo requests, to two peers
CONSTANTS
    Nodes = {"gNB", "eNB"}
    Sessions = {"s1", "s2"}
    DLTeids <- TwoSessions
    Accepts <- Addresses
    Traffic <- Packets
    Shapes <- Forms
    ULTeids = {1, 9}
    Unknown = 9
    Uplinks <- Bodies
    UPFIP <- Server4
    Peers = {"pa", "pb"}
    Restarts <- Counters
    Requests = {p, q}
    MaxArrivals = 2
    MaxEchoes = 2
SPECIFICATION Spec
SYMMETRY Alike
INVARIANT EchoFromAsked
