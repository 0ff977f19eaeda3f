\* Two requests at once, two sessions, one of them renewed, one peer
CONSTANTS
    Nodes = {"gNB", "eNB"}
    Sessions = {"s1", "s2"}
    DLTeids <- TwoSessions
    Accepts <- Addresses
    Traffic <- Packets
    Shapes <- Forms
    ULTeids = {1, 9}
    Unknown = 9
    Uplinks <- Bodies
    UPFIP <- Server4
    Peers = {"pa"}
    Restarts <- Counters
    Requests = {p, q}
    MaxArrivals = 3
    MaxEchoes = 1
SPECIFICATION Spec
SYMMETRY Alike
VIEW WhatMatters
INVARIANTS TypeOK InOrderOnce OwnSessionOnly ReadAsSent UplinksUnderstood
