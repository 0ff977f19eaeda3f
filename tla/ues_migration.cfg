\* As ues_registry, with a client that moves UEs without regard to numbers
CONSTANTS
    Nodes = {na, nb}
    Requests = {p, q}
    AMFIDs = {0}
    Careful = FALSE
    MaxId = 2
    MaxUEs = 3
SPECIFICATION Spec
SYMMETRY Alike
CHECK_DEADLOCK FALSE
INVARIANT MovedCanBeReached
