\* Two requests at once on two nodes, on one UE too; two numbers a node, three UEs
CONSTANTS
    Nodes = {na, nb}
    Requests = {p, q}
    AMFIDs = {0, 7}
    Careful = TRUE
    MaxId = 2
    MaxUEs = 3
SPECIFICATION Spec
SYMMETRY Alike
VIEW Placement
CHECK_DEADLOCK FALSE
INVARIANTS TypeOK FoundWhereAnswered NeverLost RANIdsDistinct
