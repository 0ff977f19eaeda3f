\* Three requests at once on one UE of either kind, across a second authentication
SPECIFICATION Spec
CONSTANTS
    Requests = {p, q, r}
    Systems = {"5GS", "EPS"}
    Octet = 2
    MaxKeys = 2
    MaxUL = 3
    MaxCount = 2
    MaxQueued = 1
CHECK_DEADLOCK FALSE
VIEW Verdicts
SYMMETRY Alike
INVARIANTS TypeOK UplinksFresh CipheredDownlinksVerify
