\* Two UEs on one association; ids that change, are learned, or are echoed.
SPECIFICATION Spec
CONSTANTS
    UEs = {u1, u2}
    Sessions = {}
    Overrides = FALSE
    Used <- IdRequests
    Procedures = {"service", "reestablishment"}
    AMFTypes <- IdTypes
    Octet = 4
    MaxKeys = 1
    MaxCount = 0
    MaxUL = 0
    MaxRan = 3
    MaxAmf = 3
    MaxQueued = 1
SYMMETRY Symmetric
INVARIANTS OwnDownlinksOnly
