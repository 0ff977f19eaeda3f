\* Two UEs on one association; MME ids that are learned late, or not at all.
SPECIFICATION Spec
CONSTANTS
    UEs = {u1, u2}
    ENBUES1APID <- FirstIds
    EBIs = {}
    Overrides = FALSE
    Used <- IdRequests
    MMETypes <- IdTypes
    Octet = 4
    MaxKeys = 1
    MaxCount = 0
    MaxUL = 1
    MaxENB = 3
    MaxMME = 3
    MaxQueued = 1
VIEW WhoseAnswers
INVARIANTS OwnDownlinksOnly
