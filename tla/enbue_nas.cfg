\* One UE; bearers set up, dropped and set up again across a wrap-around.
SPECIFICATION Spec
CONSTANTS
    UEs = {u1}
    ENBUES1APID <- FirstIds
    EBIs = {6}
    Overrides = FALSE
    Used <- NASRequests
    MMETypes <- NASTypes
    Octet = 3
    MaxKeys = 2
    MaxCount = 3
    MaxUL = 6
    MaxENB = 1
    MaxMME = 1
    MaxQueued = 2
INVARIANTS TypeOK InStepDownlinksVerify UplinksInStep
PROPERTIES NoResurrectedBearer
