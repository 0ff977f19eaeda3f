\* One UE, two authentications, COUNTs past the wrap-around of the octet; a service
\* request moves it to another RAN id between its sessions.
SPECIFICATION Spec
CONSTANTS
    UEs = {u1}
    Sessions = {1, 2}
    Overrides = FALSE
    Used <- NASRequests
    Procedures = {"authentication", "service"}
    AMFTypes <- NASTypes
    Octet = 2
    MaxKeys = 2
    MaxCount = 2
    MaxUL = 2
    MaxRan = 2
    MaxAmf = 2
    MaxQueued = 2
VIEW Verdicts
INVARIANTS TypeOK InStepDownlinksVerify UplinksInStep CommandsMeetTheirKeys TunnelsDistinct
