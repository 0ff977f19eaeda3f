\* The second SECURITY MODE COMMAND of one UE
SPECIFICATION Spec
CONSTANTS
    UEs = {u1}
    Sessions = {1}
    Overrides = FALSE
    Used <- NASRequests
    Procedures = {"authentication"}
    AMFTypes <- NASTypes
    Octet = 4
    MaxKeys = 2
    MaxCount = 2
    MaxUL = 2
    MaxRan = 1
    MaxAmf = 2
    MaxQueued = 1
INVARIANT GenuineCommandVerifies
