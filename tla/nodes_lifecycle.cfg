\* Three requests, creates and deletes of both kinds, on one N3 address
SPECIFICATION Spec
CONSTANTS
    Reqs = {r1, r2, r3}
    NoReq = NoReq
    N3Addrs = {a1}
SYMMETRY ReqSymmetry
INVARIANTS TypeOK NoOrphanSocket FailedCreateLeavesNothing StoredIsConnected
\* Every request is answered in the end, or the process is gone.
CHECK_DEADLOCK FALSE
