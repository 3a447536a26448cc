SPECIFICATION ServerSpec
CONSTANTS
    p1 = p1
    p2 = p2
    r1 = r1
    NoProc = NoProc
    Procs <- MCProcs
    Transport <- MCTransport
    Requests <- MCRequests
    MaxCommits = 3
INVARIANTS
    ServerTypeOK
    ServesCurrentSchema
    StampFollowsScript
PROPERTIES
    StartsKeepData
    StartsEnd
