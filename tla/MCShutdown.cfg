SPECIFICATION ServerSpec
CONSTANTS
    p1 = p1
    p2 = p2
    r1 = r1
    NoProc = NoProc
    Procs <- OneProc
    Transport <- OneProcTransport
    Requests <- MCRequests
    MaxCommits = 3
INVARIANT
    StopFinishesRequests
