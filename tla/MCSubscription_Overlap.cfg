CONSTANTS
    r1 = r1
    r2 = r2
    r3 = r3
    Req <- TwoRequests
    MaxCycle = 2
    Failing <- ReadFailure
SPECIFICATION Spec
INVARIANT NoMonthLost
