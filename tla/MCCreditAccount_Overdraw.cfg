CONSTANTS
    r1 = r1
    r2 = r2
    Req <- TwoRequests
    Cost = 2
    Amounts <- NoPack
    Deltas <- NoAdmin
    Signup = 3
    Bonus = 4
    MaxIssued = 3
    Failing <- NoFailure
CHECK_DEADLOCK FALSE
SPECIFICATION Spec
INVARIANT SpentWithinIssued
