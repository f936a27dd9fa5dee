CONSTANTS
    r1 = r1
    r2 = r2
    r3 = r3
    posts = posts
    score = score
    Req <- ThreeRequests
    Agent <- TwoAgents
    Mode <- AnyMode
    Failing <- AnyFailure
CHECK_DEADLOCK FALSE
SYMMETRY Symmetry
SPECIFICATION Spec
INVARIANT RecordedRunsChargeOnce
INVARIANT ReplayShowsTheCharge
INVARIANT OnlyResultsAreCharged
INVARIANT AcceptedIsPollable
INVARIANT RowChargeIsReal
