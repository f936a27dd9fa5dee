CONSTANTS
    r1 = r1
    r2 = r2
    r3 = r3
    l1 = l1
    l2 = l2
    Req <- ThreeRequests
    Link <- TwoLinks
    Failing <- AnyFailure
SYMMETRY Symmetry
SPECIFICATION Spec
INVARIANT CreditedStaysClosed
INVARIANT ChargedIsRecorded
PROPERTY FailedMeansNotCharged
PROPERTY KeepsPromise
