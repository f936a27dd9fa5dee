CONSTANTS
    r1 = r1
    r2 = r2
    r3 = r3
    Req <- ThreeRequests
    MaxCycle = 3
    Failing <- AnyFailure
SYMMETRY Symmetry
SPECIFICATION Spec
INVARIANT CreditedStaysCounted
PROPERTY KeepsPromise
