CONSTANTS
    r1 = r1
    r2 = r2
    Day <- Thursday
    OtherKind <- Review
    DaysPerWeek = 2
    Week <- ThreeWeeks
    Req <- TwoRequests
    MaxRequests = 2
    Failing <- AnyFailure
CHECK_DEADLOCK FALSE
SYMMETRY Symmetry
SPECIFICATION Spec
INVARIANT InForceWasAgreed
INVARIANT QuietUserIsLeftAlone
PROPERTY AnswersStand
