CONSTANTS
    r1 = r1
    r2 = r2
    Day <- Thursday
    OtherKind <- Review
    DaysPerWeek = 2
    Week <- ThreeWeeks
    Req <- OneRequest
    MaxRequests = 2
    Failing <- NoFailure
CHECK_DEADLOCK FALSE
SPECIFICATION Spec
PROPERTY RefusedIsNeverInForce
