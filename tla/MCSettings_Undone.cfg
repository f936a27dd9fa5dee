CONSTANTS
    r1 = r1
    r2 = r2
    location = location
    oslo = oslo
    resume = resume
    Req <- TwoRequests
    Field <- OneField
    Value <- OneValue
    File <- OneFile
SPECIFICATION Spec
INVARIANT OffMeansDeleted
CHECK_DEADLOCK FALSE
