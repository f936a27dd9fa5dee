CONSTANTS
    r1 = r1
    r2 = r2
    l1 = l1
    ana = ana
    ben = ben
    cy = cy
    Nobody = Nobody
    User <- ThreeUsers
    Referrer <- JustAna
    V1User <- NoUser
    Uploader <- NoUser
    MaxReferrals = 2
    Req <- TwoRequests
    Failing <- OnlyV1Check
SPECIFICATION LiveSpec
PROPERTY PaidEventuallyCredited
PROPERTY SubmittedIsActivated
