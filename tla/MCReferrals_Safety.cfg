CONSTANTS
    r1 = r1
    r2 = r2
    ana = ana
    ben = ben
    cy = cy
    Nobody = Nobody
    User <- ThreeUsers
    Referrer <- AnaAndBen
    V1User <- JustCy
    Uploader <- JustCy
    MaxReferrals = 1
    Req <- TwoRequests
    Failing <- AnyFailure
SYMMETRY Symmetry
SPECIFICATION Spec
INVARIANT CapHolds
INVARIANT PaidOncePerActivation
INVARIANT WelcomedOnce
PROPERTY RefusalsAreTrue
PROPERTY AttributionIsFinal
