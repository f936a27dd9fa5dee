CONSTANTS
    r1 = r1
    r2 = r2
    d1 = d1
    c1 = c1
    k1 = k1
    k2 = k2
    f1 = f1
    v1 = v1
    cv1 = cv1
    cv2 = cv2
    ana = ana
    ben = ben
    Req <- TwoRequests
    Cost = 2
    Amounts <- OnePack
    Deltas <- AddOrRemove
    Signup = 1
    Bonus = 1
    MaxIssued = 4
    Failing <- Call
    Job <- OneKey
    Cap = 1
    MinResults = 1
    MaxRequests = 3
    MaxRuns = 4
    Edits <- OneEdit
    DaysPerWeek = 3
    DigestDay = 2
    Retry = TRUE
    LapseAfter = 2
    Cadence <- TwoDigests
    Wishes <- SubscribeAll
    MailDays = 5
    Day <- OneDay
    Change <- OneItem
    Card <- OneItem
    Targets <- SomeStages
    FollowUpDays = 1
    Key <- TwoKeys
    Publisher <- OneDay
    Lifetime = 2
    MarketDays = 3
    Field <- OneField
    Value <- OneValue
    File <- TwoFiles
    Burst = 1
    Unit = 2
    Rate = 1
    AliveWindow = 1
    LastTick = 3
    MaxStarts = 2
    User <- TwoUsers
    Code <- TwoKeys
    SnoozeFor = 1
    Situations <- TwoSituations
    Answerable <- PostDayOnly
    ThreadDays = 1
SYMMETRY Symmetry
SPECIFICATION DeskSpec
INVARIANT TypesOK
INVARIANT HeldWithinIssued
INVARIANT Conserved
INVARIANT QuotaBounded
INVARIANT NewOnce
INVARIANT PaidOnlyByOverlap
INVARIANT OneMailPerKey
INVARIANT StopIsHonoured
INVARIANT FinishedGotAll
INVARIANT HistoryTellsTheStage
INVARIANT LiveWasChecked
INVARIANT SettingsSayWhatIs
INVARIANT CeilingPerProcess
INVARIANT StartedTogetherIsSeen
INVARIANT HandedCodeIsStored
INVARIANT PutAwayStaysAway
PROPERTY FeedRespectsTheUser
PROPERTY WorkIsUndoneByStaleWritesOnly
PROPERTY DecisionStands
CHECK_DEADLOCK FALSE
