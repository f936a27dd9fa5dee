\* One run at a time, a week of three days with the digest on the last.
CONSTANTS
    CronRun = {r1}
    DaysPerWeek = 3
    DigestDay = 2
    Retry = FALSE
    LapseAfter = 2
    LastDay = 2
    Cadence <- MCCadence
    Wishes <- MCWishes
SPECIFICATION Spec
INVARIANT OneADay
CHECK_DEADLOCK FALSE
