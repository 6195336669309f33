SPECIFICATION FairSpec
CONSTANTS
    MaxJobs = 2
    MaxTime = 3
    MaxFaults = 2
    MinDelay = 0
    Periods <- MCPeriods
    CronExprs <- MCCronExprs
    NextTick <- MCNextTick
    Torn = Torn
INVARIANTS
    TypeOK
    RecurringStaysArmed
    AckedJobsSurvive
PROPERTIES
    OneShotRunsOnce
    RecurringRunsSpaced
    UnreadListKept
    DueJobsAreServed
    FailedSavesHeal
