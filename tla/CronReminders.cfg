SPECIFICATION FairSpec
CONSTANTS
    MaxJobs = 2
    MaxTime = 4
    MaxFaults = 1
    MinDelay = 1
    Periods <- MCPeriods
    CronExprs <- MCCronExprs
    NextTick <- MCNextTick
    Torn = Torn
INVARIANT
    RemindersStayArmed
