\* Two cells, two signals at any moment, both passes: the pool comes to an end.
CONSTANTS
    c1 = c1
    c2 = c2
    s1 = s1
    Cells = {c1, c2}
    Scenarios = {s1}
    Jobs = 1
    RetryJobs = 1
    Retry = TRUE
    BlockedMaxPct = 10
    Earlier = {"none"}
    Outcomes = {"OTHER", "LOAD"}
    MaxSignals = 2
    MaxForeign = 1
    OthersKeepAway = FALSE
SPECIFICATION FairSpec
PROPERTY PoolEnds
