\* Two cells, resumed from any earlier evidence, side by side in the first
\* pass and one after the other in the retry pass, on a shared host, with a
\* signal at any moment.
CONSTANTS
    c1 = c1
    c2 = c2
    s1 = s1
    Cells = {c1, c2}
    Scenarios = {s1}
    Jobs = 2
    RetryJobs = 1
    Retry = TRUE
    BlockedMaxPct = 50
    Earlier = {"none", "OTHER", "LOAD"}
    Outcomes = {"OTHER", "LOAD", "BLOCKED"}
    MaxSignals = 1
    MaxForeign = 1
    OthersKeepAway = TRUE
SPECIFICATION Spec
SYMMETRY Symmetry
INVARIANTS TypeOK PoolBound LeftoverIsReported EveryCellAnswered
INVARIANTS GreenMeansMeasured MarkerExclusive
PROPERTIES NeverOnTop VerdictsKept
