\* A signal while a failed cell is about to be torn down.
CONSTANTS
    c1 = c1
    c2 = c2
    s1 = s1
    Cells = {c1, c2}
    Scenarios = {s1}
    Jobs = 2
    RetryJobs = 1
    Retry = FALSE
    BlockedMaxPct = 10
    Earlier = {"none"}
    Outcomes = {"OTHER"}
    MaxSignals = 1
    MaxForeign = 0
    OthersKeepAway = TRUE
SPECIFICATION Spec
SYMMETRY Symmetry
INVARIANT SignalStopsEveryCell
