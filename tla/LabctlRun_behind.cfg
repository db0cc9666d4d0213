\* The macvlan shape: what a body behind a reset is reported as.
CONSTANTS
    N = 3
    StaticNA = {}
    NotApplicable = {}
    Isolating = FALSE
    Bridged = FALSE
    MaxResets = 1
    ReadyTries = 2
    MaxFaults = 0
SPECIFICATION Spec
INVARIANT NoPassBehindReset
