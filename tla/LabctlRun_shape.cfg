\* The bridge-ipam shape, one scenario answered by the shape and one not applicable.
CONSTANTS
    N = 4
    StaticNA = {2}
    NotApplicable = {3}
    Isolating = TRUE
    Bridged = TRUE
    MaxResets = 1
    ReadyTries = 2
    MaxFaults = 1
SPECIFICATION FairSpec
INVARIANTS TypeOK StartsClean StatusAnswers ResetShows NoInheritedIdentity BodyHasNetwork
PROPERTY RunEnds
