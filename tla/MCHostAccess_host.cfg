\* A retry bound below the wait's, and reboots, outages and drops at any time.
CONSTANTS
    Others <- MCOthers
    Bound = 2
    Poll = 1
    Timeout = 3
    Settling = 1
    MaxTime = 5
    MaxCalls = 1
    MaxBoots = 2
SPECIFICATION Spec
CHECK_DEADLOCK FALSE
INVARIANTS StartedOnce DeadGuestOnce WaitBounded WaitTellsTrue
