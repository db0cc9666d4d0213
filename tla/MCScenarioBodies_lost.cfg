\* One lost command, and the scenario behind it.
CONSTANTS
    Programs <- MCPrograms
    Order <- MCOrder
    CellKinds = {"kea"}
    MaxBodies = 2
    MaxFaults = 1
SPECIFICATION Spec
PROPERTY LostRestoreFailsReady
