\* A resumed pass over a verdict file that was cut.
CONSTANTS
    ShapeOrder <- TwoShapes
    NScenarios = 1
    Corroborated = {}
    FixedMac = {}
    Relay = FALSE
    MaxPasses = 2
SPECIFICATION Spec
INVARIANTS CutFileIsRewritten
CHECK_DEADLOCK FALSE
