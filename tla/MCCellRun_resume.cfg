\* A relay cell: a first and a resumed pass over two shapes.
CONSTANTS
    ShapeOrder <- TwoShapes
    NScenarios = 1
    Corroborated = {1}
    FixedMac = {1}
    Relay = TRUE
    MaxPasses = 2
SPECIFICATION FairSpec
INVARIANTS TypeOK GreenIsComplete NothingMissing CitedCheckIsOwn
PROPERTIES AnsweredOnce CapturesKept DecidedChecksKept PassEnds
CHECK_DEADLOCK FALSE
