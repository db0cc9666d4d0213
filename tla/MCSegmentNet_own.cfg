CONSTANTS
    ShapeOrder <- TwoShapes
    BridgeShapes <- IPAMBridge
    IPAMShapes <- TheIPAM
    NetStack = "netplan"
    MaxTries = 1
    MaxBodies = 2
    None = None
SPECIFICATION Spec
INVARIANTS OwnNetworkGone
CHECK_DEADLOCK FALSE
