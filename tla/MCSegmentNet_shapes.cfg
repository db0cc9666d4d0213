\* One pass over three of the five shapes, parent before bridge before parent:
\* ipvlan is like macvlan here, and a bridge like bridge-ipam without isolation.
CONSTANTS
    ShapeOrder <- ThreeShapes
    BridgeShapes <- IPAMBridge
    IPAMShapes <- TheIPAM
    NetStack = "netplan"
    MaxTries = 1
    MaxBodies = 2
    None = None
SPECIFICATION FairSpec
INVARIANTS TypeOK RuleOnce CleanAfterDown ParentBodyHasNetwork NoChildAtStart
PROPERTIES ParentFreeAtCreate RunsEnd
CHECK_DEADLOCK FALSE
