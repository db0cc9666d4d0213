\* The whole catalog, from any scenario on, three scenarios in a row.
CONSTANTS
    Programs <- MCPrograms
    Order <- MCOrder
    CellKinds = {"kea", "isc", "dnsmasq", "udhcpd", "pihole", "openwrt", "pair", "routeros", "windows"}
    MaxBodies = 3
    MaxFaults = 2
SPECIFICATION Spec
INVARIANTS SourceAsFound CellAsFound PassIsMeasured ToldRestores LiftBeforeWait
