\* Two overlapping pings, two overlapping starts of the background task.
CONSTANTS
    Pings     = {p1, p2}
    Starts    = {k1, k2}
    Threshold = 3
SPECIFICATION FairSpec
INVARIANTS
    TypeOK
    OffMeansQuiet
    KeepAliveConsistent
PROPERTIES
    DeadIsNoticed
