\* A second start over the timer of the first.
CONSTANTS
    Pings     = {p1}
    Starts    = {k1}
    Threshold = 3
SPECIFICATION FairSpec

PROPERTIES
    NoFalseConnection
