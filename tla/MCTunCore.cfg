\* Every interleaving of four calls of StartTUN, StartTUN(0) and StopTun; no
\* symmetry, because progress is checked too.
CONSTANTS
    Calls  = {c1, c2, c3, c4}
    NoCall = NoCall
SPECIFICATION TunFairSpec
INVARIANTS
    TunTypeOK
    BodiesExclude
    StoppedMeansClosed
    OrderlyIsSafe
PROPERTIES
    StopsEnd
