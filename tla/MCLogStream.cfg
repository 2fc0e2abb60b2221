\* Two connections; buffers of one, so that four entries fill them and wait. The
\* second has "EOF" in its text, the third is below the level.
CONSTANTS
    Conn       = {k1, k2}
    NoConn     = NoConn
    Buffer     = 1
    SocketRoom = 1
    WithEOF    = {2}
    Below      = {3}
    MaxEntries = 4
SPECIFICATION FairSpec
INVARIANTS
    TypeOK
    NothingLost
    NoOrphan
    NoLeak
PROPERTIES
    LogCallsReturn
CHECK_DEADLOCK FALSE
