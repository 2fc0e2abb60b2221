\* Two dials that share two descriptor numbers, over a restart of the hook.
CONSTANTS
    s1       = s1
    s2       = s2
    Dials    = {d1, d2}
    Fds      = {f1, f2}
    Sessions = {s1, s2}
    Capacity <- Buffers
    None     = None
    Garbled  = Garbled
SPECIFICATION FairSpec
INVARIANTS
    TypeOK
    AckedIsProtected
    RequestSurvives
PROPERTIES
    DialsLeaveControl
