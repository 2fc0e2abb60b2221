\* Two overlapping operations on two profiles, one of which is saved again.
CONSTANTS
    Profiles   = {p1, p2}
    None       = None
    NoPage     = NoPage
    Jobs       = {j1, j2}
    MaxVersion = 2
SYMMETRY Symmetry
SPECIFICATION Spec
INVARIANTS
    TypeOK
    CopiesAgree
    BootRunsActive

CONSTRAINT OverlapsAtFirst
