\* The start without an active profile.
CONSTANTS
    Calls         = {c1, c2}
    NoCall        = NoCall
    RemoteControl = FALSE
SPECIFICATION Spec
INVARIANTS
    NeverStartsWithoutConfig
