\* Two starts and stops: those of onCreate and onDestroy, or of a client of ClashBox.sock.
CONSTANTS
    Calls         = {c1, c2}
    NoCall        = NoCall
    RemoteControl = TRUE
SPECIFICATION FairSpec
INVARIANTS
    TypeOK
    CrashNeedsMissingLoad
    SafeUnlessDestroyedEarly
    AddressedMeansRouted
PROPERTIES
    DestroyWhenUpReleasesTun
    UsesCore
