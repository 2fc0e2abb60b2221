\* Four operations of two processes on two fields, with kills.
CONSTANTS
    Procs  = {ui, vpn}
    Fields = {mode, vpnOn}
    Values = {v1, v2}
    Unset  = Unset
    MaxOps = 4
    Kills  = TRUE
SYMMETRY Symmetry
SPECIFICATION Spec
INVARIANTS
    TypeOK
    CleanStoreKeepsAll
PROPERTIES
    AloneSaveChangesOneField
