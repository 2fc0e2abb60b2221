\* Two handlers of the UI process and the load of the VPN process; MaxOps bounds
\* the operations, the starts, the upsets and the changes of the nodes together.
CONSTANTS
    p1 = p1
    p2 = p2
    n1 = n1
    n2 = n2
    lost = lost
    any = any
    first = first
    fast = fast
    all = all
    u1 = u1
    u2 = u2
    Profile    = {p1, p2}
    NoProfile  = NoProfile
    Node       = {n1, n2, lost}
    Group      = {any, first, fast, all}
    Selectable = {any, first, fast}
    URLTest    = {fast}
    Fallback   = {first}
    Config     <- MCConfig
    UI         = {u1, u2}
    Vpn        = vpn
    Client     = {u1, u2, vpn}
    NoClient   = NoClient
    NoRequest  = NoRequest
    FirstSaved <- MCFirstSaved
    MaxOps     = 4
SPECIFICATION Spec
INVARIANTS
    RestartKeepsMode
CHECK_DEADLOCK FALSE
