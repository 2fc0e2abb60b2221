----------------------------- MODULE VpnProcess -----------------------------
(***************************************************************************)
(* The :vpn process: ClashVpnAbility.onCreate and onDestroy, the           *)
(* FlClashVpnService they drive, and the Go core underneath (TunCore).     *)
(*                                                                         *)
(* ArkTS is single threaded, but onCreate is cut into pieces by its        *)
(* awaits, startVpn is started and never awaited, StartTUN travels through *)
(* clash_go.sock while StopTun is a direct native call, and onDestroy may  *)
(* come between any two of these pieces. saveVpnOn makes its file calls    *)
(* in one piece (SelectedMap has what another process does to them).       *)
(***************************************************************************)
EXTENDS TunCore

CONSTANTS
    RemoteControl  \* whether a client uses startClash/stopClash of ClashBox.sock

ASSUME RemoteAssumption == RemoteControl \in BOOLEAN

VARIABLES
    create,        \* where onCreate stands
    skipped,       \* loadActiveConfig returned without calling updateConfig
    ipc,           \* the accept loop of clash_go.sock is running
    tunIp,         \* setTunOptions has stored the TUN address in the core
    chain,         \* where each startVpn stands
    iface,         \* the system's VPN interface each startVpn asked for
    routed,        \* the interfaces created with the IPv4 default route
    vpnConnection, \* the startVpn whose connection object the service holds
    destroyed,     \* onDestroy has run: when the VPN was up, or before that
    vpnOn          \* the flag in selected_map.json

serviceVars == <<chain, iface, routed, vpnConnection>>
setupVars   == <<create, skipped, ipc, tunIp>>
abilityVars == <<setupVars, serviceVars, destroyed, vpnOn>>
vars        == <<coreVars, abilityVars>>

TypeOK ==
    /\ TunTypeOK
    /\ create \in {"off", "service", "load", "apply", "applying", "options", "start", "end"}
    /\ chain \in [Calls -> {"none", "creating", "connecting", "sent", "handed", "failed"}]
    /\ iface \in [Calls -> {"none", "up", "gone"}]
    /\ routed \subseteq Calls
    /\ vpnConnection \in Calls \cup {NoCall}
    /\ destroyed \in {"no", "early", "up"}
    /\ {skipped, ipc, tunIp, vpnOn} \subseteq BOOLEAN

Init ==
    /\ TunInit
    /\ create = "off"
    /\ skipped = FALSE
    /\ ipc = FALSE
    /\ tunIp = FALSE
    /\ chain = [c \in Calls |-> "none"]
    /\ iface = [c \in Calls |-> "none"]
    /\ routed = {}
    /\ vpnConnection = NoCall
    /\ destroyed = "no"
    /\ vpnOn \in BOOLEAN

-----------------------------------------------------------------------------
(* onCreate, one action per piece between two awaits.                      *)

Create(from, to) ==
    /\ ~crashed
    /\ create = from
    /\ create' = to

\* new SocketStubService, startIpc and the start of server.listen.
OnCreate ==
    /\ Create("off", "service")
    /\ UNCHANGED <<coreVars, skipped, ipc, tunIp, serviceVars, destroyed, vpnOn>>

\* startIpc only spawns the goroutine that will listen on clash_go.sock.
IpcListens ==
    /\ ~crashed
    /\ create # "off"
    /\ ~ipc
    /\ ipc' = TRUE
    /\ UNCHANGED <<coreVars, create, skipped, tunIp, serviceVars, destroyed, vpnOn>>

\* server.listen has settled; its error is swallowed by startService.
ServiceStarted ==
    /\ Create("service", "load")
    /\ UNCHANGED <<coreVars, skipped, ipc, tunIp, serviceVars, destroyed, vpnOn>>

\* There is no active profile, or something throws before updateConfig is
\* called: loadActiveConfig returns and onCreate goes on all the same.
LoadSkipped ==
    /\ Create("load", "start")
    /\ skipped' = TRUE
    /\ UNCHANGED <<coreVars, ipc, tunIp, serviceVars, destroyed, vpnOn>>

\* Mutant: loadActiveConfig is not awaited, the start does not wait for it.
CallUpdateConfigUnawaited ==
    /\ Create("load", "start")
    /\ UNCHANGED <<coreVars, skipped, ipc, tunIp, serviceVars, destroyed, vpnOn>>

CallUpdateConfig ==
    /\ Create("load", "apply")
    /\ UNCHANGED <<coreVars, skipped, ipc, tunIp, serviceVars, destroyed, vpnOn>>

ConfigApplied ==
    /\ Create("apply", "applying")
    /\ ApplyConfig
    /\ UNCHANGED <<skipped, ipc, tunIp, serviceVars, destroyed, vpnOn>>

\* The promise of updateConfig resolves once runLock is released.
UpdateConfigResolves ==
    /\ Create("applying", "options")
    /\ ~falling
    /\ UNCHANGED <<coreVars, skipped, ipc, tunIp, serviceVars, destroyed, vpnOn>>

\* Mutant: onCreate does not wait for setTunOptions.
SetTunOptionsUnawaited ==
    /\ \/ Create("options", "start") /\ UNCHANGED tunIp
       \/ create \in {"start", "end"} /\ ipc /\ tunIp' = TRUE /\ UNCHANGED create
    /\ UNCHANGED <<coreVars, skipped, ipc, serviceVars, destroyed, vpnOn>>

\* setTunOptions needs the accept loop, and swallows its failure.
SetTunOptions ==
    /\ Create("options", "start")
    /\ \/ ipc /\ tunIp' = TRUE
       \/ UNCHANGED tunIp
    /\ UNCHANGED <<coreVars, skipped, ipc, serviceVars, destroyed, vpnOn>>

\* FlClashVpnService.startVpn up to its await: the routes follow from the
\* TUN address the core knows now, and the service keeps one connection only.
StartVpn(c) ==
    /\ chain[c] = "none" /\ pc[c] = "idle"
    /\ chain' = [chain EXCEPT ![c] = "creating"]
    /\ routed' = IF tunIp THEN routed \cup {c} ELSE routed
    /\ vpnConnection' = c
    /\ UNCHANGED iface

\* The end of onCreate: startVpn, which is not awaited, and saveVpnOn(true).
StartFromCreate(c) ==
    /\ Create("start", "end")
    /\ StartVpn(c)
    /\ vpnOn' = TRUE
    /\ UNCHANGED <<coreVars, skipped, ipc, tunIp, destroyed>>

-----------------------------------------------------------------------------
(* The rest of startVpn, after its await.                                  *)

Chain(c, from, to) ==
    /\ ~crashed
    /\ chain[c] = from
    /\ chain' = [chain EXCEPT ![c] = to]

TunFdReady(c) ==
    /\ Chain(c, "creating", "connecting")
    /\ iface' = [iface EXCEPT ![c] = "up"]
    /\ UNCHANGED <<coreVars, setupVars, routed, vpnConnection, destroyed, vpnOn>>

\* Mutant: the descriptor -1 of a failed create is kept as an interface.
TunFdFailsUnnoticed(c) ==
    /\ Chain(c, "creating", "connecting")
    /\ iface' = [iface EXCEPT ![c] = "-1"]
    /\ UNCHANGED <<coreVars, setupVars, routed, vpnConnection, destroyed, vpnOn>>

\* vpnConnection.create fails: getTunFd destroys the connection, answers -1.
TunFdFails(c) ==
    /\ Chain(c, "creating", "failed")
    /\ iface' = [d \in Calls |-> IF d = vpnConnection /\ iface[d] = "up"
                                 THEN "gone" ELSE iface[d]]
    /\ UNCHANGED <<coreVars, setupVars, routed, vpnConnection, destroyed, vpnOn>>

\* The startClash request enters clash_go.sock; a failed connect is logged.
SendStartClash(c) ==
    /\ \/ ipc /\ Chain(c, "connecting", "sent")
       \/ Chain(c, "connecting", "failed")
    /\ UNCHANGED <<coreVars, setupVars, iface, routed, vpnConnection, destroyed, vpnOn>>

\* Mutant: the handler of startClash opens the TUN itself, without the lock.
ReceiveStartClashInline(c) ==
    /\ Chain(c, "sent", "handed")
    /\ Step(c, "idle", "done")
    /\ op' = [op EXCEPT ![c] = "start"]
    /\ hook' = c
    /\ tunListener' = c
    /\ open' = open \cup {c}
    /\ runTime' = TRUE
    /\ UNCHANGED <<tunLock, currentConfig, falling, crashed, orderly, setupVars, iface,
                   routed, vpnConnection, destroyed, vpnOn>>

\* handleConnection reads it and calls StartTUN.
ReceiveStartClash(c) ==
    /\ Chain(c, "sent", "handed")
    /\ StartTUN(c)
    /\ UNCHANGED <<setupVars, iface, routed, vpnConnection, destroyed, vpnOn>>

-----------------------------------------------------------------------------

\* Mutant: stopVpn destroys the connection and leaves the core alone.
StopVpnConnectionOnly(c) ==
    /\ chain[c] = "none"
    /\ ~crashed
    /\ UNCHANGED coreVars
    /\ iface' = [d \in Calls |-> IF d = vpnConnection /\ iface[d] = "up"
                                 THEN "gone" ELSE iface[d]]
    /\ UNCHANGED <<chain, routed, vpnConnection>>

\* FlClashVpnService.stopVpn: the native call first, then the connection the
\* service holds, if it has got as far as an interface.
StopVpn(c) ==
    /\ chain[c] = "none"
    /\ StopTun(c)
    /\ iface' = [d \in Calls |-> IF d = vpnConnection /\ iface[d] = "up"
                                 THEN "gone" ELSE iface[d]]
    /\ UNCHANGED <<chain, routed, vpnConnection>>

\* Nothing of onCreate is under way: it has ended and its starts are over.
Up ==
    /\ create = "end"
    /\ \A c \in Calls : chain[c] \in {"none", "handed", "failed"}
    /\ InFlight("start") = {}

OnDestroy(c) ==
    /\ create # "off"
    /\ destroyed = "no"
    /\ destroyed' = IF Up THEN "up" ELSE "early"
    /\ StopVpn(c)
    /\ vpnOn' = FALSE
    /\ UNCHANGED setupVars

\* A Load request of the UI process.
RemoteLoad ==
    /\ ipc
    /\ ApplyConfig
    /\ UNCHANGED abilityVars

\* startClash and stopClash on ClashBox.sock.
RemoteStartClash(c) ==
    /\ RemoteControl
    /\ ~crashed
    /\ create \notin {"off", "service"}
    /\ StartVpn(c)
    /\ UNCHANGED <<coreVars, setupVars, destroyed, vpnOn>>

RemoteStopClash(c) ==
    /\ RemoteControl
    /\ create \notin {"off", "service"}
    /\ StopVpn(c)
    /\ UNCHANGED <<setupVars, destroyed, vpnOn>>

CoreStep ==
    /\ \/ \E c \in Calls : LockTun(c) \/ Body(c)
       \/ FallBackToDefault
    /\ UNCHANGED abilityVars

Startup ==
    \/ OnCreate
    \/ IpcListens
    \/ ServiceStarted
    \/ LoadSkipped
    \/ CallUpdateConfig
    \/ ConfigApplied
    \/ UpdateConfigResolves
    \/ SetTunOptions
    \/ \E c \in Calls : StartFromCreate(c)

ServiceStep ==
    \E c \in Calls :
        \/ TunFdReady(c)
        \/ TunFdFails(c)
        \/ SendStartClash(c)
        \/ ReceiveStartClash(c)

\* The process has died, or has been destroyed and has nothing left to do.
Ended ==
    /\ \/ crashed
       \/ /\ destroyed # "no"
          /\ \A c \in Calls : pc[c] # "idle" \/ chain[c] = "failed"
    /\ UNCHANGED vars

Next ==
    \/ Startup
    \/ ServiceStep
    \/ \E c \in Calls : OnDestroy(c)
    \/ RemoteLoad
    \/ \E c \in Calls : RemoteStartClash(c) \/ RemoteStopClash(c)
    \/ CoreStep
    \/ Ended

\* The Go scheduler runs its goroutines. Nothing makes the system call onCreate or onDestroy.
Fairness ==
    \A c \in Calls :
        /\ SF_vars(LockTun(c) /\ UNCHANGED abilityVars)
        /\ WF_vars(Body(c) /\ UNCHANGED abilityVars)

Spec     == Init /\ [][Next]_vars
FairSpec == Spec /\ Fairness

-----------------------------------------------------------------------------

\* A client of ClashBox.sock has started or stopped the service, beside what
\* onCreate and onDestroy do.
RemoteUsed ==
    \/ Cardinality({c \in Calls : chain[c] # "none"}) > (IF create = "end" THEN 1 ELSE 0)
    \/ Cardinality({c \in Calls : op[c] = "stop"}) > (IF destroyed = "no" THEN 0 ELSE 1)

\* The core dies of a missing configuration only if onCreate never loaded one,
\* or if a load is just replacing an unusable configuration by the default
\* one: the awaits order every start but a client's after the load
\* (ClashVpnAbility.ets:21-25, common.go:353-355).
CrashNeedsMissingLoad ==
    crashed => skipped \/ falling \/ RemoteUsed

\* Unless onDestroy cuts into the start or a client interferes, the only TUN that is open is the one
\* StopTun will close, it has its socket hook, and once onCreate has ended the
\* saved flag says whether the process is still to run
\* (lib_linux.go:88-:100, :115-:127, ClashVpnAbility.ets:28, :167).
SafeUnlessDestroyedEarly ==
    destroyed # "early" /\ ~RemoteUsed =>
                           /\ open \subseteq {tunListener}
                           /\ open # {} => hook # NoCall
                           /\ create = "end" => (vpnOn <=> destroyed = "no")

\* The awaits of onCreate order the address before the start: a core that knows
\* its TUN address has no TUN without the IPv4 default route, unless a client
\* started it
\* (ClashVpnAbility.ets:122-:125, FlClashVpnService.ts:104-:165).
AddressedMeansRouted == tunIp /\ ~RemoteUsed => open \subseteq routed

\* When onDestroy comes after the start is over, the TUN, its hook and its
\* run time all go, and stay gone (FlClashVpnService.ts:207-:210).
DestroyWhenUpReleasesTun ==
    destroyed = "up" ~> \/ crashed \/ RemoteUsed
                        \/ [](open = {} /\ hook = NoCall /\ ~runTime)

\* The process drives the core by its operations only, also when clients start
\* and stop it through ClashBox.sock: what holds of TunCore holds here
\* (FlClashVpnService.ts:82-:95, ipc.go:227-:237).
UsesCore == TunSpec

\* What the comment at ClashVpnAbility.ets:3 and :22 says: the configuration
\* is loaded before StartTUN, so the nil dereference is fixed.
NeverStartsWithoutConfig == ~(crashed /\ skipped)
=============================================================================
