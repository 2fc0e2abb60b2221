----------------------------- MODULE CoreConfig -----------------------------
(***************************************************************************)
(* The configuration of the Go core (hub.go, common.go): one goroutine per *)
(* request, runLock around what each does to the core, and configParams,   *)
(* which a load assigns before it takes the lock.                          *)
(*                                                                         *)
(* Nodes stop and resume answering at any time, and the groups take note   *)
(* of it when they are looked at, by a connection or a query. The settings *)
(* other than the mode and currentConfig, from which only the listeners    *)
(* are made, are left out.                                                 *)
(***************************************************************************)
EXTENDS CoreState

CONSTANTS Client, NoClient, NoRequest

ASSUME ClientAssumption ==
    /\ NoClient \notin Client
    /\ NoRequest \notin Load \cup Change

VARIABLES
    core,          \* the tunnel: proxies, mode, selections
    health,        \* which nodes answer, and what the groups make of it
    configParams,  \* is-patch and selected-map of the last load that began
    runLock,
    handler,       \* where the goroutine of each client's request stands
    request,
    outcome,       \* the reading of a load's file, or the answer to a change
    \* history
    before,        \* the core before the load that holds runLock
    met            \* see CoreApi

coreVars == <<core, health, configParams, runLock, handler, request, outcome,
              before, met>>

CoreTypeOK ==
    /\ core \in Core /\ before \in Core
    /\ health \in Health
    /\ configParams \in [patch : BOOLEAN, picks : [Selectors -> Names]]
    /\ runLock \in Client \cup {NoClient}
    /\ handler \in [Client -> {"idle", "sent", "decorated", "applied", "changing", "stuck",
                               "answered"}]
    /\ request \in [Client -> Load \cup Change \cup {NoRequest}]
    /\ outcome \in [Client -> Readings \cup {"none", "rejected"}]
    /\ met \in [Client -> SUBSET Load]

NoParams == [patch |-> FALSE, picks |-> NoPicks]
Idle     == [c \in Client |-> "idle"]

CoreInit ==
    /\ core = Fresh /\ before = Fresh
    /\ health = AllAlive(NoProfile)
    /\ configParams = NoParams
    /\ runLock = NoClient
    /\ handler = Idle
    /\ request = [c \in Client |-> NoRequest]
    /\ outcome = [c \in Client |-> "none"]
    /\ met = [c \in Client |-> {}]

\* The requests that have not taken effect.
Pending == [c \in Client |-> IF handler[c] \in {"idle", "answered", "stuck"} THEN NoRequest
                                                                            ELSE request[c]]

At(c, from, to) == handler[c] = from /\ handler' = [handler EXCEPT ![c] = to]

\* The selections of these groups have been set: a fallback group has one again,
\* and a url-test group looks for the fastest anew.
Settle(groups) ==
    \E fast \in [groups \cap URLTest -> Node] :
        /\ \A g \in DOMAIN fast : fast[g] \in Fastest(core', health.dead, g)
        /\ health' = [health EXCEPT
                !.forgot = @ \ groups,
                !.fast = [g \in URLTest |-> IF g \in groups THEN fast[g] ELSE @[g]]]

\* The bytes are in the socket, or updateConfig has been called.
Ask(c, r) ==
    /\ At(c, "idle", "sent")
    /\ request' = [request EXCEPT ![c] = r]
    /\ met' = MeetsAfter(Pending, met, c, r)
    /\ UNCHANGED <<core, health, configParams, runLock, outcome, before>>

\* handleUpdateConfig up to applyConfig: configParams, the file, overwriteConfig.
Decorate(c, reading) ==
    /\ request[c] \in Load
    /\ At(c, "sent", "decorated")
    /\ configParams' = [patch |-> request[c].patch, picks |-> request[c].picks]
    /\ outcome' = [outcome EXCEPT ![c] = reading]
    /\ UNCHANGED <<core, health, runLock, request, before, met>>

\* applyConfig of a patch, under runLock.
ApplyPatch(c) ==
    /\ runLock = NoClient
    /\ At(c, "decorated", "answered")
    /\ configParams.patch
    /\ core' = AfterPatch(core, request[c], outcome[c])
    /\ met' = [met EXCEPT ![c] = {}]
    /\ UNCHANGED <<health, configParams, runLock, request, outcome, before>>

\* Mutant: applyConfig gives the lock back before patchSelectGroup.
ApplyConfigUnlocked(c) ==
    /\ runLock = NoClient
    /\ At(c, "decorated", "applied")
    /\ ~configParams.patch
    /\ before' = core
    /\ core' = AfterApply(request[c], outcome[c])
    /\ health' = AllAlive(core'.px)
    /\ UNCHANGED <<configParams, runLock, request, outcome, met>>

\* applyConfig of a whole configuration: hub.ApplyConfig ...
ApplyConfig(c) ==
    /\ runLock = NoClient
    /\ At(c, "decorated", "applied")
    /\ ~configParams.patch
    /\ runLock' = c
    /\ before' = core
    /\ core' = AfterApply(request[c], outcome[c])
    /\ health' = AllAlive(core'.px)
    /\ UNCHANGED <<configParams, request, outcome, met>>

\* ... and patchSelectGroup, which reads configParams again. The tunnel runs
\* in between.
PatchSelectGroup(c) ==
    /\ At(c, "applied", "answered")
    /\ core' = AfterSelect(core, configParams.picks)
    /\ Settle({g \in Selectors : configParams.picks[g] # "" /\ CanSelect(core.px, g)})
    /\ runLock' = NoClient
    /\ before' = Fresh
    /\ met' = [met EXCEPT ![c] = {}]
    /\ UNCHANGED <<configParams, request, outcome>>

\* handleChangeProxy takes the lock in the goroutine of the connection ...
LockChange(c) ==
    /\ runLock = NoClient
    /\ request[c] \in Change
    /\ At(c, "sent", "changing")
    /\ runLock' = c
    /\ UNCHANGED <<core, health, configParams, request, outcome, before, met>>

\* Mutant: the early returns of a refused change forget the lock.
ChangeProxyKeepLock(c) ==
    /\ At(c, "changing", "answered")
    /\ ~TestsChosen(core, health, request[c])
    /\ core' = AfterChange(core, request[c])
    /\ Settle(IF Accepts(core, request[c]) THEN {request[c].group} ELSE {})
    /\ runLock' = IF Accepts(core, request[c]) THEN NoClient ELSE runLock
    /\ outcome' = [outcome EXCEPT
            ![c] = IF Accepts(core, request[c]) THEN "good" ELSE "rejected"]
    /\ met' = [met EXCEPT ![c] = {}]
    /\ UNCHANGED <<configParams, request, before>>

\* ... and gives it back in another one, after the reply ...
ChangeProxy(c) ==
    /\ At(c, "changing", "answered")
    /\ ~TestsChosen(core, health, request[c])
    /\ core' = AfterChange(core, request[c])
    /\ Settle(IF Accepts(core, request[c]) THEN {request[c].group} ELSE {})
    /\ runLock' = NoClient
    /\ outcome' = [outcome EXCEPT
            ![c] = IF Accepts(core, request[c]) THEN "good" ELSE "rejected"]
    /\ met' = [met EXCEPT ![c] = {}]
    /\ UNCHANGED <<configParams, request, before>>

\* ... unless the chosen node is tested: the hook of every test takes runLock,
\* which this goroutine holds. The selection is set; no reply comes.
ChangeProxyStuck(c) ==
    /\ At(c, "changing", "stuck")
    /\ TestsChosen(core, health, request[c])
    /\ core' = AfterChange(core, request[c])
    /\ Settle({request[c].group})
    /\ met' = [met EXCEPT ![c] = {}]
    /\ UNCHANGED <<configParams, runLock, request, outcome, before>>

\* The reply is read, or nobody is there to read it.
Forget(c) ==
    /\ At(c, "answered", "idle")
    /\ request' = [request EXCEPT ![c] = NoRequest]
    /\ outcome' = [outcome EXCEPT ![c] = "none"]
    /\ UNCHANGED <<core, health, configParams, runLock, before, met>>

\* The process ends.
Die ==
    /\ core' = Fresh /\ before' = Fresh
    /\ health' = AllAlive(NoProfile)
    /\ configParams' = NoParams
    /\ runLock' = NoClient
    /\ handler' = Idle
    /\ request' = [c \in Client |-> NoRequest]
    /\ outcome' = [c \in Client |-> "none"]
    /\ met' = [c \in Client |-> {}]

Serve(c) ==
    \/ \E reading \in Readings : Decorate(c, reading)
    \/ ApplyPatch(c)
    \/ ApplyConfig(c)
    \/ PatchSelectGroup(c)
    \/ LockChange(c)
    \/ ChangeProxy(c)
    \/ ChangeProxyStuck(c)

\* A health check or a dial finds that a node has stopped answering, or resumed.
HealthCheck(n) ==
    /\ n \in NodesOf(core.px)
    /\ health' = [health EXCEPT !.dead = IF n \in @ THEN @ \ {n} ELSE @ \cup {n}]
    /\ UNCHANGED <<core, configParams, runLock, handler, request, outcome, before, met>>

\* A look at a fallback group whose selection does not answer drops it.
DropSelection(g) ==
    /\ g \in GroupsOf(core.px) \cap Fallback
    /\ core.sel[g] \in MembersOf(core.px, g) \cap health.dead
    /\ health' = [health EXCEPT !.forgot = @ \cup {g}]
    /\ UNCHANGED <<core, configParams, runLock, handler, request, outcome, before, met>>

\* A look at a url-test group, once the answer of the last ten seconds has expired.
FindFastest(g) ==
    /\ g \in GroupsOf(core.px) \cap URLTest
    /\ \E n \in Fastest(core, health.dead, g) : health' = [health EXCEPT !.fast[g] = n]
    /\ UNCHANGED <<core, configParams, runLock, handler, request, outcome, before, met>>

Look(g) == DropSelection(g) \/ FindFastest(g)

CoreNext ==
    \/ \E c \in Client : Serve(c) \/ Forget(c) \/ \E r \in Load \cup Change : Ask(c, r)
    \/ \E n \in Node : HealthCheck(n)
    \/ \E g \in Group : Look(g)
    \/ Die

CoreSpec == CoreInit /\ [][CoreNext]_coreVars

-----------------------------------------------------------------------------

\* runLock hides a load that is half applied.
Effective == IF \E c \in Client : handler[c] = "applied" THEN before ELSE core

Api == INSTANCE CoreApi WITH effective <- Effective, pending <- Pending, met <- met

\* Every request takes effect at one moment, as whoever holds runLock sees it,
\* and a load is applied with its own is-patch and selected-map unless another
\* load is under way with it (hub.go:88-105, common.go:349-367).
RequestsTakeEffectAtOnce == Api!Spec

\* A request that has reached the core is answered, unless the process ends or a
\* change of a fallback group to a node that does not answer has run into the
\* hook of its own test: no other path keeps runLock
\* (hub.go:117-154, common.go:350-351, fallback.go:139-144).
RequestsAreAnswered ==
    \A c \in Client :
        handler[c] = "sent" ~> \/ handler[c] \in {"answered", "idle"}
                              \/ \E d \in Client : handler[d] = "stuck"
=============================================================================
