----------------------------- MODULE GlobalMode -----------------------------
(***************************************************************************)
(* The mode of the application and the way to the core (GlobalModeResolver,*)
(* AppService, the Home, Proxies and Settings pages, the start of the VPN  *)
(* process): what the user chooses is saved in selected_map.json and, with *)
(* the VPN on, sent to the core in up to three requests; a restart of the  *)
(* VPN process resolves what is saved into one load.                       *)
(*                                                                         *)
(* A client in UI is an asynchronous handler of the UI process, cut where  *)
(* it waits for an answer; Vpn is loadActiveConfig. The files are those of *)
(* SelectedMap and Activation: here a reading or a writing is one step.    *)
(***************************************************************************)
EXTENDS CoreConfig, FiniteSets

CONSTANTS
    UI,
    Vpn,
    FirstSaved,  \* what selected_map.json may hold at first
    MaxOps       \* operations of the user, starts of the VPN process, upsets, and
                 \* nodes that stop or resume answering

Saved == [mode : {"", "global", "rule", "direct"}, picks : [Profile -> [Selectors -> Names]]]

ASSUME ClientsAssumption ==
    /\ Client = UI \cup {Vpn} /\ Vpn \notin UI

    /\ FirstSaved \subseteq Saved
    /\ MaxOps \in Nat

VARIABLES
    saved,      \* selected_map.json: the mode ("" is none), the choices per profile
    active,     \* the active profile
    vpnOn,      \* AppStorage vpnOn
    proc,       \* the VPN process: off, starting, loading, up
    plan,       \* what each handler has still to send; its head may be under way
    \* history
    upset,      \* why the core may differ from what is saved
    displaced,  \* groups that an endpoint has set, and no choice in the group since
    ops         \* operations so far

appVars == <<saved, active, vpnOn, proc, plan, upset, displaced, ops>>
vars    == <<coreVars, appVars>>

TypeOK ==
    /\ CoreTypeOK
    /\ saved \in Saved
    /\ active \in Profile
    /\ vpnOn \in BOOLEAN
    /\ proc \in {"off", "starting", "loading", "up"}
    /\ plan \in [UI -> Seq(Load \cup Change \cup {[kind |-> "endpoint"]})]
    /\ upset \subseteq {"overlap", "failure", "foreign", "unnoticed"}
    /\ displaced \subseteq Group
    /\ ops \in 0..MaxOps

Init ==
    /\ CoreInit
    /\ saved \in FirstSaved
    /\ active \in Profile
    /\ vpnOn = FALSE
    /\ proc = "off"
    /\ plan = [u \in UI |-> <<>>]
    /\ upset = {} /\ displaced = {}
    /\ ops = 0

-----------------------------------------------------------------------------
(* What an endpoint means.                                                 *)

\* YamlConfigView.findGroupContaining: the first group of the file, or none.
FirstGroup(p, node) ==
    LET holding == {i \in DOMAIN Config[p] : node \in ElementsOf(Config[p][i].proxies)}
    IN  IF holding = {} THEN ""
        ELSE Config[p][CHOOSE i \in holding : \A j \in holding : i <= j].name

\* Mutant: the mode is handed on as it is saved.
ResolveLower(mode, picks, p) ==
    [mode |-> IF mode = "" THEN "global" ELSE mode, picks |-> [picks EXCEPT !["GLOBAL"] = ""]]

\* GlobalModeResolver.resolve: only the rule mode is told from the others; an
\* endpoint that is nowhere in the profile leaves GLOBAL to the core.
Resolve(mode, picks, p) ==
    LET endpoint == picks["GLOBAL"]
        group    == FirstGroup(p, endpoint)
        inGroups == [picks EXCEPT !["GLOBAL"] = ""]
    IN  CASE mode = "rule" -> [mode |-> "RULE", picks |-> inGroups]
          [] mode # "rule" /\ endpoint = "DIRECT" -> [mode |-> "DIRECT", picks |-> inGroups]
          [] OTHER -> [mode |-> "GLOBAL",
                       picks |-> IF endpoint \in GroupsOf(p)
                                   THEN [inGroups EXCEPT !["GLOBAL"] = endpoint]
                                 ELSE IF group # ""
                                   THEN [inGroups EXCEPT !["GLOBAL"] = group,
                                                         ![group] = endpoint]
                                 ELSE inGroups]

\* AppService.patchMode, and every patch of the Settings page.
Patch(mode) == [kind |-> "load", profile |-> active, mode |-> mode, patch |-> TRUE,
                picks |-> NoPicks]
Pick(group, name) == [kind |-> "change", group |-> group, name |-> name]

\* Mutant: the mode is patched before the proxy is chosen.
ApplyEndpointModeFirst(endpoint) ==
    LET group == FirstGroup(active, endpoint)
    IN  CASE endpoint = "DIRECT" -> <<Patch("DIRECT")>>
          [] endpoint \in GroupsOf(active) -> <<Patch("GLOBAL"), Pick("GLOBAL", endpoint)>>
          [] group # "" -> <<Patch("GLOBAL"), Pick(group, endpoint), Pick("GLOBAL", group)>>
          [] OTHER -> <<>>

\* AppService.applyGlobalEndpoint; an endpoint that is nowhere sends nothing
\* and is an error.
ApplyEndpoint(endpoint) ==
    LET group == FirstGroup(active, endpoint)
    IN  CASE endpoint = "DIRECT" -> <<Patch("DIRECT")>>
          [] endpoint \in GroupsOf(active) -> <<Pick("GLOBAL", endpoint), Patch("GLOBAL")>>
          [] group # "" -> <<Pick(group, endpoint), Pick("GLOBAL", group), Patch("GLOBAL")>>
          [] OTHER -> <<>>

-----------------------------------------------------------------------------
(* The user.                                                               *)

Ready(u) == handler[u] = "idle" /\ plan[u] = <<>>
Free(u)  == Ready(u) /\ u = CHOOSE v \in UI : Ready(v)
Calm     == \A u \in UI : Ready(u)

\* What an operation upsets by coming when it comes: another one is under way,
\* or the core runs and the pages do not know it.
Untimely == (IF Calm THEN {} ELSE {"overlap"})
            \cup (IF proc \in {"loading", "up"} /\ (proc = "loading" \/ ~vpnOn)
                    THEN {"unnoticed"} ELSE {})

\* The bound on what the user does.
Bounded == ops' + Cardinality(upset') <= MaxOps

\* Handler u begins, and has these steps to take if the VPN is on.
Begin(u, steps) ==
    /\ ops' = ops + 1
    /\ Free(u)
    /\ plan' = [plan EXCEPT ![u] = IF vpnOn THEN steps ELSE <<>>]

\* Home.setMode.
SetMode(u, mode) ==
    /\ Begin(u, CASE mode = "global" -> <<[kind |-> "endpoint"]>>
                  [] mode = "direct" -> <<Patch("DIRECT")>>
                  [] mode = "rule"   -> <<Patch("RULE")>>)
    /\ saved' = [saved EXCEPT !.mode = mode]
    /\ upset' = upset \cup Untimely
    /\ Bounded
    /\ UNCHANGED <<coreVars, active, vpnOn, proc, displaced>>

\* Proxies.changeNode on the page of the global mode: DIRECT, a group or a node.
ChooseEndpoint(u, endpoint) ==
    /\ saved.mode \in {"", "global"}
    /\ endpoint \in MembersOf(active, "GLOBAL")
    /\ Begin(u, ApplyEndpoint(endpoint))
    /\ saved' = [saved EXCEPT !.picks[active]["GLOBAL"] = endpoint]
    /\ upset' = upset \cup Untimely
    /\ Bounded
    /\ UNCHANGED <<coreVars, active, vpnOn, proc, displaced>>

\* Mutant: the choice is only recorded when the VPN is off.
ChooseNodeUnsaved(u, group, node) ==
    /\ saved.mode \in {"rule", "direct"}
    /\ LET p == IF vpnOn THEN core.px ELSE active
       IN  group \in GroupsOf(p) /\ node \in MembersOf(p, group)
    /\ Begin(u, <<Pick(group, node)>>)
    /\ saved' = IF vpnOn THEN saved ELSE [saved EXCEPT !.picks[active][group] = node]
    /\ upset' = upset \cup Untimely
    /\ Bounded
    /\ displaced' = IF vpnOn THEN displaced \ {group} ELSE displaced
    /\ UNCHANGED <<coreVars, active, vpnOn, proc>>

\* Proxies.changeNode on the page of the other modes: a node of a group, as
\* the core has them when the VPN is on.
ChooseNode(u, group, node) ==
    /\ saved.mode \in {"rule", "direct"}
    /\ LET p == IF vpnOn THEN core.px ELSE active
       IN  group \in GroupsOf(p) /\ node \in MembersOf(p, group)
    /\ Begin(u, <<Pick(group, node)>>)
    /\ saved' = [saved EXCEPT !.picks[active][group] = node]
    /\ upset' = upset \cup Untimely
    /\ Bounded
    /\ displaced' = IF vpnOn THEN displaced \ {group} ELSE displaced
    /\ UNCHANGED <<coreVars, active, vpnOn, proc>>

\* Settings.patchConfig: a fresh ClashConfig, whose mode is GLOBAL, whatever is
\* saved; it is sent whether or not the VPN is on.
PatchSettings(u) ==
    /\ ops' = ops + 1
    /\ Free(u)
    /\ plan' = [plan EXCEPT ![u] = <<Patch("GLOBAL")>>]
    /\ upset' = upset \cup Untimely \cup {"foreign"}
    /\ Bounded
    /\ UNCHANGED <<coreVars, saved, active, vpnOn, proc, displaced>>

\* Profiles.activate, seen from here: nothing loads the profile into the core.
Activate(p) ==
    /\ ops' = ops + 1
    /\ p # active /\ active' = p
    /\ upset' = upset \cup {"foreign"}
    /\ Bounded
    /\ UNCHANGED <<coreVars, saved, vpnOn, proc, plan, displaced>>

-----------------------------------------------------------------------------
(* The steps of a handler.                                                 *)

\* setMode reads the endpoint it is to apply.
ReadEndpoint(u) ==
    /\ plan[u] = <<[kind |-> "endpoint"]>>
    /\ LET steps == ApplyEndpoint(saved.picks[active]["GLOBAL"])
       IN  /\ plan' = [plan EXCEPT ![u] = steps]
           /\ upset' = IF steps = <<>> THEN upset \cup {"failure"} ELSE upset
    /\ UNCHANGED <<coreVars, saved, active, vpnOn, proc, displaced, ops>>

\* Choosing an endpoint that is a node sets its group in the core.
Displaces(u) ==
    IF Len(plan[u]) = 3 THEN {r.group : r \in ElementsOf(plan[u]) \cap Change} \cap Group
                        ELSE {}

SendRequest(u) ==
    /\ plan[u] # <<>> /\ Head(plan[u]) \in Load \cup Change
    /\ proc \in {"loading", "up"}
    /\ Ask(u, Head(plan[u]))
    /\ displaced' = displaced \cup Displaces(u)
    /\ UNCHANGED <<saved, active, vpnOn, proc, plan, upset, ops>>

\* There is no socket, or nobody listens.
NotConnected(u) ==
    /\ plan[u] # <<>> /\ handler[u] = "idle"
    /\ proc \in {"off", "starting"}
    /\ plan' = [plan EXCEPT ![u] = <<>>]
    /\ UNCHANGED <<coreVars, saved, active, vpnOn, proc, upset, displaced, ops>>

\* The answer: an error of changeProxy ends the handler, that of a load is not
\* looked at.
Answered(u) ==
    /\ plan[u] # <<>>
    /\ Forget(u)
    /\ plan' = [plan EXCEPT ![u] = IF outcome[u] = "rejected" THEN <<>> ELSE Tail(plan[u])]
    /\ upset' = IF outcome[u] = "good" THEN upset ELSE upset \cup {"failure"}
    /\ UNCHANGED <<saved, active, vpnOn, proc, displaced, ops>>

\* Ten seconds have passed. The rest is not sent; the request goes on.
TimeOut(u) ==
    /\ plan[u] # <<>> /\ handler[u] \notin {"idle", "answered"}
    /\ plan' = [plan EXCEPT ![u] = <<>>]
    /\ upset' = upset \cup {"failure"}
    /\ UNCHANGED <<coreVars, saved, active, vpnOn, proc, displaced, ops>>

\* The late answer finds a closed socket.
Unheard(u) ==
    /\ plan[u] = <<>>
    /\ Forget(u)
    /\ UNCHANGED appVars

-----------------------------------------------------------------------------
(* The VPN process.                                                        *)

TurnOn ==
    /\ ops' = ops + 1
    /\ proc = "off" /\ proc' = "starting"
    /\ UNCHANGED <<coreVars, saved, active, vpnOn, plan, upset, displaced>>
    /\ Bounded

\* loadActiveConfig: the socket answers already.
LoadActiveConfig ==
    /\ proc = "starting" /\ proc' = "loading"
    /\ LET r     == Resolve(saved.mode, saved.picks[active], active)
           group == FirstGroup(active, saved.picks[active]["GLOBAL"])
       IN  /\ Ask(Vpn, [kind |-> "load", profile |-> active, mode |-> r.mode, patch |-> FALSE,
                        picks |-> r.picks])
           /\ displaced' = IF r.mode = "GLOBAL" /\ group # "" THEN {group} ELSE {}
    /\ upset' = IF Calm THEN {} ELSE {"overlap"}
    /\ UNCHANGED <<saved, active, vpnOn, plan, ops>>

\* updateConfig has returned, whatever it says.
Loaded ==
    /\ proc = "loading" /\ proc' = "up"
    /\ Forget(Vpn)
    /\ upset' = IF outcome[Vpn] = "good" THEN upset ELSE upset \cup {"failure"}
    /\ UNCHANGED <<saved, active, vpnOn, plan, displaced, ops>>

\* The Home page learns that the VPN is on, or off (HomeSwitch).
Noticed ==
    /\ \/ proc = "up"  /\ ~vpnOn /\ vpnOn' = TRUE
       \/ proc = "off" /\ vpnOn  /\ vpnOn' = FALSE
    /\ UNCHANGED <<coreVars, saved, active, proc, plan, upset, displaced, ops>>

\* The process ends; who waits for it is told, or times out.
ProcessEnds ==
    /\ proc # "off" /\ proc' = "off"
    /\ Die
    /\ plan' = [u \in UI |-> IF handler[u] = "idle" THEN plan[u] ELSE <<>>]
    /\ UNCHANGED <<saved, active, vpnOn, upset, displaced, ops>>

HandlerStep(c) == Serve(c) /\ UNCHANGED appVars

\* The nodes of the core, and the groups that are looked at.
Test(n) ==
    /\ ops' = ops + 1
    /\ HealthCheck(n)
    /\ UNCHANGED <<saved, active, vpnOn, proc, plan, upset, displaced>>
    /\ Bounded

LookAt(g) == Look(g) /\ UNCHANGED appVars

Next ==
    \/ \E u \in UI :
        \/ \E mode \in {"global", "rule", "direct"} : SetMode(u, mode)
        \/ \E endpoint \in Names : ChooseEndpoint(u, endpoint)
        \/ \E group \in Group, node \in Node : ChooseNode(u, group, node)
        \/ PatchSettings(u)
        \/ ReadEndpoint(u) \/ SendRequest(u) \/ NotConnected(u)
        \/ Answered(u) \/ TimeOut(u) \/ Unheard(u)
    \/ \E p \in Profile : Activate(p)
    \/ TurnOn \/ LoadActiveConfig \/ Loaded \/ Noticed \/ ProcessEnds
    \/ \E c \in Client : HandlerStep(c)
    \/ \E n \in Node : Test(n)
    \/ \E g \in Group : LookAt(g)

Spec == Init /\ [][Next]_vars

\* The goroutines run on, and a sync.Mutex does not starve who waits for it.
FairSpec ==
    /\ Spec
    /\ \A c \in Client :
        /\ WF_vars((\E reading \in Readings : Decorate(c, reading)) /\ UNCHANGED appVars)
        /\ WF_vars((PatchSelectGroup(c) \/ ChangeProxy(c) \/ ChangeProxyStuck(c))
                      /\ UNCHANGED appVars)
        /\ SF_vars((ApplyPatch(c) \/ ApplyConfig(c) \/ LockChange(c)) /\ UNCHANGED appVars)

-----------------------------------------------------------------------------

Quiet == proc = "up" /\ Calm /\ handler[Vpn] = "idle"

\* What the core would be after a restart that goes well.
Restarted ==
    LET r == Resolve(saved.mode, saved.picks[active], active)
    IN  AfterSelect([px |-> active, mode |-> r.mode, sel |-> NoPicks], r.picks)

\* What the restarted core may go by once it has found dead the nodes that are:
\* a fallback group has its selection again.
FoundAgain ==
    {h \in [dead : {health.dead}, forgot : {{}}, fast : [URLTest -> Node \cup {""}]] :
        \A g \in GroupsOf(active) \cap URLTest : h.fast[g] \in Fastest(Restarted, h.dead, g)}

\* Going through the pages or through a restart comes to the same: the requests
\* sent to a running core leave it where loading what they saved would have put
\* it (AppService.ets:208-235 against ConfigReader.ts:110-150). Not after a
\* failure, overlapping operations, a patch of the settings or an activation,
\* not in the mode "direct", and a group that an endpoint has set keeps that
\* node until the next restart. Nor where a group has gone its own way since:
\* a fallback group that has dropped its selection, because its node did not
\* answer, gets it back by a restart (fallback.go:104-123, common.go:324-347).
RestartAgrees ==
    Quiet /\ upset = {} /\ saved.mode # "direct" =>
        /\ core.mode = Restarted.mode
        /\ LET global == Selected(core, "GLOBAL")
               astray == {g \in GroupsOf(core.px) : Unsettled(core, health, g)}
           IN  \/ core.mode = "GLOBAL" /\ global \in displaced
                  /\ saved.picks[active]["GLOBAL"] \in Group
               \/ core.mode = "GLOBAL" /\ global \in astray
               \/ \E h \in FoundAgain :
                    \A g \in GroupsOf(core.px)
                             \ (IF core.mode = "RULE" THEN displaced \cup astray ELSE {}) :
                        Exit(core, health, g) = Exit(Restarted, h, g)

\* The global mode of a core that is up changes, or a selection, and it is due to
\* one operation, which may have failed.
GlobalStep ==
    /\ saved.mode \in {"", "global"} /\ upset' \subseteq {"failure"}
    /\ proc = "up" /\ proc' = "up"
    /\ core # core' /\ core'.mode = "GLOBAL"

\* While the VPN is up in the global mode and no operations overlap, everything
\* goes from the old exit, or the rules, to the exit chosen without a third in
\* between, also when a request of the two or three fails (AppService.ets:216-230).
\* The one exception is a chosen node whose group is no selector and passes it
\* over, for it does not answer, or did not when the group looked last
\* (urltest.go:109-154, fallback.go:104-123).
NoDetour ==
    [][GlobalStep =>
        LET endpoint == saved.picks[active]["GLOBAL"]
            holder   == FirstGroup(active, endpoint)
            chosen   == IF endpoint \in GroupsOf(core'.px) THEN Now(core', health', endpoint)
                                                           ELSE endpoint
        IN  \/ GlobalExit(core', health') = chosen
            \/ core.mode = "GLOBAL" /\ GlobalExit(core', health') = GlobalExit(core, health)
            \/ /\ Selected(core', "GLOBAL") = holder /\ core'.sel[holder] = endpoint
               /\ holder \in URLTest \cup Fallback
               /\ endpoint \in health'.dead \/ Unsettled(core', health', holder)]_vars

\* "The mode and the choice of the node persist across restarts" (README.md:10):
\* the mode that the Home page shows is the mode of the core.
RestartKeepsMode ==
    Quiet /\ upset = {} /\ saved.mode = "direct" => core.mode = "DIRECT"
=============================================================================
