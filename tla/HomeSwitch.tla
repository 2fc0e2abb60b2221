---------------------------- MODULE HomeSwitch ----------------------------
(***************************************************************************)
(* The VPN switch of the UI process: toggleVpn of the Home page, the       *)
(* heartbeat of AppService that tells it when the VPN process is dead, and *)
(* the background task of BackgroundKeepAliveService.  The VPN process is  *)
(* what the two calls of vpnExtension and the pings see of it.             *)
(*                                                                         *)
(* Everything runs on one JavaScript thread; a step ends where the code    *)
(* waits for the system or for the VPN process.                            *)
(***************************************************************************)
EXTENDS Integers, FiniteSets

CONSTANTS
    Pings,      \* pingCore calls that can overlap
    Starts,     \* BackgroundKeepAliveService.start calls that can overlap
    Threshold   \* HEARTBEAT_FAIL_THRESHOLD

ASSUME SwitchAssumption == Threshold \in Nat \ {0}

VARIABLES
    vpnOn,      \* AppStorage vpnOn, what the switch shows
    vpnAlive,   \* AppStorage vpnAlive, watched by the page
    phase,      \* toggleVpn: idle, starting, stopping, or over and still toggling
    heartbeat,  \* heartbeatTimer is set
    fails,      \* heartbeatFailCount, up to Threshold
    poll,       \* trafficTimer is set
    ping,       \* what each pingCore has: nothing, no answer yet, or an answer
    core,       \* the VPN process: off, starting, or up with its configuration
    keeper,     \* where each start of the background task is
    keepId,     \* notificationId is defined
    timers,     \* notice timers that run, up to 2
    stopTask,   \* stop waits for stopBackgroundRunning
    task,       \* the system's background task
    on,         \* history: the last toggleVpn that succeeded switched on
    apart       \* history: no start of the background task has overlapped another or a
                \* stop, and no stop has failed to end it

switch == <<vpnOn, phase, heartbeat, poll, core, on>>
alive  == <<vpnAlive, fails, ping>>
keep   == <<keeper, keepId, timers, stopTask, task, apart>>
vars   == <<switch, alive, keep>>

Phases == {"idle", "starting", "stopping", "over"}

TypeOK ==
    /\ vpnOn \in BOOLEAN /\ vpnAlive \in BOOLEAN /\ heartbeat \in BOOLEAN /\ poll \in BOOLEAN
    /\ phase \in Phases
    /\ fails \in 0..Threshold
    /\ ping \in [Pings -> {"none", "sent", "ready", "failed"}]
    /\ core \in {"off", "starting", "up"}
    /\ keeper \in [Starts -> {"none", "asked", "granted"}]
    /\ keepId \in BOOLEAN /\ stopTask \in BOOLEAN /\ task \in BOOLEAN
    /\ timers \in 0..2
    /\ on \in BOOLEAN /\ apart \in BOOLEAN

Init ==
    /\ vpnOn = FALSE /\ vpnAlive = FALSE /\ heartbeat = FALSE /\ poll = FALSE
    /\ phase = "idle"
    /\ fails = 0
    /\ ping = [i \in Pings |-> "none"]
    /\ core = "off"
    /\ keeper = [k \in Starts |-> "none"]
    /\ keepId = FALSE /\ stopTask = FALSE /\ task = FALSE
    /\ timers = 0
    /\ on = FALSE /\ apart = TRUE

----------------------------------------------------------------------------
(* BackgroundKeepAliveService *)

KeepersIdle == \A k \in Starts : keeper[k] = "none"

\* start: it returns when the task runs already, and asks the system otherwise.
KeepStart ==
    IF keepId
      THEN UNCHANGED keep
      ELSE /\ \E k \in Starts :
                 keeper[k] = "none" /\ keeper' = [keeper EXCEPT ![k] = "asked"]
           /\ apart' = (apart /\ KeepersIdle /\ ~stopTask)
           /\ UNCHANGED <<keepId, timers, stopTask, task>>

\* startContinuousTask: the system starts the task, or refuses.
KeepGranted(k) ==
    /\ keeper[k] = "asked"
    /\ keeper' = [keeper EXCEPT ![k] = "granted"]
    /\ task' = TRUE
    /\ UNCHANGED <<switch, alive, keepId, timers, stopTask, apart>>

KeepRefused(k) ==
    /\ keeper[k] = "asked"
    /\ keeper' = [keeper EXCEPT ![k] = "none"]
    /\ UNCHANGED <<switch, alive, keepId, timers, stopTask, task, apart>>

\* The rest of start: a second timer leaves the first one without a handle.
KeepStarted(k) ==
    /\ keeper[k] = "granted"
    /\ keeper' = [keeper EXCEPT ![k] = "none"]
    /\ keepId' = TRUE
    /\ timers' = IF timers = 2 THEN 2 ELSE timers + 1
    /\ UNCHANGED <<switch, alive, stopTask, task, apart>>

\* Mutant: a timer is cleared although none is known.
KeepStopUnchecked ==
    /\ timers' = timers - 1
    /\ keepId' = FALSE
    /\ stopTask' = TRUE
    /\ apart' = (apart /\ KeepersIdle)
    /\ UNCHANGED <<keeper, task>>

\* Mutant: the notice timer is not cleared.
KeepStopTimed ==
    /\ keepId' = FALSE
    /\ stopTask' = TRUE
    /\ apart' = (apart /\ KeepersIdle)
    /\ UNCHANGED <<keeper, timers, task>>

\* stop, up to its stopBackgroundRunning; it clears the timer it knows.
KeepStop ==
    /\ timers' = IF keepId THEN timers - 1 ELSE timers
    /\ keepId' = FALSE
    /\ stopTask' = TRUE
    /\ apart' = (apart /\ KeepersIdle)
    /\ UNCHANGED <<keeper, task>>

TaskStopped ==
    /\ stopTask
    /\ stopTask' = FALSE
    /\ task' = FALSE
    /\ UNCHANGED <<switch, alive, keeper, keepId, timers, apart>>

\* stopBackgroundRunning fails, as it does when there is no task: it is logged.
TaskStopFails ==
    /\ stopTask
    /\ stopTask' = FALSE
    /\ apart' = (apart /\ ~task)
    /\ UNCHANGED <<switch, alive, keeper, keepId, timers, task>>

----------------------------------------------------------------------------
(* The heartbeat *)

\* The heartbeat timer, or a page or the ability that comes to the foreground,
\* calls pingCore, which asks the VPN process whether its configuration is loaded.
Send(i) ==
    /\ ping[i] = "none"
    /\ ping' = [ping EXCEPT ![i] = "sent"]
    /\ UNCHANGED <<switch, vpnAlive, fails, keep>>

Tick(i) == heartbeat /\ Send(i)

PingNow(i) == Send(i)

\* The answer, or its absence: any ping can run into its timeout.
Answer(i) ==
    /\ ping[i] = "sent"
    /\ ping' = [ping EXCEPT ![i] = IF core = "up" THEN "ready" ELSE "failed"]
    /\ UNCHANGED <<switch, vpnAlive, fails, keep>>

TimeOut(i) ==
    /\ ping[i] = "sent"
    /\ ping' = [ping EXCEPT ![i] = "failed"]
    /\ UNCHANGED <<switch, vpnAlive, fails, keep>>

\* markAlive(true)
MarkAlive(i) ==
    /\ ping[i] = "ready"
    /\ ping' = [ping EXCEPT ![i] = "none"]
    /\ fails' = 0
    /\ vpnAlive' = TRUE
    /\ UNCHANGED <<switch, keep>>

\* The page sees vpnAlive become false and resets the switch.
AliveChanged ==
    /\ vpnOn' = FALSE
    /\ poll' = IF vpnOn THEN FALSE ELSE poll
    /\ UNCHANGED <<phase, heartbeat, core, on>>

\* Mutant: the page does not watch vpnAlive.
MarkDeadUnwatched(i) ==
    /\ ping[i] = "failed"
    /\ ping' = [ping EXCEPT ![i] = "none"]
    /\ fails' = IF fails = Threshold THEN Threshold ELSE fails + 1
    /\ vpnAlive' = (vpnAlive /\ fails' < Threshold)
    /\ UNCHANGED <<switch, keep>>

\* markAlive(false): only a change of vpnAlive is seen by the page.
MarkDead(i) ==
    /\ ping[i] = "failed"
    /\ ping' = [ping EXCEPT ![i] = "none"]
    /\ fails' = IF fails = Threshold THEN Threshold ELSE fails + 1
    /\ IF vpnAlive /\ fails' = Threshold
         THEN vpnAlive' = FALSE /\ AliveChanged
         ELSE UNCHANGED <<vpnAlive, switch>>
    /\ UNCHANGED keep

\* startHeartbeat: nothing when the timer is set already.
StartHeartbeat ==
    IF heartbeat
      THEN UNCHANGED <<heartbeat, fails, vpnAlive>>
      ELSE heartbeat' = TRUE /\ fails' = 0 /\ vpnAlive' = TRUE

StopHeartbeat == heartbeat' = FALSE /\ fails' = 0 /\ vpnAlive' = FALSE

----------------------------------------------------------------------------
(* The Home page *)

\* The user taps the switch.
Toggle ==
    /\ phase = "idle"
    /\ vpnOn' = ~vpnOn
    /\ phase' = IF vpnOn THEN "stopping" ELSE "starting"
    /\ UNCHANGED <<heartbeat, poll, core, on, alive, keep>>

\* startVpnExtensionAbility has returned; a process that runs already goes on.
Started ==
    /\ phase = "starting"
    /\ phase' = "over"
    /\ core' = IF core = "off" THEN "starting" ELSE core
    /\ poll' = TRUE
    /\ on' = TRUE
    /\ StartHeartbeat
    /\ KeepStart
    /\ UNCHANGED <<vpnOn, ping>>

\* Mutant: the heartbeat is not stopped.
StoppedBeating ==
    /\ phase = "stopping"
    /\ phase' = "over"
    /\ core' = "off"
    /\ poll' = FALSE
    /\ on' = FALSE
    /\ KeepStop
    /\ UNCHANGED <<vpnOn, heartbeat, fails, vpnAlive, ping>>

\* stopVpnExtensionAbility has returned.
Stopped ==
    /\ phase = "stopping"
    /\ phase' = "over"
    /\ core' = "off"
    /\ poll' = FALSE
    /\ on' = FALSE
    /\ StopHeartbeat
    /\ KeepStop
    /\ UNCHANGED <<vpnOn, ping>>

\* Either call is rejected: the switch is rolled back.
ToggleFails ==
    /\ phase \in {"starting", "stopping"}
    /\ vpnOn' = (phase = "stopping")
    /\ phase' = "over"
    /\ UNCHANGED <<heartbeat, poll, core, on, alive, keep>>

\* toggling is cleared 500 ms after toggleVpn.
Settled ==
    /\ phase = "over"
    /\ phase' = "idle"
    /\ UNCHANGED <<vpnOn, heartbeat, poll, core, on, alive, keep>>

\* The page is hidden; showing it again does not start the poll.
PageHide ==
    /\ poll
    /\ poll' = FALSE
    /\ UNCHANGED <<vpnOn, phase, heartbeat, core, on, alive, keep>>

\* The VPN process has its configuration; it can die at any time.
CoreUp ==
    /\ core = "starting"
    /\ core' = "up"
    /\ UNCHANGED <<vpnOn, phase, heartbeat, poll, on, alive, keep>>

CoreDies ==
    /\ core # "off"
    /\ core' = "off"
    /\ UNCHANGED <<vpnOn, phase, heartbeat, poll, on, alive, keep>>

----------------------------------------------------------------------------

Return(i) == MarkAlive(i) \/ MarkDead(i)

Next ==
    \/ Toggle \/ Started \/ Stopped \/ ToggleFails \/ Settled \/ PageHide
    \/ CoreUp \/ CoreDies
    \/ \E i \in Pings : Tick(i) \/ PingNow(i) \/ Answer(i) \/ TimeOut(i) \/ MarkAlive(i) \/ MarkDead(i)
    \/ \E k \in Starts : KeepGranted(k) \/ KeepRefused(k) \/ KeepStarted(k)
    \/ TaskStopped \/ TaskStopFails

\* Timers go off, the system answers, and a ping is answered or times out.
Fairness ==
    /\ WF_vars(Started \/ Stopped \/ ToggleFails)
    /\ WF_vars(Settled)
    /\ WF_vars(\E i \in Pings : Tick(i))
    /\ \A i \in Pings : WF_vars(Answer(i)) /\ WF_vars(Return(i))

Spec == Init /\ [][Next]_vars

FairSpec == Spec /\ Fairness

----------------------------------------------------------------------------
(* Properties *)

\* Once the last toggle that succeeded was a stop, whatever was tried and failed
\* since: the switch is off, nothing pings and nothing polls (Home.ets:152-:175).
OffMeansQuiet ==
    phase = "idle" /\ ~on => ~vpnOn /\ ~heartbeat /\ ~poll

\* At rest, unless a start of the background task has overlapped another or a
\* stop, or a stop has failed: the service's id, its timer and the system's task
\* go together, and none of them is left once the VPN was switched off
\* (BackgroundKeepAliveService.ets:26-:77).
KeepAliveConsistent ==
    KeepersIdle /\ ~stopTask /\ apart =>
        /\ keepId <=> task
        /\ timers = IF keepId THEN 1 ELSE 0
        /\ phase = "idle" /\ ~on => ~task

\* Where vpnAlive is true when the VPN process is dead, the switch goes off, unless
\* the process is started again (AppService.ets:104-:140, Home.ets:50-:61).
DeadIsNoticed ==
    (vpnOn /\ vpnAlive /\ core = "off") ~> (~vpnOn \/ core # "off")

\* What the comment at Home.ets:51 says the heartbeat is there for: the switch does
\* not stay on over a dead process.
NoFalseConnection ==
    (vpnOn /\ core = "off") ~> (~vpnOn \/ core # "off")
====
