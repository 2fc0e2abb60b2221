-------------------------- MODULE HomeSwitchProofs --------------------------
(***************************************************************************)
(* The safety of HomeSwitch for any number of overlapping pings and starts *)
(* and any threshold.                                                      *)
(***************************************************************************)
EXTENDS HomeSwitch, TLAPS

\* A switch that was last switched off is only on while a start is tried.
OffInv ==
    /\ phase = "stopping" => ~vpnOn
    /\ ~on => ~heartbeat /\ ~poll /\ phase # "stopping" /\ (vpnOn => phase = "starting")

\* The background task while no start has overlapped another or a stop.
KeepInv ==
    apart =>
        /\ \A k, l \in Starts : keeper[k] # "none" /\ keeper[l] # "none" => k = l
        /\ \A k \in Starts : keeper[k] = "asked" => ~task
        /\ \A k \in Starts : keeper[k] = "granted" => task
        /\ ~KeepersIdle => ~keepId /\ ~stopTask
        /\ stopTask => ~keepId
        /\ timers = IF keepId THEN 1 ELSE 0
        /\ KeepersIdle /\ ~stopTask => (keepId <=> task)
        /\ ~on => KeepersIdle /\ ~keepId

\* The timer of the task that is known runs.
TimerInv == keepId => timers # 0

IInv == TypeOK /\ OffInv /\ KeepInv /\ TimerInv

----------------------------------------------------------------------------

\* What start and stop do to the background task.
LEMMA KeepStartStep ==
    ASSUME TypeOK, KeepInv, TimerInv, KeepStart, on'
    PROVE  /\ KeepInv' /\ TimerInv'
           /\ keeper' \in [Starts -> {"none", "asked", "granted"}]
           /\ keepId' \in BOOLEAN /\ stopTask' \in BOOLEAN /\ task' \in BOOLEAN
           /\ timers' \in 0..2 /\ apart' \in BOOLEAN
<1>1. CASE keepId
  <2>1. UNCHANGED <<keeper, keepId, timers, stopTask, task, apart>>
    BY <1>1 DEF KeepStart, keep
  <2> QED BY <2>1 DEF TypeOK, KeepInv, KeepersIdle, TimerInv
<1>2. CASE ~keepId
  <2>1. PICK k \in Starts : keeper[k] = "none" /\ keeper' = [keeper EXCEPT ![k] = "asked"]
    BY <1>2 DEF KeepStart
  <2>2. /\ apart' = (apart /\ KeepersIdle /\ ~stopTask)
        /\ UNCHANGED <<keepId, timers, stopTask, task>>
    BY <1>2 DEF KeepStart
  <2>3. KeepInv'
    BY <1>2, <2>1, <2>2 DEF TypeOK, KeepInv, KeepersIdle
  <2>4. apart' \in BOOLEAN
    BY <2>2, Zenon DEF TypeOK
  <2> QED BY <2>1, <2>2, <2>3, <2>4 DEF TypeOK, TimerInv
<1> QED BY <1>1, <1>2 DEF TypeOK

LEMMA KeepStopStep ==
    ASSUME TypeOK, KeepInv, TimerInv, KeepStop
    PROVE  /\ KeepInv' /\ TimerInv'
           /\ keepId' \in BOOLEAN /\ stopTask' \in BOOLEAN /\ apart' \in BOOLEAN
           /\ timers' \in 0..2
<1>1. apart' \in BOOLEAN
  BY Zenon DEF TypeOK, KeepStop
<1>2. timers' \in 0..2
  BY DEF TypeOK, KeepStop, TimerInv
<1>3. KeepInv'
  BY DEF TypeOK, KeepInv, KeepersIdle, KeepStop
<1> QED BY <1>1, <1>2, <1>3 DEF TypeOK, KeepStop, TimerInv

----------------------------------------------------------------------------
(* The page *)

LEMMA PageStep ==
    ASSUME IInv, Toggle \/ Started \/ Stopped \/ ToggleFails \/ Settled \/ PageHide
                 \/ CoreUp \/ CoreDies
    PROVE  IInv'
<1> USE DEF IInv, TypeOK, Phases, OffInv
<1>1. ASSUME Started PROVE IInv'
  <2>1. KeepStart /\ on'
    BY <1>1 DEF Started
  <2>2. heartbeat' \in BOOLEAN /\ fails' \in 0..Threshold /\ vpnAlive' \in BOOLEAN
    <3>1. CASE heartbeat
      BY <1>1, <3>1 DEF Started, StartHeartbeat
    <3>2. CASE ~heartbeat
      BY <1>1, <3>2, SwitchAssumption DEF Started, StartHeartbeat
    <3> QED BY <3>1, <3>2
  <2>3. TypeOK' /\ OffInv'
    BY <1>1, <2>1, <2>2, KeepStartStep DEF Started
  <2> QED BY <2>1, <2>3, KeepStartStep
<1>2. ASSUME Stopped PROVE IInv'
  <2>1. KeepStop
    BY <1>2 DEF Stopped
  <2>2. heartbeat' \in BOOLEAN /\ fails' \in 0..Threshold /\ vpnAlive' \in BOOLEAN
    <3>1. heartbeat' = FALSE /\ fails' = 0 /\ vpnAlive' = FALSE
      BY <1>2 DEF Stopped, StopHeartbeat
    <3>2. 0 \in 0..Threshold
      BY SwitchAssumption
    <3> QED BY <3>1, <3>2, Zenon
  <2>3. TypeOK'
    BY <1>2, <2>1, <2>2, KeepStopStep DEF Stopped, KeepStop
  <2>4. OffInv'
    BY <1>2 DEF Stopped, StopHeartbeat
  <2> QED BY <2>1, <2>3, <2>4, KeepStopStep
<1>3. ASSUME Toggle \/ ToggleFails \/ Settled \/ PageHide \/ CoreUp \/ CoreDies PROVE IInv'
  <2>1. UNCHANGED <<keeper, keepId, timers, stopTask, task, apart, vpnAlive, fails, ping, heartbeat, on>>
    BY <1>3 DEF Toggle, ToggleFails, Settled, PageHide, CoreUp, CoreDies, keep, alive
  <2>2. KeepInv' /\ TimerInv'
    BY <2>1 DEF KeepInv, TimerInv, KeepersIdle
  <2>3. vpnOn' \in BOOLEAN /\ phase' \in Phases /\ core' \in {"off", "starting", "up"} /\ poll' \in BOOLEAN
    <3>1. ASSUME Toggle \/ ToggleFails PROVE vpnOn' \in BOOLEAN
      BY <3>1, Zenon DEF Toggle, ToggleFails
    <3>2. phase' \in Phases /\ core' \in {"off", "starting", "up"} /\ poll' \in BOOLEAN
      BY <1>3 DEF Toggle, ToggleFails, Settled, PageHide, CoreUp, CoreDies
    <3> QED BY <1>3, <3>1, <3>2 DEF Settled, PageHide, CoreUp, CoreDies
  <2>4. TypeOK'
    BY <2>1, <2>3
  <2>5. OffInv'
    <3>1. ASSUME Toggle PROVE OffInv'
      <4>1. (vpnOn' <=> ~vpnOn) /\ phase = "idle" /\ phase' = IF vpnOn THEN "stopping" ELSE "starting"
        BY <3>1, Zenon DEF Toggle
      <4>2. UNCHANGED <<on, heartbeat, poll>>
        BY <3>1 DEF Toggle
      <4>3. CASE vpnOn
        BY <4>1, <4>2, <4>3
      <4>4. CASE ~vpnOn
        BY <4>1, <4>2, <4>4
      <4> QED BY <4>3, <4>4
    <3>2. ASSUME ToggleFails PROVE OffInv'
      BY <3>2, <2>1 DEF ToggleFails
    <3>3. ASSUME Settled \/ PageHide \/ CoreUp \/ CoreDies PROVE OffInv'
      BY <3>3, <2>1 DEF Settled, PageHide, CoreUp, CoreDies
    <3> QED BY <1>3, <3>1, <3>2, <3>3
  <2> QED BY <2>2, <2>4, <2>5
<1> QED BY <1>1, <1>2, <1>3

----------------------------------------------------------------------------
(* The heartbeat *)

LEMMA PingStep ==
    ASSUME IInv, NEW i \in Pings,
           Tick(i) \/ PingNow(i) \/ Answer(i) \/ TimeOut(i) \/ MarkAlive(i) \/ MarkDead(i)
    PROVE  IInv'
<1> USE SwitchAssumption DEF IInv, TypeOK, Phases, OffInv
<1>1. UNCHANGED <<keeper, keepId, timers, stopTask, task, apart, phase, heartbeat, core, on>>
  BY DEF Tick, PingNow, Send, Answer, TimeOut, MarkAlive, MarkDead, AliveChanged, switch, keep
<1>2. KeepInv' /\ TimerInv'
  BY <1>1 DEF KeepInv, TimerInv, KeepersIdle
<1>3. ping' \in [Pings -> {"none", "sent", "ready", "failed"}]
  <2>1. PICK v \in {"none", "sent", "ready", "failed"} : ping' = [ping EXCEPT ![i] = v]
    BY DEF Tick, PingNow, Send, Answer, TimeOut, MarkAlive, MarkDead
  <2> QED BY <2>1
<1>4. ASSUME MarkDead(i) PROVE /\ fails' \in 0..Threshold /\ vpnAlive' \in BOOLEAN
                               /\ vpnOn' \in {vpnOn, FALSE} /\ poll' \in {poll, FALSE}
  <2>1. fails' \in 0..Threshold
    BY <1>4 DEF MarkDead
  <2>2. CASE vpnAlive /\ fails' = Threshold
    BY <1>4, <2>1, <2>2 DEF MarkDead, AliveChanged
  <2>3. CASE ~(vpnAlive /\ fails' = Threshold)
    BY <1>4, <2>1, <2>3 DEF MarkDead, switch
  <2> QED BY <2>1, <2>2, <2>3
<1>5. ASSUME Tick(i) \/ PingNow(i) \/ Answer(i) \/ TimeOut(i) \/ MarkAlive(i)
      PROVE  /\ fails' \in 0..Threshold /\ vpnAlive' \in BOOLEAN
             /\ vpnOn' \in {vpnOn, FALSE} /\ poll' \in {poll, FALSE}
  <2>1. CASE MarkAlive(i)
    BY <2>1 DEF MarkAlive, switch
  <2>2. CASE ~MarkAlive(i)
    BY <1>5, <2>2 DEF Tick, PingNow, Send, Answer, TimeOut, switch
  <2> QED BY <2>1, <2>2
<1>6. /\ fails' \in 0..Threshold /\ vpnAlive' \in BOOLEAN
      /\ vpnOn' \in {vpnOn, FALSE} /\ poll' \in {poll, FALSE}
  BY <1>4, <1>5
<1>7. TypeOK'
  BY <1>1, <1>3, <1>6
<1>8. OffInv'
  <2>1. (vpnOn' = vpnOn \/ vpnOn' = FALSE) /\ (poll' = poll \/ poll' = FALSE)
    BY <1>6
  <2>2. CASE vpnOn' = vpnOn /\ poll' = poll
    BY <1>1, <2>2
  <2>3. CASE vpnOn' = vpnOn /\ poll' = FALSE
    BY <1>1, <2>3
  <2>4. CASE vpnOn' = FALSE /\ poll' = poll
    BY <1>1, <2>4
  <2>5. CASE vpnOn' = FALSE /\ poll' = FALSE
    BY <1>1, <2>5
  <2> QED BY <2>1, <2>2, <2>3, <2>4, <2>5
<1> QED BY <1>2, <1>7, <1>8

----------------------------------------------------------------------------
(* The background task *)

LEMMA TaskStep ==
    ASSUME IInv, (\E k \in Starts : KeepGranted(k) \/ KeepRefused(k) \/ KeepStarted(k)) \/ TaskStopped
    PROVE  IInv'
<1> USE DEF IInv
<1>1. UNCHANGED <<vpnOn, phase, heartbeat, poll, core, on, vpnAlive, fails, ping, apart>>
  BY DEF KeepGranted, KeepRefused, KeepStarted, TaskStopped, switch, alive
<1>2. OffInv'
  BY <1>1 DEF OffInv
<1>3. /\ keeper' \in [Starts -> {"none", "asked", "granted"}]
      /\ keepId' \in BOOLEAN /\ stopTask' \in BOOLEAN /\ task' \in BOOLEAN
      /\ timers' \in 0..2 /\ TimerInv'
  <2>1. ASSUME NEW k \in Starts, KeepGranted(k) \/ KeepRefused(k) \/ KeepStarted(k)
        PROVE  keeper' \in [Starts -> {"none", "asked", "granted"}]
    BY <2>1 DEF KeepGranted, KeepRefused, KeepStarted, TypeOK
  <2>2. ASSUME TaskStopped PROVE keeper' = keeper
    BY <2>2 DEF TaskStopped
  <2>3. /\ keepId' \in BOOLEAN /\ stopTask' \in BOOLEAN /\ task' \in BOOLEAN
        /\ timers' \in 0..2 /\ TimerInv'
    <3>1. ASSUME NEW k \in Starts, KeepStarted(k)
          PROVE  keepId' = TRUE /\ timers' \in 1..2 /\ stopTask' = stopTask /\ task' = task
      BY <3>1 DEF KeepStarted, TypeOK
    <3>2. ASSUME NEW k \in Starts, KeepGranted(k) \/ KeepRefused(k)
          PROVE  keepId' = keepId /\ timers' = timers /\ stopTask' = stopTask /\ task' \in {task, TRUE}
      BY <3>2 DEF KeepGranted, KeepRefused
    <3>3. ASSUME TaskStopped
          PROVE  keepId' = keepId /\ timers' = timers /\ stopTask' = FALSE /\ task' = FALSE
      BY <3>3 DEF TaskStopped
    <3>4. \/ keepId' = TRUE /\ timers' \in 1..2 /\ stopTask' = stopTask /\ task' = task
          \/ keepId' = keepId /\ timers' = timers /\ stopTask' = stopTask /\ task' \in {task, TRUE}
          \/ keepId' = keepId /\ timers' = timers /\ stopTask' = FALSE /\ task' = FALSE
      BY <3>1, <3>2, <3>3, Zenon
    <3>5. timers' \in 1..2 \/ (keepId' = keepId /\ timers' = timers)
      BY <3>4, Zenon
    <3>6. timers' \in 0..2
      BY <3>5 DEF TypeOK
    <3>7. TimerInv'
      <4>1. CASE timers' \in 1..2
        BY <4>1 DEF TimerInv
      <4>2. CASE keepId' = keepId /\ timers' = timers
        BY <4>2 DEF TimerInv
      <4> QED BY <3>5, <4>1, <4>2
    <3>8. keepId' \in BOOLEAN /\ stopTask' \in BOOLEAN /\ task' \in BOOLEAN
      BY <3>4, Zenon DEF TypeOK
    <3> QED BY <3>6, <3>7, <3>8
  <2> QED BY <2>1, <2>2, <2>3 DEF TypeOK
<1>4. TypeOK'
  BY <1>1, <1>3 DEF TypeOK
<1>5. KeepInv'
  <2>1. ASSUME NEW k \in Starts, KeepGranted(k) PROVE KeepInv'
    BY <2>1 DEF KeepGranted, KeepInv, KeepersIdle, TypeOK, switch
  <2>2. ASSUME NEW k \in Starts, KeepRefused(k) PROVE KeepInv'
    BY <2>2 DEF KeepRefused, KeepInv, KeepersIdle, TypeOK, switch
  <2>3. ASSUME NEW k \in Starts, KeepStarted(k) PROVE KeepInv'
    BY <2>3 DEF KeepStarted, KeepInv, KeepersIdle, TypeOK, switch
  <2>4. ASSUME TaskStopped PROVE KeepInv'
    BY <2>4 DEF TaskStopped, KeepInv, KeepersIdle, TypeOK, switch
  <2> QED BY <2>1, <2>2, <2>3, <2>4
<1> QED BY <1>2, <1>3, <1>4, <1>5

\* A stop that fails leaves the task to the system, and the history says so.
LEMMA TaskStopFailsStep ==
    ASSUME IInv, TaskStopFails
    PROVE  IInv'
<1>1. /\ UNCHANGED <<vpnOn, phase, heartbeat, poll, core, on, vpnAlive, fails, ping>>
      /\ UNCHANGED <<keeper, keepId, timers, task>>
      /\ stopTask' = FALSE
  BY DEF TaskStopFails, switch, alive
<1>2. apart' \in BOOLEAN
  BY Zenon DEF TaskStopFails
<1>3. TypeOK'
  BY <1>1, <1>2 DEF IInv, TypeOK
<1>4. OffInv' /\ TimerInv'
  BY <1>1 DEF IInv, OffInv, TimerInv
<1>5. KeepInv'
  <2>1. CASE task
    BY <2>1 DEF TaskStopFails, KeepInv
  <2>2. CASE ~task
    <3>1. stopTask /\ (apart' <=> apart)
      BY <2>2, Zenon DEF TaskStopFails
    <3> QED BY <1>1, <2>2, <3>1 DEF IInv, KeepInv, KeepersIdle
  <2> QED BY <2>1, <2>2
<1> QED BY <1>3, <1>4, <1>5 DEF IInv

----------------------------------------------------------------------------

LEMMA Inductive == Spec => []IInv
<1>1. Init => IInv
  <2> SUFFICES ASSUME Init PROVE IInv
    OBVIOUS
  <2>1. 0 \in 0..Threshold
    BY SwitchAssumption
  <2>2. TypeOK
    <3>1. /\ ping \in [Pings -> {"none", "sent", "ready", "failed"}]
          /\ keeper \in [Starts -> {"none", "asked", "granted"}]
          /\ fails \in 0..Threshold /\ timers \in 0..2
          /\ phase \in Phases /\ core \in {"off", "starting", "up"}
      BY <2>1 DEF Init, Phases
    <3>2. /\ vpnOn \in BOOLEAN /\ vpnAlive \in BOOLEAN /\ heartbeat \in BOOLEAN /\ poll \in BOOLEAN
          /\ keepId \in BOOLEAN /\ stopTask \in BOOLEAN /\ task \in BOOLEAN
          /\ on \in BOOLEAN /\ apart \in BOOLEAN
      BY Zenon DEF Init
    <3> QED BY <3>1, <3>2 DEF TypeOK
  <2>3. OffInv /\ TimerInv
    BY DEF Init, OffInv, TimerInv
  <2>4. KeepInv
    BY DEF Init, KeepInv, KeepersIdle
  <2> QED BY <2>2, <2>3, <2>4 DEF IInv
<1>2. IInv /\ [Next]_vars => IInv'
  <2>1. ASSUME IInv, UNCHANGED vars PROVE IInv'
    BY <2>1 DEF vars, switch, alive, keep, IInv, TypeOK, OffInv, KeepInv, TimerInv, KeepersIdle
  <2> QED BY <2>1, PageStep, PingStep, TaskStep, TaskStopFailsStep DEF Next
<1> QED BY <1>1, <1>2, PTL DEF Spec

\* The variables of the switch keep their types, for any threshold.
THEOREM TypeCorrect == Spec => []TypeOK
<1>1. IInv => TypeOK
  BY DEF IInv
<1> QED BY <1>1, Inductive, PTL

\* Starts and stops that fail, late answers to pings and a process that dies in
\* between never leave a stopped switch on, pinging or polling.
THEOREM StoppedStaysQuiet == Spec => []OffMeansQuiet
<1>1. IInv => OffMeansQuiet
  BY DEF IInv, OffInv, OffMeansQuiet
<1> QED BY <1>1, Inductive, PTL

\* Without overlapping starts and stops, and stops that fail, the background task, its id and its timer
\* go together.
THEOREM TaskFollowsSwitch == Spec => []KeepAliveConsistent
<1>1. IInv => KeepAliveConsistent
  BY DEF IInv, KeepInv, KeepAliveConsistent
<1> QED BY <1>1, Inductive, PTL
====
