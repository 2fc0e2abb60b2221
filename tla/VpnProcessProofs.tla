------------------------- MODULE VpnProcessProofs --------------------------
(***************************************************************************)
(* Proofs about the TUN life cycle of the Go core (TunCore) and about the  *)
(* VPN process that drives it (VpnProcess), for any set of calls, with and *)
(* without remote control.                                                 *)
(***************************************************************************)
EXTENDS VpnProcess, FiniteSetTheorems, TLAPS

-----------------------------------------------------------------------------
(* The core by itself.                                                     *)

\* The lock names its holder: exactly the call whose goroutine is in a body.
LockNamesHolder ==
    \A c \in Calls : pc[c] \in Holding <=> tunLock = c

\* A call has a function from the moment it is made, and each function only
\* goes through its own places.
OpMatchesPc ==
    \A c \in Calls :
        /\ pc[c] = "opened" => op[c] = "start"
        /\ pc[c] \in {"cleared", "closed"} => op[c] = "stop"

\* A stop that is about to remove the hook has closed the published listener.
StopProgress ==
    \A c \in Calls : pc[c] = "closed" => tunListener \notin open

\* What an orderly history leaves behind: starts exclude each other and stops,
\* the open listener is the published one, and it has its hook.
OrderlyCalls ==
    orderly =>
        /\ \A c, d \in InFlight("start") : c = d
        /\ \A c \in InFlight("start"), d \in InFlight("stop") : FALSE
        /\ \A c \in InFlight("start") :
              /\ hook = c
              /\ pc[c] \in {"spawned", "locked"} => open = {}
        /\ open \subseteq {tunListener}
        /\ open # {} => hook # NoCall

LockInv == TunTypeOK /\ LockNamesHolder /\ OpMatchesPc

LifeInv == StopProgress /\ StoppedMeansClosed /\ OrderlyCalls

\* The variables keep their types and the lock names its holder.
LEMMA LockInvariant == TunSpec => []LockInv
<1>1. TunInit => LockInv
  BY NoCallAssumption
     DEF TunInit, LockInv, TunTypeOK, LockNamesHolder, OpMatchesPc, CallOrNil, Pcs, Ops, Holding
<1>2. LockInv /\ [TunNext]_coreVars => LockInv'
  <2> SUFFICES ASSUME LockInv, [TunNext]_coreVars PROVE LockInv'
    OBVIOUS
  <2> USE NoCallAssumption
      DEF LockInv, TunTypeOK, LockNamesHolder, OpMatchesPc, CallOrNil, Pcs, Ops, Holding, Step
  <2>1. ASSUME NEW c \in Calls, StartTUN(c) PROVE LockInv'
    BY <2>1 DEF StartTUN, cfgVars
  <2>2. ASSUME NEW c \in Calls, StartTUNNoFd(c) PROVE LockInv'
    BY <2>2 DEF StartTUNNoFd, cfgVars
  <2>3. ASSUME NEW c \in Calls, StopTun(c) PROVE LockInv'
    BY <2>3 DEF StopTun, cfgVars
  <2>4. ASSUME NEW c \in Calls, LockTun(c) PROVE LockInv'
    BY <2>4 DEF LockTun, cfgVars
  <2>5. ASSUME NEW c \in Calls, OpenTun(c) PROVE LockInv'
    BY <2>5 DEF OpenTun, cfgVars
  <2>6. ASSUME NEW c \in Calls, OpenTunPanics(c) PROVE LockInv'
    BY <2>6 DEF OpenTunPanics, cfgVars, tunVars
  <2>7. ASSUME NEW c \in Calls, StampRunTime(c) PROVE LockInv'
    BY <2>7 DEF StampRunTime, Release, cfgVars
  <2>8. ASSUME NEW c \in Calls, ClearRunTime(c) PROVE LockInv'
    BY <2>8 DEF ClearRunTime, cfgVars
  <2>9. ASSUME NEW c \in Calls, CloseListener(c) PROVE LockInv'
    BY <2>9 DEF CloseListener, cfgVars
  <2>10. ASSUME NEW c \in Calls, RemoveHook(c) PROVE LockInv'
    BY <2>10 DEF RemoveHook, Release, cfgVars
  <2>11. CASE ApplyConfig
    BY <2>11 DEF ApplyConfig, tunVars
  <2>12. CASE FallBackToDefault
    BY <2>12 DEF FallBackToDefault, tunVars
  <2>13. CASE UNCHANGED coreVars
    BY <2>13 DEF coreVars
  <2>14. QED
    BY <2>1, <2>2, <2>3, <2>4, <2>5, <2>6, <2>7, <2>8, <2>9, <2>10, <2>11,
       <2>12, <2>13 DEF TunNext, Body, Exhausted
<1>3. QED
  BY <1>1, <1>2, PTL DEF TunSpec

\* The type invariant of the TUN life cycle holds for any set of calls.
THEOREM CoreTypeCorrect == TunSpec => []TunTypeOK
  BY LockInvariant, PTL DEF LockInv

\* The bodies of StartTUN and StopTun exclude each other.
THEOREM MutualExclusion == TunSpec => []BodiesExclude
<1>1. LockInv => BodiesExclude
  BY DEF LockInv, LockNamesHolder, BodiesExclude
<1>2. QED
  BY <1>1, LockInvariant, PTL


\* The three facts are inductive together, relative to the lock invariant: the
\* hook can only be removed by a stop that has closed the published listener,
\* and in an orderly history that is the only open one.
LEMMA LifeInvariant == TunSpec => []LifeInv
<1>1. TunInit => LifeInv
  BY NoCallAssumption
     DEF TunInit, LifeInv, StopProgress, StoppedMeansClosed, OrderlyCalls, InFlight, Holding
<1>2. LockInv /\ StopProgress /\ [TunNext]_coreVars => StopProgress'
  <2> SUFFICES ASSUME LockInv, StopProgress, [TunNext]_coreVars PROVE StopProgress'
    OBVIOUS
  <2> USE NoCallAssumption DEF LockInv, TunTypeOK, LockNamesHolder, OpMatchesPc, CallOrNil, Pcs, Ops,
      Holding, Step, StopProgress
  <2>1. ASSUME NEW c \in Calls, StartTUN(c) PROVE StopProgress'
    BY <2>1 DEF StartTUN, cfgVars
  <2>2. ASSUME NEW c \in Calls, StartTUNNoFd(c) PROVE StopProgress'
    BY <2>2 DEF StartTUNNoFd, cfgVars
  <2>3. ASSUME NEW c \in Calls, StopTun(c) PROVE StopProgress'
    BY <2>3 DEF StopTun, cfgVars
  <2>4. ASSUME NEW c \in Calls, LockTun(c) PROVE StopProgress'
    BY <2>4 DEF LockTun, cfgVars
  <2>5. ASSUME NEW c \in Calls, OpenTun(c) PROVE StopProgress'
    BY <2>5 DEF OpenTun, cfgVars
  <2>6. ASSUME NEW c \in Calls, OpenTunPanics(c) PROVE StopProgress'
    BY <2>6 DEF OpenTunPanics, cfgVars, tunVars
  <2>7. ASSUME NEW c \in Calls, StampRunTime(c) PROVE StopProgress'
    BY <2>7 DEF StampRunTime, Release, cfgVars
  <2>8. ASSUME NEW c \in Calls, ClearRunTime(c) PROVE StopProgress'
    BY <2>8 DEF ClearRunTime, cfgVars
  <2>9. ASSUME NEW c \in Calls, CloseListener(c) PROVE StopProgress'
    BY <2>9 DEF CloseListener, cfgVars
  <2>10. ASSUME NEW c \in Calls, RemoveHook(c) PROVE StopProgress'
    BY <2>10 DEF RemoveHook, Release, cfgVars
  <2>11. CASE ApplyConfig
    BY <2>11 DEF ApplyConfig, tunVars
  <2>12. CASE FallBackToDefault
    BY <2>12 DEF FallBackToDefault, tunVars
  <2>13. CASE UNCHANGED coreVars
    BY <2>13 DEF coreVars, tunVars
  <2>14. QED
    BY <2>1, <2>2, <2>3, <2>4, <2>5, <2>6, <2>7,
       <2>8, <2>9, <2>10, <2>11, <2>12, <2>13 DEF TunNext, Body, Exhausted
<1>3. LockInv /\ StopProgress /\ StoppedMeansClosed /\ [TunNext]_coreVars => StoppedMeansClosed'
  <2> SUFFICES ASSUME LockInv, StopProgress, StoppedMeansClosed, [TunNext]_coreVars PROVE StoppedMeansClosed'
    OBVIOUS
  <2> USE NoCallAssumption DEF LockInv, TunTypeOK, LockNamesHolder, OpMatchesPc, CallOrNil, Pcs, Ops,
      Holding, Step, StopProgress, StoppedMeansClosed
  <2>1. ASSUME NEW c \in Calls, StartTUN(c) PROVE StoppedMeansClosed'
    BY <2>1 DEF StartTUN, cfgVars
  <2>2. ASSUME NEW c \in Calls, StartTUNNoFd(c) PROVE StoppedMeansClosed'
    BY <2>2 DEF StartTUNNoFd, cfgVars
  <2>3. ASSUME NEW c \in Calls, StopTun(c) PROVE StoppedMeansClosed'
    BY <2>3 DEF StopTun, cfgVars
  <2>4. ASSUME NEW c \in Calls, LockTun(c) PROVE StoppedMeansClosed'
    BY <2>4 DEF LockTun, cfgVars
  <2>5. ASSUME NEW c \in Calls, OpenTun(c) PROVE StoppedMeansClosed'
    BY <2>5 DEF OpenTun, cfgVars
  <2>6. ASSUME NEW c \in Calls, OpenTunPanics(c) PROVE StoppedMeansClosed'
    BY <2>6 DEF OpenTunPanics, cfgVars, tunVars
  <2>7. ASSUME NEW c \in Calls, StampRunTime(c) PROVE StoppedMeansClosed'
    BY <2>7 DEF StampRunTime, Release, cfgVars
  <2>8. ASSUME NEW c \in Calls, ClearRunTime(c) PROVE StoppedMeansClosed'
    BY <2>8 DEF ClearRunTime, cfgVars
  <2>9. ASSUME NEW c \in Calls, CloseListener(c) PROVE StoppedMeansClosed'
    BY <2>9 DEF CloseListener, cfgVars
  <2>10. ASSUME NEW c \in Calls, RemoveHook(c) PROVE StoppedMeansClosed'
    BY <2>10 DEF RemoveHook, Release, cfgVars
  <2>11. CASE ApplyConfig
    BY <2>11 DEF ApplyConfig, tunVars
  <2>12. CASE FallBackToDefault
    BY <2>12 DEF FallBackToDefault, tunVars
  <2>13. CASE UNCHANGED coreVars
    BY <2>13 DEF coreVars, tunVars
  <2>14. QED
    BY <2>1, <2>2, <2>3, <2>4, <2>5, <2>6, <2>7,
       <2>8, <2>9, <2>10, <2>11, <2>12, <2>13 DEF TunNext, Body, Exhausted
<1>4. LockInv /\ StopProgress /\ OrderlyCalls /\ [TunNext]_coreVars => OrderlyCalls'
  <2> SUFFICES ASSUME LockInv, StopProgress, OrderlyCalls, [TunNext]_coreVars PROVE OrderlyCalls'
    OBVIOUS
  <2> USE NoCallAssumption DEF LockInv, TunTypeOK, LockNamesHolder, OpMatchesPc, CallOrNil, Pcs, Ops,
      Holding, Step, StopProgress, OrderlyCalls, InFlight
  <2>1. ASSUME NEW c \in Calls, StartTUN(c) PROVE OrderlyCalls'
    BY <2>1 DEF StartTUN, cfgVars
  <2>2. ASSUME NEW c \in Calls, StartTUNNoFd(c) PROVE OrderlyCalls'
    BY <2>2 DEF StartTUNNoFd, cfgVars
  <2>3. ASSUME NEW c \in Calls, StopTun(c) PROVE OrderlyCalls'
    BY <2>3 DEF StopTun, cfgVars
  <2>4. ASSUME NEW c \in Calls, LockTun(c) PROVE OrderlyCalls'
    BY <2>4 DEF LockTun, cfgVars
  <2>5. ASSUME NEW c \in Calls, OpenTun(c) PROVE OrderlyCalls'
    BY <2>5 DEF OpenTun, cfgVars
  <2>6. ASSUME NEW c \in Calls, OpenTunPanics(c) PROVE OrderlyCalls'
    BY <2>6 DEF OpenTunPanics, cfgVars, tunVars
  <2>7. ASSUME NEW c \in Calls, StampRunTime(c) PROVE OrderlyCalls'
    BY <2>7 DEF StampRunTime, Release, cfgVars
  <2>8. ASSUME NEW c \in Calls, ClearRunTime(c) PROVE OrderlyCalls'
    BY <2>8 DEF ClearRunTime, cfgVars
  <2>9. ASSUME NEW c \in Calls, CloseListener(c) PROVE OrderlyCalls'
    BY <2>9 DEF CloseListener, cfgVars
  <2>10. ASSUME NEW c \in Calls, RemoveHook(c) PROVE OrderlyCalls'
    BY <2>10 DEF RemoveHook, Release, cfgVars
  <2>11. CASE ApplyConfig
    BY <2>11 DEF ApplyConfig, tunVars
  <2>12. CASE FallBackToDefault
    BY <2>12 DEF FallBackToDefault, tunVars
  <2>13. CASE UNCHANGED coreVars
    BY <2>13 DEF coreVars, tunVars
  <2>14. QED
    BY <2>1, <2>2, <2>3, <2>4, <2>5, <2>6, <2>7,
       <2>8, <2>9, <2>10, <2>11, <2>12, <2>13 DEF TunNext, Body, Exhausted
<1>5. QED
  BY <1>1, <1>2, <1>3, <1>4, LockInvariant, PTL DEF TunSpec, LifeInv

\* Nothing is open behind a cleared runTime.
THEOREM StopClosesTheTun == TunSpec => []StoppedMeansClosed
  BY LifeInvariant, PTL DEF LifeInv

\* A history of calls that do not overlap never leaks a TUN and never leaves
\* one open without the socket hook.
THEOREM OrderlySafety == TunSpec => []OrderlyIsSafe
<1>1. OrderlyCalls => OrderlyIsSafe
  BY DEF OrderlyCalls, OrderlyIsSafe
<1>2. QED
  BY <1>1, LifeInvariant, PTL DEF LifeInv

-----------------------------------------------------------------------------
(* The process drives the core by its operations.                          *)

\* A step of the process that leaves the core alone, as the core sees it.
CoreStutters == UNCHANGED coreVars

\* Every step of onCreate is a step of the core or leaves it alone.
LEMMA StartupImplementsCore ==
    ASSUME Startup PROVE [TunNext]_coreVars
<1> USE DEF coreVars
<1>1. CASE ConfigApplied
  BY <1>1 DEF ConfigApplied, TunNext
<1>2. CASE \/ OnCreate \/ IpcListens \/ ServiceStarted \/ LoadSkipped \/ CallUpdateConfig
           \/ UpdateConfigResolves \/ SetTunOptions \/ \E c \in Calls : StartFromCreate(c)
  <2>1. CoreStutters
    BY <1>2 DEF CoreStutters, OnCreate, IpcListens, ServiceStarted, LoadSkipped,
                CallUpdateConfig, UpdateConfigResolves, SetTunOptions, StartFromCreate
  <2>2. QED
    BY <2>1 DEF CoreStutters
<1>3. QED
  BY <1>1, <1>2 DEF Startup

\* Every step of a startVpn that goes on is a StartTUN or leaves the core alone.
LEMMA ServiceImplementsCore ==
    ASSUME ServiceStep PROVE [TunNext]_coreVars
<1> USE DEF coreVars
<1>1. PICK c \in Calls :
        TunFdReady(c) \/ TunFdFails(c) \/ SendStartClash(c) \/ ReceiveStartClash(c)
  BY DEF ServiceStep
<1>2. CASE ReceiveStartClash(c)
  BY <1>2 DEF ReceiveStartClash, TunNext
<1>3. CASE TunFdReady(c) \/ TunFdFails(c) \/ SendStartClash(c)
  <2>1. CoreStutters
    BY <1>3 DEF CoreStutters, TunFdReady, TunFdFails, SendStartClash
  <2>2. QED
    BY <2>1 DEF CoreStutters
<1>4. QED
  BY <1>1, <1>2, <1>3

\* The process drives the core by the operations of TunCore only.
THEOREM ImplementsCore == Spec => UsesCore
<1>1. Init => TunInit
  BY DEF Init
<1>2. [Next]_vars => [TunNext]_coreVars
  <2> SUFFICES ASSUME [Next]_vars PROVE [TunNext]_coreVars
    OBVIOUS
  <2> USE DEF coreVars
  <2>1. CASE Startup
    BY <2>1, StartupImplementsCore
  <2>2. CASE ServiceStep
    BY <2>2, ServiceImplementsCore
  <2>3. ASSUME NEW c \in Calls, OnDestroy(c) \/ RemoteStopClash(c)
        PROVE  [TunNext]_coreVars
    <3>1. StopTun(c)
      BY <2>3 DEF OnDestroy, RemoteStopClash, StopVpn
    <3>2. QED
      BY <3>1 DEF TunNext
  <2>4. CASE RemoteLoad
    BY <2>4 DEF RemoteLoad, TunNext
  <2>5. ASSUME NEW c \in Calls, RemoteStartClash(c) PROVE [TunNext]_coreVars
    BY <2>5 DEF RemoteStartClash
  <2>6. CASE CoreStep
    BY <2>6 DEF CoreStep, TunNext
  <2>7. CASE Ended \/ UNCHANGED vars
    BY <2>7 DEF Ended, vars
  <2>8. QED
    BY <2>1, <2>2, <2>3, <2>4, <2>5, <2>6, <2>7 DEF Next
<1>3. QED
  BY <1>1, <1>2, PTL DEF Spec, UsesCore, TunSpec

-----------------------------------------------------------------------------
(* The process: types.                                                     *)

\* What is proved of the core holds of the core in the process.
LEMMA CoreFacts == Spec => [](LockInv /\ LifeInv)
<1>1. TunSpec => [](LockInv /\ LifeInv)
  BY LockInvariant, LifeInvariant, PTL
<1>2. QED
  BY <1>1, ImplementsCore, PTL DEF UsesCore

LEMMA TypeStep ==
    ASSUME TypeOK, TunTypeOK', [Next]_vars PROVE TypeOK'
<1> USE DEF TypeOK, setupVars, serviceVars, abilityVars, Create, Chain
<1>1. CASE \/ OnCreate \/ IpcListens \/ ServiceStarted \/ LoadSkipped \/ CallUpdateConfig
           \/ ConfigApplied \/ UpdateConfigResolves \/ SetTunOptions
  BY <1>1 DEF OnCreate, IpcListens, ServiceStarted, LoadSkipped, CallUpdateConfig,
              ConfigApplied, UpdateConfigResolves, SetTunOptions
<1>2. ASSUME NEW c \in Calls, StartFromCreate(c) \/ RemoteStartClash(c) PROVE TypeOK'
  BY <1>2 DEF StartFromCreate, RemoteStartClash, StartVpn
<1>3. ASSUME NEW c \in Calls,
             TunFdReady(c) \/ TunFdFails(c) \/ SendStartClash(c) \/ ReceiveStartClash(c)
      PROVE  TypeOK'
  BY <1>3 DEF TunFdReady, TunFdFails, SendStartClash, ReceiveStartClash
<1>4. ASSUME NEW c \in Calls, OnDestroy(c) \/ RemoteStopClash(c) PROVE TypeOK'
  BY <1>4 DEF OnDestroy, RemoteStopClash, StopVpn
<1>5. CASE RemoteLoad \/ CoreStep
  BY <1>5 DEF RemoteLoad, CoreStep
<1>6. CASE Ended \/ UNCHANGED vars
  BY <1>6 DEF Ended, vars
<1>7. QED
  BY <1>1, <1>2, <1>3, <1>4, <1>5, <1>6 DEF Next, Startup, ServiceStep

\* The variables of the process keep their types.
THEOREM TypeCorrect == Spec => []TypeOK
<1>1. Init /\ TunTypeOK => TypeOK
  BY DEF Init, TypeOK
<1>2. LockInv => TunTypeOK
  BY DEF LockInv
<1>3. QED
  BY <1>1, <1>2, TypeStep, CoreFacts, PTL DEF Spec

-----------------------------------------------------------------------------
(* The process: what its own calls can do.                                 *)

Started == {c \in Calls : chain[c] # "none"}
Stopped == {c \in Calls : op[c] = "stop"}

\* ~RemoteUsed without counting: one start, made at the end of onCreate, and
\* one stop, made by onDestroy.
OwnCalls ==
    /\ create # "end" => Started = {}
    /\ \A c, d \in Started : c = d
    /\ destroyed = "no" => Stopped = {}
    /\ \A c, d \in Stopped : c = d

\* The calls of the core are those of the service.
CallsFit ==
    /\ \A c \in Calls :
        /\ pc[c] = "idle" <=> op[c] = "none"
        /\ op[c] = "start" <=> chain[c] = "handed"
        /\ op[c] = "stop" => chain[c] = "none"
    /\ \A c \in open : op[c] = "start"
    /\ create = "end" => Started # {}
    /\ destroyed # "no" => Stopped # {}

Countable == IsFiniteSet(Started) /\ IsFiniteSet(Stopped)

\* From the moment updateConfig is called the core has a configuration, or is
\* about to get the default one.
LoadInv ==
    /\ (\/ create \in {"applying", "options"}
        \/ create \in {"start", "end"} /\ ~skipped)
          => currentConfig \/ falling
    /\ crashed /\ OwnCalls => skipped \/ falling

\* An onDestroy that does not cut into the start finds it over.
DestroyInv ==
    /\ destroyed = "up" =>
         /\ create = "end"
         /\ OwnCalls => \A c \in Calls : chain[c] \in {"none", "handed", "failed"}
    /\ create = "end" /\ destroyed # "early" => (vpnOn <=> destroyed = "no")
    /\ OwnCalls /\ destroyed # "early" => orderly

RouteInv == OwnCalls /\ create = "end" /\ tunIp => Started \subseteq routed

LEMMA CountsOwnCalls ==
    ASSUME Countable, ~RemoteUsed PROVE OwnCalls
<1>1. ASSUME NEW S, IsFiniteSet(S), ~(Cardinality(S) > 0) PROVE S = {}
  BY <1>1, FS_CardinalityType, FS_EmptySet
<1>2. ASSUME NEW S, IsFiniteSet(S), ~(Cardinality(S) > 1) PROVE \A c, d \in S : c = d
  <2>1. Cardinality(S) = 0 \/ Cardinality(S) = 1
    BY <1>2, FS_CardinalityType
  <2>2. S = {} \/ \E x : S = {x}
    BY <1>2, <2>1, FS_EmptySet, FS_Singleton
  <2>3. QED
    BY <2>2
<1>3. /\ ~(Cardinality(Started) > (IF create = "end" THEN 1 ELSE 0))
      /\ ~(Cardinality(Stopped) > (IF destroyed = "no" THEN 0 ELSE 1))
  BY DEF RemoteUsed, Started, Stopped
<1>4. (create # "end" => Started = {}) /\ \A c, d \in Started : c = d
  BY <1>1, <1>2, <1>3 DEF Countable
<1>5. (destroyed = "no" => Stopped = {}) /\ \A c, d \in Stopped : c = d
  BY <1>1, <1>2, <1>3 DEF Countable
<1>6. QED
  BY <1>4, <1>5 DEF OwnCalls

\* A step of the core alone makes no call and changes no function of one.
LEMMA CoreStepEffect ==
    ASSUME TunTypeOK, CoreStep
    PROVE  /\ op' = op /\ orderly' = orderly
           /\ \A c \in Calls : pc'[c] = "idle" <=> pc[c] = "idle"
           /\ \A c \in open' : c \in open \/ op[c] = "start"
           /\ currentConfig \/ falling => currentConfig' \/ falling'
<1> USE DEF TunTypeOK, Step, cfgVars, tunVars, Pcs, Holding
<1>1. ASSUME NEW c \in Calls, LockTun(c) \/ ClearRunTime(c) \/ StampRunTime(c)
      PROVE  /\ UNCHANGED <<op, orderly, open, cfgVars>>
             /\ \A d \in Calls : pc'[d] = "idle" <=> pc[d] = "idle"
  BY <1>1 DEF LockTun, ClearRunTime, StampRunTime
<1>2. ASSUME NEW c \in Calls, CloseListener(c) \/ RemoveHook(c)
      PROVE  /\ UNCHANGED <<op, orderly, cfgVars>> /\ open' \subseteq open
             /\ \A d \in Calls : pc'[d] = "idle" <=> pc[d] = "idle"
  BY <1>2 DEF CloseListener, RemoveHook
<1>3. ASSUME NEW c \in Calls, OpenTun(c) \/ OpenTunPanics(c)
      PROVE  /\ UNCHANGED <<op, orderly, cfgVars>> /\ \A d \in open' : d \in open \/ op[d] = "start"
             /\ \A d \in Calls : pc'[d] = "idle" <=> pc[d] = "idle"
  BY <1>3 DEF OpenTun, OpenTunPanics
<1>4. CASE FallBackToDefault
  BY <1>4 DEF FallBackToDefault
<1>5. QED
  BY <1>1, <1>2, <1>3, <1>4 DEF CoreStep, Body

LEMMA FitStep ==
    ASSUME TypeOK, TypeOK', CallsFit, [Next]_vars PROVE CallsFit'
<1> USE DEF CallsFit, Started, Stopped, TypeOK, TunTypeOK, setupVars, serviceVars, abilityVars,
            coreVars, tunVars, cfgVars, Create, Chain, Step
<1>1. CASE \/ OnCreate \/ IpcListens \/ ServiceStarted \/ LoadSkipped \/ CallUpdateConfig
           \/ ConfigApplied \/ UpdateConfigResolves \/ SetTunOptions
  BY <1>1 DEF OnCreate, IpcListens, ServiceStarted, LoadSkipped, CallUpdateConfig,
              ConfigApplied, UpdateConfigResolves, SetTunOptions, ApplyConfig
<1>2. ASSUME NEW c \in Calls, StartFromCreate(c) \/ RemoteStartClash(c) PROVE CallsFit'
  BY <1>2 DEF StartFromCreate, RemoteStartClash, StartVpn
<1>3. ASSUME NEW c \in Calls, TunFdReady(c) \/ TunFdFails(c) \/ SendStartClash(c) PROVE CallsFit'
  BY <1>3 DEF TunFdReady, TunFdFails, SendStartClash
<1>4. ASSUME NEW c \in Calls, ReceiveStartClash(c) PROVE CallsFit'
  BY <1>4 DEF ReceiveStartClash, StartTUN
<1>5. ASSUME NEW c \in Calls, OnDestroy(c) \/ RemoteStopClash(c) PROVE CallsFit'
  BY <1>5 DEF OnDestroy, RemoteStopClash, StopVpn, StopTun
<1>6. CASE CoreStep
  BY <1>6, CoreStepEffect DEF CoreStep
<1>7. CASE RemoteLoad \/ Ended \/ UNCHANGED vars
  BY <1>7 DEF RemoteLoad, ApplyConfig, Ended, vars
<1>8. QED
  BY <1>1, <1>2, <1>3, <1>4, <1>5, <1>6, <1>7 DEF Next, Startup, ServiceStep

\* Every step starts and stops one call at most.
LEMMA CountStep ==
    ASSUME TypeOK, Countable, [Next]_vars PROVE Countable'
<1>1. ASSUME NEW S, IsFiniteSet(S), NEW c, NEW T \in SUBSET (S \cup {c}) PROVE IsFiniteSet(T)
  BY <1>1, FS_AddElement, FS_Subset
<1> USE DEF Started, Stopped, TypeOK, TunTypeOK, setupVars, serviceVars, abilityVars,
            coreVars, tunVars, cfgVars, Create, Chain, Step
<1>2. ASSUME NEW c \in Calls,
             StartFromCreate(c) \/ RemoteStartClash(c) \/ TunFdReady(c) \/ TunFdFails(c)
                \/ SendStartClash(c)
      PROVE  Started' \in SUBSET (Started \cup {c}) /\ Stopped' = Stopped
  BY <1>2 DEF StartFromCreate, RemoteStartClash, StartVpn, TunFdReady, TunFdFails, SendStartClash
<1>3. ASSUME NEW c \in Calls, ReceiveStartClash(c)
      PROVE  Started' \in SUBSET (Started \cup {c}) /\ Stopped' \in SUBSET (Stopped \cup {c})
  BY <1>3 DEF ReceiveStartClash, StartTUN
<1>4. ASSUME NEW c \in Calls, OnDestroy(c) \/ RemoteStopClash(c)
      PROVE  Started' = Started /\ Stopped' \in SUBSET (Stopped \cup {c})
  BY <1>4 DEF OnDestroy, RemoteStopClash, StopVpn, StopTun
<1>5. CASE \/ OnCreate \/ IpcListens \/ ServiceStarted \/ LoadSkipped \/ CallUpdateConfig
           \/ ConfigApplied \/ UpdateConfigResolves \/ SetTunOptions \/ RemoteLoad
           \/ Ended \/ UNCHANGED vars
  <2>1. Started' = Started /\ Stopped' = Stopped
    BY <1>5 DEF OnCreate, IpcListens, ServiceStarted, LoadSkipped, CallUpdateConfig, ConfigApplied,
                UpdateConfigResolves, SetTunOptions, ApplyConfig, RemoteLoad, Ended, vars
  <2>2. QED
    BY <2>1 DEF Countable
<1>6. CASE CoreStep
  <2>1. Started' = Started /\ Stopped' = Stopped
    BY <1>6, CoreStepEffect DEF CoreStep
  <2>2. QED
    BY <2>1 DEF Countable
<1> HIDE DEF Started, Stopped
<1>7. ASSUME NEW c, Started' \in SUBSET (Started \cup {c}), Stopped' \in SUBSET (Stopped \cup {c})
      PROVE  Countable'
  BY <1>1, <1>7 DEF Countable
<1>8. QED
  BY <1>2, <1>3, <1>4, <1>5, <1>6, <1>7 DEF Next, Startup, ServiceStep

\* Once a client has interfered it has done so for good.
LEMMA OwnStep ==
    ASSUME TypeOK, CallsFit, [Next]_vars, OwnCalls' PROVE OwnCalls
<1> USE DEF CallsFit, OwnCalls, Started, Stopped, TypeOK, TunTypeOK, setupVars, serviceVars,
            abilityVars, coreVars, tunVars, cfgVars, Create, Chain, Step
<1>1. CASE \/ OnCreate \/ IpcListens \/ ServiceStarted \/ LoadSkipped \/ CallUpdateConfig
           \/ ConfigApplied \/ UpdateConfigResolves \/ SetTunOptions
  BY <1>1 DEF OnCreate, IpcListens, ServiceStarted, LoadSkipped, CallUpdateConfig,
              ConfigApplied, UpdateConfigResolves, SetTunOptions, ApplyConfig
<1>2. ASSUME NEW c \in Calls, StartFromCreate(c) \/ RemoteStartClash(c) PROVE OwnCalls
  <2>1. c \notin Started /\ Started' = Started \cup {c} /\ Stopped' = Stopped
        /\ destroyed' = destroyed
    BY <1>2 DEF StartFromCreate, RemoteStartClash, StartVpn
  <2>2. Started = {}
    BY <2>1
  <2>3. QED
    BY <2>1, <2>2
<1>3. ASSUME NEW c \in Calls, TunFdReady(c) \/ TunFdFails(c) \/ SendStartClash(c) PROVE OwnCalls
  BY <1>3 DEF TunFdReady, TunFdFails, SendStartClash
<1>4. ASSUME NEW c \in Calls, ReceiveStartClash(c) PROVE OwnCalls
  BY <1>4 DEF ReceiveStartClash, StartTUN
<1>5. ASSUME NEW c \in Calls, OnDestroy(c) \/ RemoteStopClash(c) PROVE OwnCalls
  <2>1. c \notin Stopped /\ Stopped' = Stopped \cup {c} /\ Started' = Started /\ create' = create
    BY <1>5 DEF OnDestroy, RemoteStopClash, StopVpn, StopTun
  <2>2. Stopped = {}
    BY <2>1
  <2>3. QED
    BY <2>1, <2>2
<1>6. CASE CoreStep
  BY <1>6, CoreStepEffect DEF CoreStep
<1>7. CASE RemoteLoad \/ Ended \/ UNCHANGED vars
  BY <1>7 DEF RemoteLoad, ApplyConfig, Ended, vars
<1>8. QED
  BY <1>1, <1>2, <1>3, <1>4, <1>5, <1>6, <1>7 DEF Next, Startup, ServiceStep

LEMMA LoadStep ==
    ASSUME TypeOK, TypeOK', CallsFit, LoadInv, [Next]_vars PROVE LoadInv'
<1>1. OwnCalls' => OwnCalls
  BY OwnStep
<1> USE DEF LoadInv, TypeOK, TunTypeOK, setupVars, serviceVars, abilityVars, coreVars, tunVars,
            cfgVars, Create, Chain, Step
<1>2. CASE \/ OnCreate \/ IpcListens \/ ServiceStarted \/ LoadSkipped \/ CallUpdateConfig
           \/ ConfigApplied \/ UpdateConfigResolves \/ SetTunOptions
  BY <1>1, <1>2 DEF OnCreate, IpcListens, ServiceStarted, LoadSkipped, CallUpdateConfig,
                    ConfigApplied, UpdateConfigResolves, SetTunOptions, ApplyConfig
<1>3. ASSUME NEW c \in Calls, StartFromCreate(c) \/ RemoteStartClash(c) PROVE LoadInv'
  BY <1>1, <1>3 DEF StartFromCreate, RemoteStartClash, StartVpn
<1>4. ASSUME NEW c \in Calls, TunFdReady(c) \/ TunFdFails(c) \/ SendStartClash(c) PROVE LoadInv'
  BY <1>1, <1>4 DEF TunFdReady, TunFdFails, SendStartClash
<1>5. ASSUME NEW c \in Calls, ReceiveStartClash(c) PROVE LoadInv'
  BY <1>1, <1>5 DEF ReceiveStartClash, StartTUN
<1>6. ASSUME NEW c \in Calls, OnDestroy(c) \/ RemoteStopClash(c) PROVE LoadInv'
  BY <1>1, <1>6 DEF OnDestroy, RemoteStopClash, StopVpn, StopTun
<1>7. CASE CoreStep
  <2>1. ASSUME NEW c \in Calls, OpenTunPanics(c), OwnCalls PROVE skipped \/ falling
    <3>1. chain[c] = "handed" /\ ~currentConfig
      BY <2>1 DEF OpenTunPanics, CallsFit
    <3>2. create = "end"
      BY <2>1, <3>1 DEF OwnCalls, Started
    <3>3. QED
      BY <3>1, <3>2
  <2>2. ASSUME NEW c \in Calls, OpenTunPanics(c) PROVE LoadInv'
    BY <1>1, <1>7, <2>1, <2>2 DEF CoreStep, OpenTunPanics
  <2>3. ASSUME NEW c \in Calls,
               \/ LockTun(c) \/ OpenTun(c) \/ StampRunTime(c) \/ ClearRunTime(c)
               \/ CloseListener(c) \/ RemoveHook(c)
        PROVE  LoadInv'
    BY <1>1, <1>7, <2>3 DEF CoreStep, LockTun, OpenTun, StampRunTime, ClearRunTime, CloseListener,
                            RemoveHook
  <2>4. CASE FallBackToDefault
    BY <1>1, <1>7, <2>4 DEF CoreStep, FallBackToDefault
  <2>5. QED
    BY <1>7, <2>2, <2>3, <2>4 DEF CoreStep, Body
<1>8. CASE RemoteLoad \/ Ended \/ UNCHANGED vars
  BY <1>1, <1>8 DEF RemoteLoad, ApplyConfig, Ended, vars
<1>9. QED
  BY <1>2, <1>3, <1>4, <1>5, <1>6, <1>7, <1>8 DEF Next, Startup, ServiceStep

\* The startClash that arrives is the first call of the core, and a stop that
\* is made when the process is up finds no start in flight.
LEMMA DestroyStep ==
    ASSUME TypeOK, TypeOK', LifeInv, CallsFit, CallsFit', DestroyInv, [Next]_vars
    PROVE  DestroyInv'
<1>1. OwnCalls' => OwnCalls
  BY OwnStep
<1> USE DEF DestroyInv, TypeOK, TunTypeOK, setupVars, serviceVars, abilityVars, coreVars, tunVars,
            cfgVars, Create, Chain, Step
<1>2. CASE \/ OnCreate \/ IpcListens \/ ServiceStarted \/ LoadSkipped \/ CallUpdateConfig
           \/ ConfigApplied \/ UpdateConfigResolves \/ SetTunOptions
  BY <1>1, <1>2 DEF OnCreate, IpcListens, ServiceStarted, LoadSkipped, CallUpdateConfig,
                    ConfigApplied, UpdateConfigResolves, SetTunOptions, ApplyConfig
<1>3. ASSUME NEW c \in Calls, StartFromCreate(c) PROVE DestroyInv'
  BY <1>1, <1>3 DEF StartFromCreate, StartVpn
<1>4. ASSUME NEW c \in Calls, RemoteStartClash(c) PROVE DestroyInv'
  <2>1. OwnCalls' => create # "end"
    <3>1. SUFFICES ASSUME OwnCalls', create = "end" PROVE FALSE
      OBVIOUS
    <3>2. PICK d \in Calls : chain[d] # "none"
      BY <3>1 DEF CallsFit, Started
    <3>3. c \in Started' /\ d \in Started' /\ c # d
      BY <1>4, <3>2 DEF RemoteStartClash, StartVpn, Started
    <3>4. QED
      BY <3>1, <3>3 DEF OwnCalls
  <2>2. QED
    BY <1>1, <1>4, <2>1 DEF RemoteStartClash, StartVpn
<1>5. ASSUME NEW c \in Calls, TunFdReady(c) \/ TunFdFails(c) \/ SendStartClash(c) PROVE DestroyInv'
  BY <1>1, <1>5 DEF TunFdReady, TunFdFails, SendStartClash
<1>6. ASSUME NEW c \in Calls, ReceiveStartClash(c) PROVE DestroyInv'
  <2>1. ASSUME OwnCalls', destroyed' # "early" PROVE orderly'
    <3>1. OwnCalls /\ destroyed = "no" /\ orderly
      BY <1>1, <1>6, <2>1 DEF ReceiveStartClash, StartTUN
    <3>2. Stopped = {} /\ \A d \in Calls : d # c => chain[d] = "none"
      BY <1>6, <3>1 DEF OwnCalls, Started, ReceiveStartClash
    <3>3. InFlight("stop") = {}
      BY <3>2 DEF InFlight, Stopped
    <3>4. \A d \in Calls : op[d] # "start"
      BY <1>6, <3>2 DEF CallsFit, ReceiveStartClash, StartTUN
    <3>5. InFlight("start") = {} /\ open = {}
      BY <3>4 DEF InFlight, CallsFit
    <3>6. QED
      BY <1>6, <3>1, <3>3, <3>5 DEF ReceiveStartClash, StartTUN
  <2>2. QED
    BY <1>1, <1>6, <2>1 DEF ReceiveStartClash, StartTUN
<1>7. ASSUME NEW c \in Calls, OnDestroy(c) PROVE DestroyInv'
  BY <1>1, <1>7 DEF OnDestroy, StopVpn, StopTun, Up
<1>8. ASSUME NEW c \in Calls, RemoteStopClash(c) PROVE DestroyInv'
  <2>1. OwnCalls' => destroyed # "no"
    BY <1>8 DEF RemoteStopClash, StopVpn, StopTun, OwnCalls, Stopped
  <2>2. ~OwnCalls'
    <3>1. SUFFICES ASSUME OwnCalls' PROVE FALSE
      OBVIOUS
    <3>2. PICK d \in Calls : op[d] = "stop"
      BY <2>1, <3>1 DEF CallsFit, Stopped
    <3>3. c \in Stopped' /\ d \in Stopped' /\ c # d
      BY <1>8, <3>2 DEF RemoteStopClash, StopVpn, StopTun, Stopped, CallsFit
    <3>4. QED
      BY <3>1, <3>3 DEF OwnCalls
  <2>3. QED
    BY <1>8, <2>2 DEF RemoteStopClash, StopVpn, StopTun
<1>9. CASE CoreStep
  BY <1>1, <1>9, CoreStepEffect DEF CoreStep
<1>10. CASE RemoteLoad \/ Ended \/ UNCHANGED vars
  BY <1>1, <1>10 DEF RemoteLoad, ApplyConfig, Ended, vars
<1>11. QED
  BY <1>2, <1>3, <1>4, <1>5, <1>6, <1>7, <1>8, <1>9, <1>10 DEF Next, Startup, ServiceStep

LEMMA RouteStep ==
    ASSUME TypeOK, TypeOK', CallsFit, RouteInv, [Next]_vars PROVE RouteInv'
<1>1. OwnCalls' => OwnCalls
  BY OwnStep
<1> USE DEF RouteInv, Started, TypeOK, TunTypeOK, setupVars, serviceVars, abilityVars, coreVars,
            tunVars, cfgVars, Create, Chain, Step
<1>2. CASE \/ OnCreate \/ IpcListens \/ ServiceStarted \/ LoadSkipped \/ CallUpdateConfig
           \/ ConfigApplied \/ UpdateConfigResolves \/ SetTunOptions
  BY <1>1, <1>2 DEF OnCreate, IpcListens, ServiceStarted, LoadSkipped, CallUpdateConfig,
                    ConfigApplied, UpdateConfigResolves, SetTunOptions, ApplyConfig
<1>3. ASSUME NEW c \in Calls, StartFromCreate(c) PROVE RouteInv'
  <2>1. OwnCalls => Started = {}
    BY <1>3 DEF StartFromCreate, OwnCalls
  <2>2. Started' = Started \cup {c}
    BY <1>3 DEF StartFromCreate, StartVpn
  <2>3. QED
    BY <1>1, <1>3, <2>1, <2>2 DEF StartFromCreate, StartVpn
<1>4. ASSUME NEW c \in Calls, RemoteStartClash(c) PROVE RouteInv'
  <2>1. tunIp' = tunIp /\ create' = create /\ Started' = Started \cup {c}
        /\ (tunIp => routed' = routed \cup {c})
    BY <1>4 DEF RemoteStartClash, StartVpn
  <2>2. QED
    BY <1>1, <2>1
<1>5. ASSUME NEW c \in Calls,
             TunFdReady(c) \/ TunFdFails(c) \/ SendStartClash(c) \/ ReceiveStartClash(c)
      PROVE  RouteInv'
  BY <1>1, <1>5 DEF TunFdReady, TunFdFails, SendStartClash, ReceiveStartClash
<1>6. ASSUME NEW c \in Calls, OnDestroy(c) \/ RemoteStopClash(c) PROVE RouteInv'
  BY <1>1, <1>6 DEF OnDestroy, RemoteStopClash, StopVpn
<1>7. CASE CoreStep \/ RemoteLoad \/ Ended \/ UNCHANGED vars
  BY <1>1, <1>7 DEF CoreStep, RemoteLoad, Ended, vars
<1>8. QED
  BY <1>2, <1>3, <1>4, <1>5, <1>6, <1>7 DEF Next, Startup, ServiceStep

ProcInv == CallsFit /\ Countable /\ LoadInv /\ DestroyInv /\ RouteInv

LEMMA ProcInvariant == Spec => []ProcInv
<1>1. Init => ProcInv
  <2> SUFFICES ASSUME Init PROVE ProcInv
    OBVIOUS
  <2>1. Started = {} /\ Stopped = {}
    BY DEF Init, TunInit, Started, Stopped
  <2>2. Countable
    BY <2>1, FS_EmptySet DEF Countable
  <2>3. CallsFit /\ LoadInv /\ DestroyInv /\ RouteInv
    BY <2>1 DEF Init, TunInit, CallsFit, LoadInv, DestroyInv, RouteInv
  <2>4. QED
    BY <2>2, <2>3 DEF ProcInv
<1>2. TypeOK /\ TypeOK' /\ LifeInv /\ ProcInv /\ [Next]_vars => ProcInv'
  BY FitStep, CountStep, LoadStep, DestroyStep, RouteStep DEF ProcInv
<1>3. QED
  BY <1>1, <1>2, TypeCorrect, CoreFacts, PTL DEF Spec

\* The core dies of a missing configuration only where onCreate skipped the
\* load, a load is between its two assignments, or a client interfered.
THEOREM CrashCause == Spec => []CrashNeedsMissingLoad
<1>1. ProcInv => CrashNeedsMissingLoad
  BY CountsOwnCalls DEF ProcInv, LoadInv, CrashNeedsMissingLoad
<1>2. QED
  BY <1>1, ProcInvariant, PTL

\* The process by itself makes an orderly history, so what holds of one in
\* TunCore holds of the process: no TUN leaks, none is open without its hook.
THEOREM SafeProcess == Spec => []SafeUnlessDestroyedEarly
<1>1. ProcInv /\ LifeInv => SafeUnlessDestroyedEarly
  BY CountsOwnCalls DEF ProcInv, DestroyInv, LifeInv, OrderlyCalls, SafeUnlessDestroyedEarly
<1>2. QED
  BY <1>1, ProcInvariant, CoreFacts, PTL

\* A TUN that is open in a core that knows its address has the default route.
THEOREM RoutedTun == Spec => []AddressedMeansRouted
<1>1. TypeOK /\ ProcInv => AddressedMeansRouted
  <2> SUFFICES ASSUME TypeOK, ProcInv, tunIp, ~RemoteUsed, NEW c \in open PROVE c \in routed
    BY DEF AddressedMeansRouted
  <2>1. OwnCalls
    BY CountsOwnCalls DEF ProcInv
  <2>2. c \in Started
    BY DEF ProcInv, CallsFit, Started, TypeOK, TunTypeOK
  <2>3. create = "end"
    BY <2>1, <2>2 DEF OwnCalls
  <2>4. QED
    BY <2>1, <2>2, <2>3 DEF ProcInv, RouteInv
<1>2. QED
  BY <1>1, ProcInvariant, TypeCorrect, PTL
=============================================================================
