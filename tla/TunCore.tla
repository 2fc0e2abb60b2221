------------------------------ MODULE TunCore ------------------------------
(***************************************************************************)
(* The TUN life cycle of the Go core, as lib_linux.go implements it.       *)
(*                                                                         *)
(* StartTUN installs the process-wide socket hook in the caller and opens  *)
(* the listener in a goroutine that takes tunLock; StopTun does all of its *)
(* work in a goroutine that takes tunLock and removes the hook at its end. *)
(* The hook is therefore written outside the lock by one and inside it by  *)
(* the other, and the two goroutines take the lock in any order.           *)
(*                                                                         *)
(* A call is an element of Calls: it is made once, runs through its        *)
(* program counter, and names the hook closure and the listener it made.   *)
(***************************************************************************)
EXTENDS Naturals, FiniteSets

CONSTANTS
    Calls,   \* bound: the calls of StartTUN and StopTun that can be made
    NoCall   \* nil: no lock holder, no hook, no listener

ASSUME NoCallAssumption == NoCall \notin Calls

VARIABLES
    pc,            \* where each call stands
    op,            \* which function each call is a call of
    tunLock,       \* the call whose goroutine holds tunLock
    hook,          \* dialer.DefaultSocketHook: the call that installed it
    tunListener,   \* the published listener pointer: the call that opened it
    open,          \* the listeners that own a TUN descriptor
    runTime,       \* runTime # nil
    currentConfig, \* currentConfig # nil
    falling,       \* applyConfig is between a failed parse and its fallback
    crashed,       \* the process died of a nil dereference
    orderly        \* history: no call has overlapped a call it depends on

tunVars == <<pc, op, tunLock, hook, tunListener, open, runTime>>
coreVars == <<pc, op, tunLock, hook, tunListener, open, runTime,
              currentConfig, falling, crashed, orderly>>

cfgVars == <<currentConfig, falling>>

CallOrNil == Calls \cup {NoCall}

\* "start" is StartTUN with a descriptor, "mark" StartTUN with fd = 0.
Ops == {"none", "start", "mark", "stop"}

Holding == {"locked", "opened", "cleared", "closed"}
Pcs     == {"idle", "spawned", "done"} \cup Holding

TunTypeOK ==
    /\ pc \in [Calls -> Pcs]
    /\ op \in [Calls -> Ops]
    /\ tunLock \in CallOrNil
    /\ hook \in CallOrNil
    /\ tunListener \in CallOrNil
    /\ open \in SUBSET Calls
    /\ runTime \in BOOLEAN
    /\ currentConfig \in BOOLEAN
    /\ falling \in BOOLEAN
    /\ crashed \in BOOLEAN
    /\ orderly \in BOOLEAN

TunInit ==
    /\ pc = [c \in Calls |-> "idle"]
    /\ op = [c \in Calls |-> "none"]
    /\ tunLock = NoCall
    /\ hook = NoCall
    /\ tunListener = NoCall
    /\ open = {}
    /\ runTime = FALSE
    /\ currentConfig = FALSE
    /\ falling = FALSE
    /\ crashed = FALSE
    /\ orderly = TRUE

-----------------------------------------------------------------------------

Step(c, from, to) ==
    /\ ~crashed
    /\ pc[c] = from
    /\ pc' = [pc EXCEPT ![c] = to]

Release(c) == tunLock' = NoCall

\* The calls of f whose goroutine is between its spawn and its end.
InFlight(f) == {c \in Calls : op[c] = f /\ pc[c] \in {"spawned"} \cup Holding}

\* Mutant: StartTUN leaves the hook to somebody else.
StartTUNWithoutHook(c) ==
    /\ Step(c, "idle", "spawned")
    /\ op' = [op EXCEPT ![c] = "start"]
    /\ orderly' = (orderly /\ InFlight("start") = {} /\ InFlight("stop") = {}
                           /\ open = {})
    /\ UNCHANGED <<hook, tunLock, tunListener, open, runTime, cfgVars, crashed>>

\* StartTUN(fd # 0): the hook closure is stored by the caller, before the
\* goroutine that opens the listener is even scheduled.
StartTUN(c) ==
    /\ Step(c, "idle", "spawned")
    /\ op' = [op EXCEPT ![c] = "start"]
    /\ hook' = c
    /\ orderly' = (orderly /\ InFlight("start") = {} /\ InFlight("stop") = {}
                           /\ open = {})
    /\ UNCHANGED <<tunLock, tunListener, open, runTime, cfgVars, crashed>>

\* StartTUN(0) stamps runTime under the lock and opens nothing.
StartTUNNoFd(c) ==
    /\ Step(c, "idle", "spawned")
    /\ op' = [op EXCEPT ![c] = "mark"]
    /\ UNCHANGED <<tunLock, hook, tunListener, open, runTime, cfgVars, crashed, orderly>>

StopTun(c) ==
    /\ Step(c, "idle", "spawned")
    /\ op' = [op EXCEPT ![c] = "stop"]
    /\ orderly' = (orderly /\ InFlight("start") = {})
    /\ UNCHANGED <<tunLock, hook, tunListener, open, runTime, cfgVars, crashed>>

\* Mutants: the goroutines share the lock; they take it for reading.
LockTunAnyway(c) ==
    /\ Step(c, "spawned", "locked")
    /\ tunLock' = c
    /\ UNCHANGED <<op, hook, tunListener, open, runTime, cfgVars, crashed, orderly>>

RLockTun(c) ==
    /\ Step(c, "spawned", "locked")
    /\ tunLock' = {c}
    /\ UNCHANGED <<op, hook, tunListener, open, runTime, cfgVars, crashed, orderly>>

LockTun(c) ==
    /\ Step(c, "spawned", "locked")
    /\ tunLock = NoCall
    /\ tunLock' = c
    /\ UNCHANGED <<op, hook, tunListener, open, runTime, cfgVars, crashed, orderly>>

\* t.Start reads currentConfig.General: without a configuration the goroutine
\* panics. Its error is dropped and a nil listener is published in its place.
OpenTun(c) ==
    /\ op[c] = "start"
    /\ currentConfig
    /\ Step(c, "locked", "opened")
    /\ \/ /\ tunListener' = c
          /\ open' = open \cup {c}
       \/ /\ tunListener' = NoCall
          /\ UNCHANGED open
    /\ UNCHANGED <<op, tunLock, hook, runTime, cfgVars, crashed, orderly>>

OpenTunPanics(c) ==
    /\ ~crashed
    /\ op[c] = "start"
    /\ pc[c] = "locked"
    /\ ~currentConfig
    /\ crashed' = TRUE
    /\ UNCHANGED <<tunVars, cfgVars, orderly>>

StampRunTime(c) ==
    /\ \/ op[c] = "start" /\ Step(c, "opened", "done")
       \/ op[c] = "mark"  /\ Step(c, "locked", "done")
    /\ runTime' = TRUE
    /\ Release(c)
    /\ UNCHANGED <<op, hook, tunListener, open, cfgVars, crashed, orderly>>

ClearRunTime(c) ==
    /\ op[c] = "stop"
    /\ Step(c, "locked", "cleared")
    /\ runTime' = FALSE
    /\ UNCHANGED <<op, tunLock, hook, tunListener, open, cfgVars, crashed, orderly>>

\* Mutant: the published listener is not closed.
CloseNothing(c) ==
    /\ Step(c, "cleared", "closed")
    /\ UNCHANGED <<open, op, tunLock, hook, tunListener, runTime, cfgVars, crashed, orderly>>

\* Close is called on whatever listener is published; the pointer stays set.
CloseListener(c) ==
    /\ Step(c, "cleared", "closed")
    /\ open' = open \ {tunListener}
    /\ UNCHANGED <<op, tunLock, hook, tunListener, runTime, cfgVars, crashed, orderly>>

\* Mutant: the goroutine of StopTun returns with the lock held.
RemoveHookKeepLock(c) ==
    /\ Step(c, "closed", "done")
    /\ hook' = NoCall
    /\ UNCHANGED <<tunLock, op, tunListener, open, runTime, cfgVars, crashed, orderly>>

RemoveHook(c) ==
    /\ Step(c, "closed", "done")
    /\ hook' = NoCall
    /\ Release(c)
    /\ UNCHANGED <<op, tunListener, open, runTime, cfgVars, crashed, orderly>>

\* applyConfig assigns the result of ParseRawConfig to currentConfig at once:
\* a configuration, or nil together with an error.
ApplyConfig ==
    /\ ~crashed
    /\ ~falling
    /\ \/ currentConfig' = TRUE  /\ falling' = FALSE
       \/ currentConfig' = FALSE /\ falling' = TRUE
    /\ UNCHANGED <<tunVars, crashed, orderly>>

\* After an error the default configuration takes its place. runLock covers
\* both assignments; StartTUN and ConfigInited read between them regardless.
FallBackToDefault ==
    /\ ~crashed
    /\ falling
    /\ currentConfig' = TRUE
    /\ falling' = FALSE
    /\ UNCHANGED <<tunVars, crashed, orderly>>

Body(c) ==
    \/ OpenTun(c)
    \/ OpenTunPanics(c)
    \/ StampRunTime(c)
    \/ ClearRunTime(c)
    \/ CloseListener(c)
    \/ RemoveHook(c)

\* The calls are used up: a bound of the model, not a deadlock of the code.
Exhausted ==
    /\ crashed \/ \A c \in Calls : pc[c] = "done"
    /\ UNCHANGED coreVars

TunNext ==
    \/ \E c \in Calls :
        \/ StartTUN(c)
        \/ StartTUNNoFd(c)
        \/ StopTun(c)
        \/ LockTun(c)
        \/ Body(c)
    \/ ApplyConfig
    \/ FallBackToDefault
    \/ Exhausted

\* The Go scheduler runs every runnable goroutine; sync.Mutex hands the lock
\* to a waiter that has starved, so each waiter gets it in the end.
TunFairness ==
    \A c \in Calls : SF_coreVars(LockTun(c)) /\ WF_coreVars(Body(c))

TunSpec     == TunInit /\ [][TunNext]_coreVars
TunFairSpec == TunSpec /\ TunFairness

-----------------------------------------------------------------------------

\* tunLock serialises the two bodies: at most one goroutine is between taking
\* the lock and releasing it, so no start publishes a listener in the middle
\* of a stop (lib_linux.go:90, :117).
BodiesExclude ==
    \A c, d \in Calls : pc[c] \in Holding /\ pc[d] \in Holding => c = d

\* Whenever the lock is free and GetRunTime answers that the service is not
\* running, the published listener is closed: a stop never reports "stopped"
\* over the TUN it was to close, whatever starts race with it
\* (lib_linux.go:102, :120-:124).
StoppedMeansClosed ==
    tunLock = NoCall /\ ~runTime => tunListener \notin open

\* As long as no start was made over a live TUN, another start or a stop in
\* flight, and no stop over a start in flight, two things hold at every
\* instant, also in the middle of the bodies: the only TUN that is open is the
\* published one, so the next StopTun reaches it, and no TUN is open without
\* the socket hook that keeps the core's own connections out of it
\* (lib_linux.go:88, :93, :122-:125).
OrderlyIsSafe ==
    orderly => /\ open \subseteq {tunListener}
               /\ open # {} => hook # NoCall

\* Every stop that is called ends, and the lock is given back, although it
\* waits for a lock that starts keep taking (lib_linux.go:116-:118).
StopsEnd ==
    \A c \in Calls : (op[c] = "stop") ~> (pc[c] = "done" \/ crashed)
=============================================================================
