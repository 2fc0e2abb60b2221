--------------------------- MODULE SocketProtect ---------------------------
(***************************************************************************)
(* How a connection of the Go core is kept out of its own TUN.             *)
(*                                                                         *)
(* While a TUN is up, dialer.DefaultSocketHook holds every dial inside     *)
(* conn.Control until the VPN service has protected the socket: the hook   *)
(* sends {id, descriptor} over the startClash connection, the ArkTS side   *)
(* awaits protect(descriptor) and stores the id back through setFdMap,     *)
(* and the hook polls for its id every 20 ms for at most 500 ms.           *)
(*                                                                         *)
(* All dials of one StartTUN share one result variable, ids are never used *)
(* twice, but descriptors are: a socket that is closed gives its number to *)
(* the next one, while requests about the old one are still on their way.  *)
(***************************************************************************)
EXTENDS Naturals, Sequences, SequencesExt

CONSTANTS
    Dials,     \* bound: the dials of the core; a dial is its fdCounter id
    Fds,       \* the descriptor numbers the sockets get
    Sessions,  \* bound: the calls of StartTUN, one hook and one connection each
    Capacity,  \* the requests that fit in the buffer of each connection
    None,      \* nil: no hook, nothing written yet
    Garbled    \* a string whose pointer and length are of two writes

ASSUME ProtectAssumption ==
    /\ None \notin Dials \cup Sessions
    /\ Garbled \notin Dials \cup {None}

ASSUME BufferAssumption == Capacity \in [Sessions -> Nat \ {0}]

VARIABLES
    hook,       \* dialer.DefaultSocketHook: the session that installed it
    used,       \* the sessions that have been started
    pc,         \* where each dial stands
    session,    \* the session whose hook a dial has called
    fdOf,       \* the descriptor of a dial's socket, live or closed
    ret,        \* the result variable the dials of a session share
    conn,       \* the requests in the buffer of each connection
    protecting, \* requests read by the service, before protect has answered
    storing,    \* requests it has protected, before the id is in fdMap
    fdMap,      \* the ids that have been stored
    protected,  \* the sockets the system keeps out of the TUN
    lost,       \* history: dials whose request the service has dropped
    raced,      \* history: dials that used the shared result together
    crashed     \* a dial called the hook after it was removed

hookVars == <<hook, used>>
dialVars == <<pc, session, fdOf>>
wireVars == <<ret, conn>>
ackVars  == <<protecting, storing, fdMap, protected, lost, raced>>
vars     == <<hookVars, dialVars, wireVars, ackVars, crashed>>

\* A dial that holds an open socket, and one that is inside conn.Control.
InControl == {"marking", "written", "waiting"}
Live      == InControl \cup {"acked", "expired"}
Pcs       == {"idle", "checked", "plain", "blocked", "closed"} \cup Live

TypeOK ==
    /\ hook \in Sessions \cup {None}
    /\ used \in SUBSET Sessions
    /\ pc \in [Dials -> Pcs]
    /\ session \in [Dials -> Sessions \cup {None}]
    /\ fdOf \in [Dials -> Fds]
    /\ ret \in [Sessions -> Dials \cup {None, Garbled}]
    /\ conn \in [Sessions -> Seq(Dials \cup {None, Garbled})]
    /\ protecting \in SUBSET Dials
    /\ storing \in SUBSET Dials
    /\ fdMap \in SUBSET Dials
    /\ protected \in SUBSET Dials
    /\ {lost, raced} \subseteq SUBSET Dials
    /\ crashed \in BOOLEAN

Init ==
    /\ hook = None
    /\ used = {}
    /\ pc = [d \in Dials |-> "idle"]
    /\ session = [d \in Dials |-> None]
    /\ fdOf \in {[d \in Dials |-> f] : f \in Fds}
    /\ ret = [s \in Sessions |-> None]
    /\ conn = [s \in Sessions |-> <<>>]
    /\ protecting = {}
    /\ storing = {}
    /\ fdMap = {}
    /\ protected = {}
    /\ lost = {}
    /\ raced = {}
    /\ crashed = FALSE

-----------------------------------------------------------------------------

\* StartTUN and the end of StopTun, as far as the dials see them.
InitSocketHook(s) ==
    /\ ~crashed
    /\ s \notin used
    /\ hook' = s
    /\ used' = used \cup {s}
    /\ UNCHANGED <<dialVars, wireVars, ackVars, crashed>>

RemoveSocketHook ==
    /\ ~crashed
    /\ hook # None
    /\ hook' = None
    /\ UNCHANGED <<used, dialVars, wireVars, ackVars, crashed>>

Dial(d, from, to) ==
    /\ ~crashed
    /\ pc[d] = from
    /\ pc' = [pc EXCEPT ![d] = to]

\* dialContext asks whether there is a hook; without one the dial is plain.
CheckHook(d) ==
    /\ \/ hook # None /\ Dial(d, "idle", "checked")
       \/ hook = None /\ Dial(d, "idle", "plain")
    /\ UNCHANGED <<hookVars, session, fdOf, wireVars, ackVars, crashed>>

FreeFds == {f \in Fds : \A d \in Dials : pc[d] \in Live => fdOf[d] # f}

\* The dials that use the shared result of a session.
Sharers(s) == {d \in Dials : session[d] = s /\ pc[d] \in {"marking", "written"}}

\* The socket exists and its Control function reads the hook again. Near the
\* descriptor limit the hook refuses the connection.
CallHook(d) ==
    /\ hook # None
    /\ \/ /\ \E f \in FreeFds : fdOf' = [fdOf EXCEPT ![d] = f]
          /\ Dial(d, "checked", "marking")
          /\ session' = [session EXCEPT ![d] = hook]
          /\ raced' = IF Sharers(hook) = {} THEN raced ELSE raced \cup Sharers(hook) \cup {d}
       \/ /\ Dial(d, "checked", "blocked")
          /\ UNCHANGED <<session, fdOf, raced>>
    /\ UNCHANGED <<hookVars, wireVars, protecting, storing, fdMap, protected, lost,
                   crashed>>

CallNilHook(d) ==
    /\ ~crashed
    /\ pc[d] = "checked"
    /\ hook = None
    /\ crashed' = TRUE
    /\ UNCHANGED <<hookVars, dialVars, wireVars, ackVars>>

\* The other dials of d's session that are about to assign the result.
Writers(d) == {e \in Sharers(session[d]) \ {d} : pc[e] = "marking"}

\* ret.Result = ..., a string header of two words: when two dials assign it at
\* once, either assignment or a mixture of both is left.
AssignResult(d) ==
    /\ Dial(d, "marking", "written")
    /\ \E v \in {d} \cup (IF Writers(d) = {} THEN {} ELSE {Garbled}) :
         ret' = [ret EXCEPT ![session[d]] = v]
    /\ UNCHANGED <<hookVars, session, fdOf, conn, ackVars, crashed>>

\* fn(ret) copies whatever the variable holds now and writes it.
SendResult(d) ==
    LET s == session[d] IN
    /\ Dial(d, "written", "waiting")
    /\ Len(conn[s]) < Capacity[s]
    /\ \E v \in {ret[s]} \cup (IF Writers(d) = {} THEN {} ELSE {Garbled}) :
         conn' = [conn EXCEPT ![s] = Append(@, v)]
    /\ UNCHANGED <<hookVars, session, fdOf, ret, ackVars, crashed>>

\* The poll finds the id.
Acknowledged(d) ==
    /\ Dial(d, "waiting", "acked")
    /\ d \in fdMap
    /\ UNCHANGED <<hookVars, session, fdOf, wireVars, ackVars, crashed>>

\* Mutant: the timer is made anew by every poll.
ExpireNever(d) ==
    /\ Dial(d, "waiting", "expired")
    /\ FALSE
    /\ UNCHANGED <<hookVars, session, fdOf, wireVars, ackVars, crashed>>

\* 500 ms are over: the hook returns without an error and the dial goes on.
Expire(d) ==
    /\ Dial(d, "waiting", "expired")
    /\ UNCHANGED <<hookVars, session, fdOf, wireVars, ackVars, crashed>>

\* The connection ends and its descriptor number is free again.
Close(d) ==
    /\ \E from \in {"acked", "expired"} : Dial(d, from, "closed")
    /\ protected' = protected \ {d}
    /\ UNCHANGED <<hookVars, session, fdOf, wireVars, protecting, storing, fdMap,
                   lost, raced, crashed>>

-----------------------------------------------------------------------------
(* The VPN service.                                                        *)

\* Mutants: only the first request of what has arrived is looked at; a
\* request that does not parse is passed on.
ReceiveFirstOnly(s) ==
    /\ ~crashed
    /\ conn[s] # <<>>
    /\ conn' = [conn EXCEPT ![s] = <<>>]
    /\ protecting' = protecting \cup ({Head(conn[s])} \cap Dials)
    /\ UNCHANGED <<hookVars, dialVars, ret, storing, fdMap, protected, lost, raced,
                   crashed>>

ReceiveUnparsed(s) ==
    /\ ~crashed
    /\ conn[s] # <<>>
    /\ conn' = [conn EXCEPT ![s] = Tail(@)]
    /\ protecting' = protecting \cup {Head(conn[s])}
    /\ UNCHANGED <<hookVars, dialVars, ret, storing, fdMap, protected, lost, raced,
                   crashed>>

\* A request that arrives whole is parsed and protect is called; a garbled one
\* does not parse, and neither do the two halves of one that two messages cut.
Receive(s) ==
    /\ ~crashed
    /\ conn[s] # <<>>
    /\ conn' = [conn EXCEPT ![s] = Tail(@)]
    /\ LET m == Head(conn[s]) IN
       \/ m \in Dials /\ protecting' = protecting \cup {m} /\ UNCHANGED lost
       \/ UNCHANGED protecting /\ lost' = lost \cup ({m} \cap Dials)
    /\ UNCHANGED <<hookVars, dialVars, ret, storing, fdMap, protected, raced, crashed>>

\* The system protects the socket that has the number now, whose dial may be
\* another one than the dial that asked.
Protect(d) ==
    /\ ~crashed
    /\ d \in protecting
    /\ protecting' = protecting \ {d}
    /\ storing' = storing \cup {d}
    /\ protected' = protected \cup {e \in Dials : pc[e] \in Live /\ fdOf[e] = fdOf[d]}
    /\ UNCHANGED <<hookVars, dialVars, wireVars, fdMap, lost, raced, crashed>>

\* protect throws, when the connection is destroyed for one: the id is not
\* stored, and the dial that asked will wait its 500 ms.
ProtectFails(d) ==
    /\ ~crashed
    /\ d \in protecting
    /\ protecting' = protecting \ {d}
    /\ lost' = lost \cup {d}
    /\ UNCHANGED <<hookVars, dialVars, wireVars, storing, fdMap, protected, raced,
                   crashed>>

\* Mutant: the descriptor is stored in place of the id.
SetFdMapByValue(d) ==
    /\ ~crashed
    /\ d \in storing
    /\ storing' = storing \ {d}
    /\ fdMap' = fdMap \cup {e \in Dials : fdOf[e] = fdOf[d]}
    /\ UNCHANGED <<hookVars, dialVars, wireVars, protecting, protected, lost, raced,
                   crashed>>

\* setFdMap: the goroutine it starts stores the id, which is never removed.
SetFdMap(d) ==
    /\ ~crashed
    /\ d \in storing
    /\ storing' = storing \ {d}
    /\ fdMap' = fdMap \cup {d}
    /\ UNCHANGED <<hookVars, dialVars, wireVars, protecting, protected, lost, raced,
                   crashed>>

Exhausted ==
    /\ \/ crashed
       \/ \A d \in Dials : pc[d] \in {"plain", "blocked", "closed"}
    /\ UNCHANGED vars

Next ==
    \/ \E s \in Sessions : InitSocketHook(s) \/ Receive(s)
    \/ RemoveSocketHook
    \/ \E d \in Dials :
        \/ CheckHook(d)
        \/ CallHook(d)
        \/ CallNilHook(d)
        \/ AssignResult(d)
        \/ SendResult(d)
        \/ Acknowledged(d)
        \/ Expire(d)
        \/ Close(d)
        \/ Protect(d)
        \/ ProtectFails(d)
        \/ SetFdMap(d)
    \/ Exhausted

\* The goroutines run, the timer of a dial fires, and the service keeps
\* reading its connections; a write that finds room gets it in the end.
Fairness ==
    /\ \A d \in Dials :
        /\ WF_vars(AssignResult(d))
        /\ SF_vars(SendResult(d))
        /\ WF_vars(Expire(d) \/ Acknowledged(d))
    /\ \A s \in Sessions : WF_vars(Receive(s))

Spec     == Init /\ [][Next]_vars
FairSpec == Spec /\ Fairness

-----------------------------------------------------------------------------

\* A dial that goes on because its id was found owns a protected socket: late
\* answers and reused descriptor numbers never release a dial whose own socket
\* the system would route back into the TUN (lib_linux.go:146-:158,
\* FlClashVpnService.ts:187-:189).
AckedIsProtected == \A d \in Dials : pc[d] = "acked" => d \in protected

\* A dial that had the shared result to itself, and whose request the service
\* did not drop, finds its request on the way or its id in the map: it is not
\* bound to wait the 500 ms and to go out unprotected (ipc.go:230-:234).
RequestSurvives ==
    \A d \in Dials :
        pc[d] = "waiting" /\ d \notin raced \cup lost =>
            d \in protecting \cup storing \cup fdMap \cup ToSet(conn[session[d]])

\* No dial stays inside conn.Control: not when its answer is lost, and not
\* when the buffer of the connection is full (lib_linux.go:143, :151-:162).
DialsLeaveControl ==
    \A d \in Dials : (pc[d] \in InControl) ~> (pc[d] \notin InControl \/ crashed)
=============================================================================
