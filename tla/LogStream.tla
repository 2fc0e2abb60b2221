----------------------------- MODULE LogStream -----------------------------
(***************************************************************************)
(* The log of the core on its way to the application: log.go and the       *)
(* observable with one buffered channel per subscriber, handleStartLog     *)
(* with its one global logSubscriber, the connection it writes to, and the *)
(* two who ask for it, CoreLogger (into core.log) and the Logs page.       *)
(*                                                                         *)
(* A connection names what belongs to it: the request of SetLogObserver    *)
(* sent over it, the channel that request subscribes, the file descriptor  *)
(* opened for it. An entry is a number; what its text and its level do to  *)
(* it is in two constants. The level of the core stays as it is; rotation  *)
(* and the wording of a line are left out.                                 *)
(***************************************************************************)
EXTENDS Naturals, Sequences, SequencesExt

CONSTANTS
    Conn,
    NoConn,
    Buffer,      \* of a subscriber's channel (200)
    SocketRoom,  \* frames that a socket holds
    WithEOF,     \* the entries with "EOF" in their text
    Below,       \* the entries below log.Level()
    MaxEntries   \* bound: log calls

ASSUME LogAssumption ==
    /\ NoConn \notin Conn /\ Conn # {}
    /\ Buffer \in Nat \ {0} /\ SocketRoom \in Nat \ {0} /\ MaxEntries \in Nat
    /\ WithEOF \subseteq Nat /\ Below \subseteq Nat

VARIABLES
    \* the core
    calling,        \* a log call waits for logCh to take its event
    entries,        \* entries taken so far
    todo,           \* channels the observable has yet to emit to; it holds the mutex
    listeners,      \* the channels it emits to
    buf,
    logSubscriber,
    start,          \* where handleStartLog stands for each connection
    target,         \* the subscription handleStartLog is to end
    reads,          \* the channel each forwarding goroutine ranges over
    \* the application
    conn,
    sock,           \* frames on their way
    unsubscribe,    \* the connection CoreLogger.unsubscribe closes
    fd,             \* CoreLogger.fd
    page,           \* the connection of the Logs page that is open
    frozen,         \* the system has suspended the UI process: not yet, now, once
    \* history
    last,           \* the last entry before a subscription, then the last handed over
    openFds,
    overlap,        \* two handleStartLog have run at the same time
    early           \* an install or an opening of the page was overtaken while it waited

emitter  == <<calling, entries, todo>>
startLog == <<start, target, logSubscriber, overlap>>
client   == <<conn, unsubscribe, fd, page, frozen, openFds, early>>
vars     == <<emitter, listeners, buf, startLog, reads, client, sock, last>>

Loggers == {"logger", "page"}

TypeOK ==
    /\ calling \in BOOLEAN /\ entries \in 0..MaxEntries
    /\ todo \subseteq Conn /\ listeners \subseteq Conn
    /\ buf \in [Conn -> BoundedSeq(1..MaxEntries, Buffer)]
    /\ logSubscriber \in Conn \cup {NoConn}
    /\ start \in [Conn -> {"none", "asked", "ending", "none yet", "subscribed", "done"}]
    /\ target \in [Conn -> Conn \cup {NoConn}]
    /\ reads \in [Conn -> Conn \cup {NoConn}]
    /\ conn \in [Conn -> [by : Loggers, at : {"none", "connecting", "open", "closed"}]]
    /\ sock \in [Conn -> BoundedSeq(1..MaxEntries, SocketRoom)]
    /\ unsubscribe \in Conn \cup {NoConn} /\ fd \in Conn \cup {NoConn}
    /\ page \in Conn \cup {NoConn}
    /\ frozen \in {"not yet", "now", "once"}
    /\ last \in [Conn -> 0..MaxEntries]
    /\ openFds \subseteq Conn
    /\ overlap \in BOOLEAN /\ early \in BOOLEAN

Init ==
    /\ calling = FALSE /\ entries = 0 /\ todo = {}
    /\ listeners = {} /\ logSubscriber = NoConn
    /\ buf = [k \in Conn |-> <<>>] /\ sock = buf
    /\ start = [k \in Conn |-> "none"]
    /\ target = [k \in Conn |-> NoConn] /\ reads = target
    /\ conn = [k \in Conn |-> [by |-> "page", at |-> "none"]]
    /\ unsubscribe = NoConn /\ fd = NoConn /\ page = NoConn
    /\ frozen = "not yet"
    /\ last = [k \in Conn |-> 0]
    /\ openFds = {} /\ overlap = FALSE /\ early = FALSE

-----------------------------------------------------------------------------
(* log.go and the observable.                                              *)

Unlocked == todo = {}

LogCall ==
    /\ ~calling /\ entries < MaxEntries
    /\ calling' = TRUE
    /\ UNCHANGED <<entries, todo, listeners, buf, startLog, reads, client, sock, last>>

\* process takes the event and the mutex, if anybody listens.
Receive ==
    /\ calling /\ Unlocked
    /\ calling' = FALSE
    /\ entries' = entries + 1
    /\ todo' = listeners
    /\ UNCHANGED <<listeners, buf, startLog, reads, client, sock, last>>

\* Mutant: the buffer has no bound.
EmitUnbounded(k) ==
    /\ k \in todo
    /\ buf' = [buf EXCEPT ![k] = Append(@, entries)]
    /\ todo' = todo \ {k}
    /\ UNCHANGED <<calling, entries, listeners, startLog, reads, client, sock, last>>

\* Mutant: an entry that finds the buffer full is dropped.
EmitDropping(k) ==
    /\ k \in todo
    /\ buf' = [buf EXCEPT ![k] = IF Len(@) < Buffer THEN Append(@, entries) ELSE @]
    /\ todo' = todo \ {k}
    /\ UNCHANGED <<calling, entries, listeners, startLog, reads, client, sock, last>>

\* Emit blocks on a full buffer, with the mutex.
Emit(k) ==
    /\ k \in todo
    /\ Len(buf[k]) < Buffer
    /\ buf' = [buf EXCEPT ![k] = Append(@, entries)]
    /\ todo' = todo \ {k}
    /\ UNCHANGED <<calling, entries, listeners, startLog, reads, client, sock, last>>

-----------------------------------------------------------------------------
(* handleStartLog.                                                         *)

Starting(k) == start[k] \in {"ending", "none yet", "subscribed"}

\* It looks at logSubscriber ...
CheckSubscriber(k) ==
    /\ start[k] = "asked"
    /\ start' = [start EXCEPT ![k] = IF logSubscriber = NoConn THEN "none yet" ELSE "ending"]
    /\ target' = [target EXCEPT ![k] = logSubscriber]
    /\ overlap' = (overlap \/ \E j \in Conn : Starting(j))
    /\ UNCHANGED <<emitter, listeners, buf, logSubscriber, reads, client, sock, last>>

\* Mutant: the subscription before is forgotten and not ended.
UnSubscribeForgotten(k) ==
    /\ start[k] = "ending"
    /\ start' = [start EXCEPT ![k] = "none yet"]
    /\ logSubscriber' = NoConn
    /\ target' = [target EXCEPT ![k] = NoConn]
    /\ UNCHANGED <<emitter, listeners, buf, overlap, reads, client, sock, last>>

\* ... ends the subscription it found ...
UnSubscribe(k) ==
    /\ start[k] = "ending" /\ Unlocked
    /\ listeners' = listeners \ {target[k]}
    /\ start' = [start EXCEPT ![k] = "none yet"]
    /\ logSubscriber' = NoConn
    /\ target' = [target EXCEPT ![k] = NoConn]
    /\ UNCHANGED <<emitter, buf, overlap, reads, client, sock, last>>

\* ... subscribes ...
Subscribe(k) ==
    /\ start[k] = "none yet" /\ Unlocked
    /\ listeners' = listeners \cup {k}
    /\ logSubscriber' = k
    /\ start' = [start EXCEPT ![k] = "subscribed"]
    /\ last' = [last EXCEPT ![k] = entries]
    /\ UNCHANGED <<emitter, buf, target, overlap, reads, client, sock>>

\* ... and its goroutine ranges over what logSubscriber is when it starts.
RangeOver(k) ==
    /\ start[k] = "subscribed"
    /\ start' = [start EXCEPT ![k] = "done"]
    /\ reads' = [reads EXCEPT ![k] = logSubscriber]
    /\ UNCHANGED <<emitter, listeners, buf, target, logSubscriber, overlap, client, sock, last>>

\* Mutant: the goroutine ends when the client has gone.
ForwardUntilClosed(k) ==
    /\ reads[k] # NoConn /\ buf[reads[k]] # <<>> /\ conn[k].at # "closed"
    /\ LET entry == Head(buf[reads[k]])
       IN  \/ entry \in Below /\ UNCHANGED sock
           \/ /\ entry \notin Below /\ Len(sock[k]) < SocketRoom
              /\ sock' = [sock EXCEPT ![k] = Append(@, entry)]
    /\ buf' = [buf EXCEPT ![reads[k]] = Tail(@)]
    /\ UNCHANGED <<emitter, listeners, startLog, reads, client, last>>

\* The loop of that goroutine: it leaves out what is below the level; a write
\* blocks on a full socket, and fails unnoticed when the client has closed its
\* end.
Forward(k) ==
    /\ reads[k] # NoConn /\ buf[reads[k]] # <<>>
    /\ LET entry == Head(buf[reads[k]])
       IN  \/ (entry \in Below \/ conn[k].at = "closed") /\ UNCHANGED sock
           \/ /\ entry \notin Below /\ conn[k].at # "closed" /\ Len(sock[k]) < SocketRoom
              /\ sock' = [sock EXCEPT ![k] = Append(@, entry)]
    /\ buf' = [buf EXCEPT ![reads[k]] = Tail(@)]
    /\ UNCHANGED <<emitter, listeners, startLog, reads, client, last>>

-----------------------------------------------------------------------------
(* The application. Nothing of it runs while it is frozen.                 *)

Close(k, c) == IF k = NoConn THEN c ELSE [c EXCEPT ![k].at = "closed"]
Gone(k, s)  == IF k = NoConn THEN s ELSE [s EXCEPT ![k] = <<>>]

Connecting(who) == \E k \in Conn : conn[k] = [by |-> who, at |-> "connecting"]

\* CoreLogger.install: it uninstalls what is known, opens the file, and waits.
Install(k) ==
    /\ frozen # "now"
    /\ conn[k].at = "none" /\ k = CHOOSE j \in Conn : conn[j].at = "none"
    /\ conn' = [Close(unsubscribe, conn) EXCEPT ![k] = [by |-> "logger", at |-> "connecting"]]
    /\ sock' = Gone(unsubscribe, sock)
    /\ unsubscribe' = NoConn
    /\ fd' = k
    /\ openFds' = {k} \cup (IF unsubscribe = NoConn THEN openFds ELSE openFds \ {fd})
    /\ early' = (early \/ Connecting("logger"))
    /\ UNCHANGED <<emitter, listeners, buf, startLog, reads, page, frozen, last>>

\* Mutant: the file stays open.
UninstallOpen ==
    /\ frozen # "now"
    /\ conn' = Close(unsubscribe, conn) /\ sock' = Gone(unsubscribe, sock)
    /\ unsubscribe' = NoConn
    /\ fd' = NoConn
    /\ early' = (early \/ Connecting("logger"))
    /\ UNCHANGED <<emitter, listeners, buf, startLog, reads, page, frozen, openFds, last>>

Uninstall ==
    /\ frozen # "now"
    /\ conn' = Close(unsubscribe, conn) /\ sock' = Gone(unsubscribe, sock)
    /\ unsubscribe' = NoConn
    /\ fd' = NoConn /\ openFds' = openFds \ {fd}
    /\ early' = (early \/ Connecting("logger"))
    /\ UNCHANGED <<emitter, listeners, buf, startLog, reads, page, frozen, last>>

\* Logs.startLog, when the page appears.
OpenPage(k) ==
    /\ frozen # "now"
    /\ conn[k].at = "none" /\ k = CHOOSE j \in Conn : conn[j].at = "none"
    /\ page = NoConn /\ page' = k
    /\ conn' = [conn EXCEPT ![k] = [by |-> "page", at |-> "connecting"]]
    /\ UNCHANGED <<emitter, listeners, buf, startLog, reads, unsubscribe, fd, frozen, openFds,
                   early, sock, last>>

\* Logs.stopLog: there is nothing to close while startLog waits.
ClosePage ==
    /\ frozen # "now"
    /\ page # NoConn /\ page' = NoConn
    /\ LET known == IF conn[page].at = "open" THEN page ELSE NoConn
       IN  conn' = Close(known, conn) /\ sock' = Gone(known, sock)
    /\ early' = (early \/ conn[page].at = "connecting")
    /\ UNCHANGED <<emitter, listeners, buf, startLog, reads, unsubscribe, fd, frozen, openFds, last>>

\* callbackRequest resolves: the request has been sent.
Connected(k) ==
    /\ frozen # "now"
    /\ conn[k].at = "connecting"
    /\ conn' = [conn EXCEPT ![k].at = "open"]
    /\ start' = [start EXCEPT ![k] = "asked"]
    /\ unsubscribe' = IF conn[k].by = "logger" THEN k ELSE unsubscribe
    /\ UNCHANGED <<emitter, listeners, buf, target, logSubscriber, overlap, reads, fd,
                   page, frozen, openFds, early, sock, last>>

\* It rejects: CoreLogger closes its file, whichever that is.
ConnectFails(k) ==
    /\ frozen # "now"
    /\ conn[k].at = "connecting"
    /\ conn' = [conn EXCEPT ![k].at = "closed"]
    /\ fd' = IF conn[k].by = "logger" THEN NoConn ELSE fd
    /\ openFds' = IF conn[k].by = "logger" THEN openFds \ {fd} ELSE openFds
    /\ UNCHANGED <<emitter, listeners, buf, startLog, reads, unsubscribe, page, frozen, early,
                   sock, last>>

\* What has come is cut at every "EOF". The parts of an entry that has one in
\* its text are no JSON, and are dropped; any other is handed to the observer.
Deliver(k) ==
    /\ frozen # "now"
    /\ conn[k].at = "open" /\ sock[k] # <<>>
    /\ sock' = [sock EXCEPT ![k] = Tail(@)]
    /\ last' = IF Head(sock[k]) \in WithEOF THEN last
                                            ELSE [last EXCEPT ![k] = Head(sock[k])]
    /\ UNCHANGED <<emitter, listeners, buf, startLog, reads, client>>

Freeze ==
    /\ frozen = "not yet" /\ frozen' = "now"
    /\ UNCHANGED <<emitter, listeners, buf, startLog, reads, conn, unsubscribe, fd, page, openFds,
                   early, sock, last>>

Thaw ==
    /\ frozen = "now" /\ frozen' = "once"
    /\ UNCHANGED <<emitter, listeners, buf, startLog, reads, conn, unsubscribe, fd, page, openFds,
                   early, sock, last>>

Next ==
    \/ LogCall \/ Receive
    \/ Uninstall \/ ClosePage \/ Freeze \/ Thaw
    \/ \E k \in Conn :
        \/ Emit(k) \/ CheckSubscriber(k) \/ UnSubscribe(k) \/ Subscribe(k) \/ RangeOver(k)
        \/ Forward(k) \/ Install(k) \/ OpenPage(k) \/ Connected(k) \/ ConnectFails(k) \/ Deliver(k)

Spec == Init /\ [][Next]_vars

\* Goroutines run on, a process that is awake reads its sockets, and no process
\* is frozen for good. Nothing is asked of the requests.
FairSpec ==
    /\ Spec
    /\ WF_vars(Receive) /\ WF_vars(Thaw)
    /\ \A k \in Conn : WF_vars(Emit(k)) /\ WF_vars(RangeOver(k)) /\ WF_vars(Forward(k)) /\ WF_vars(Deliver(k))

-----------------------------------------------------------------------------

\* What has been emitted to k and not been taken, and what it still has to get.
Coming(k) == sock[k] \o buf[k] \o (IF k \in todo THEN <<entries>> ELSE <<>>)

\* In s are entries after a up to b, in order, each once, and all of them but
\* those that the application is not to get or cannot parse.
Completes(s, a, b) ==
    /\ \A i \in DOMAIN s : a < s[i] /\ s[i] <= b
    /\ \A i, j \in DOMAIN s : i < j => s[i] < s[j]
    /\ \A e \in (a + 1)..b : e \notin Below \cup WithEOF => \E i \in DOMAIN s : s[i] = e

\* An observer whose subscription is alone and lasts gets the entries since it
\* subscribed, in order and none twice: what is on its way is later than what it
\* got last, and misses no entry but those below the level and those that the
\* client cannot parse for an "EOF" in their text
\* (hub.go:387-408, observable.go:16-25, SocketProxyService.ets:356-375).
NothingLost ==
    \A k \in listeners :
        reads[k] = k /\ conn[k].at = "open" /\ (\A j \in Conn \ {k} : reads[j] # k) =>
            Completes(Coming(k), last[k], entries)

\* A channel without a reader stops every log call of the core once it is full.
\* There is none, and no second subscription, unless two requests for the log
\* have been served at the same time (hub.go:387-393).
NoOrphan ==
    ~overlap =>
        \A k \in listeners : listeners = {k} /\ (reads[k] = k \/ start[k] = "subscribed")

\* Who installs, uninstalls, opens and closes without overtaking an opening
\* leaks no descriptor and no connection, and an installed logger has its file
\* (CoreLogger.ets:40-83, Logs.ets:32-64).
NoLeak ==
    ~early =>
        /\ openFds = {fd} \ {NoConn}
        /\ unsubscribe # NoConn => fd # NoConn
        /\ \A k \in Conn : conn[k].at = "open" => k \in {unsubscribe, page}

\* A log call of the core returns, also while the application is suspended and
\* its socket full, once it wakes up; unless two requests overlapped
\* (log.go:42-64, subscriber.go:15).
LogCallsReturn == calling ~> ~calling \/ overlap
=============================================================================
