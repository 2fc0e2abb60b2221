------------------------ MODULE SocketProtectProofs ------------------------
(***************************************************************************)
(* Proofs about SocketProtect, for any dials, descriptors and sessions.    *)
(***************************************************************************)
EXTENDS SocketProtect, SequenceTheorems, TLAPS

\* A dial in its Control function knows whose hook it is in.
SessionKnown ==
    \A d \in Dials : pc[d] \in InControl => session[d] \in Sessions

\* Two open sockets never have the same descriptor number.
OneOwner ==
    \A d, e \in Dials :
        pc[d] \in Live /\ pc[e] \in Live /\ fdOf[d] = fdOf[e] => d = e

\* Whatever is on its way was asked for by a dial that has its descriptor.
Asked(d) == pc[d] \notin {"idle", "checked"}

RequestsAreAsked ==
    /\ \A d \in protecting \cup storing \cup fdMap : Asked(d)
    /\ \A s \in Sessions : ret[s] \in Dials => Asked(ret[s])
    /\ \A s \in Sessions : \A d \in ToSet(conn[s]) \cap Dials : Asked(d)

\* An id that is stored, or about to be, belongs to a dial whose socket was
\* protected while it was waiting, or to one that is no longer waiting.
StoredIsProtected ==
    \A d \in storing \cup fdMap : pc[d] \in InControl \cup {"acked"} => d \in protected

IInv ==
    /\ TypeOK
    /\ SessionKnown
    /\ OneOwner
    /\ RequestsAreAsked
    /\ StoredIsProtected
    /\ AckedIsProtected

\* Appending to a sequence, and taking its head, as the sets of its elements.
LEMMA AppendToSet ==
    ASSUME NEW S, NEW q \in Seq(S), NEW v \in S
    PROVE  /\ ToSet(Append(q, v)) = ToSet(q) \cup {v}
           /\ Append(q, v) \in Seq(S)
<1>1. /\ Append(q, v) \in Seq(S)
      /\ DOMAIN Append(q, v) = 1..(Len(q) + 1)
      /\ \A i \in 1..Len(q) : Append(q, v)[i] = q[i]
      /\ Append(q, v)[Len(q) + 1] = v
      /\ DOMAIN q = 1..Len(q)
      /\ Len(q) \in Nat
  BY AppendProperties, LenProperties
<1>2. 1..(Len(q) + 1) = (1..Len(q)) \cup {Len(q) + 1}
  BY <1>1
<1>3. QED
  BY <1>1, <1>2 DEF ToSet

LEMMA TailToSet ==
    ASSUME NEW S, NEW q \in Seq(S), q # <<>>
    PROVE  /\ ToSet(q) = {Head(q)} \cup ToSet(Tail(q))
           /\ Head(q) \in S
           /\ Tail(q) \in Seq(S)
<1>1. /\ Head(q) \in S /\ Head(q) = q[1]
      /\ Tail(q) \in Seq(S)
      /\ Len(q) \in Nat \ {0}
      /\ DOMAIN q = 1..Len(q)
      /\ DOMAIN Tail(q) = 1..(Len(q) - 1)
      /\ \A i \in 1..(Len(q) - 1) : Tail(q)[i] = q[i + 1]
  BY HeadTailProperties, LenProperties, EmptySeq
<1>2. ASSUME NEW i \in 1..Len(q), i # 1 PROVE q[i] \in ToSet(Tail(q))
  <2>1. i - 1 \in 1..(Len(q) - 1) /\ (i - 1) + 1 = i
    BY <1>1, <1>2
  <2>2. Tail(q)[i - 1] = q[i]
    BY <2>1, <1>1
  <2>3. QED
    BY <2>1, <2>2, <1>1 DEF ToSet
<1>3. ASSUME NEW i \in 1..(Len(q) - 1) PROVE Tail(q)[i] \in ToSet(q)
  <2>1. i + 1 \in 1..Len(q)
    BY <1>1
  <2>2. QED
    BY <2>1, <1>1 DEF ToSet
<1>4. q[1] \in ToSet(q)
  <2>1. 1 \in 1..Len(q)
    BY <1>1
  <2>2. QED
    BY <2>1, <1>1 DEF ToSet
<1>5. ToSet(q) \subseteq {Head(q)} \cup ToSet(Tail(q))
  BY <1>1, <1>2 DEF ToSet
<1>6. {Head(q)} \cup ToSet(Tail(q)) \subseteq ToSet(q)
  BY <1>1, <1>3, <1>4 DEF ToSet
<1>7. QED
  BY <1>1, <1>5, <1>6

\* Each step keeps the invariant.
LEMMA StepKeepsIInv == IInv /\ [Next]_vars => IInv'
<1> SUFFICES ASSUME IInv, [Next]_vars PROVE IInv'
  OBVIOUS
<1> USE ProtectAssumption
    DEF IInv, TypeOK, SessionKnown, OneOwner, RequestsAreAsked, Asked,
        StoredIsProtected, AckedIsProtected, InControl, Live, Pcs
<1>1. ASSUME NEW s \in Sessions, InitSocketHook(s) PROVE IInv'
  BY <1>1 DEF InitSocketHook, hookVars, dialVars, wireVars, ackVars, Dial
<1>2. ASSUME NEW s \in Sessions, Receive(s) PROVE IInv'
  <2> DEFINE q == conn[s]
  <2>1. /\ q \in Seq(Dials \cup {None, Garbled})
        /\ q # <<>>
        /\ conn' = [conn EXCEPT ![s] = Tail(q)]
    BY <1>2 DEF Receive
  <2>2. /\ ToSet(q) = {Head(q)} \cup ToSet(Tail(q))
        /\ Head(q) \in Dials \cup {None, Garbled}
        /\ Tail(q) \in Seq(Dials \cup {None, Garbled})
    BY <2>1, TailToSet
  <2>3. conn' \in [Sessions -> Seq(Dials \cup {None, Garbled})]
    BY <2>1, <2>2
  <2>4. \A t \in Sessions : ToSet(conn'[t]) \subseteq ToSet(conn[t])
    BY <2>1, <2>2
  <2>5. Head(q) \in Dials => Asked(Head(q))
    BY <2>2
  <2>6. protecting' \subseteq protecting \cup ({Head(q)} \cap Dials) /\ lost' \in SUBSET Dials
    BY <1>2, <2>2 DEF Receive
  <2>7. UNCHANGED <<hookVars, dialVars, ret, storing, fdMap, protected, raced, crashed>>
    BY <1>2 DEF Receive
  <2>8. TypeOK'
    BY <2>3, <2>6, <2>7 DEF hookVars, dialVars
  <2>9. RequestsAreAsked'
    BY <2>4, <2>5, <2>6, <2>7 DEF dialVars
  <2>10. QED
    BY <2>7, <2>8, <2>9 DEF dialVars
<1>3. CASE RemoveSocketHook
  BY <1>3 DEF RemoveSocketHook, hookVars, dialVars, wireVars, ackVars, Dial
<1>4. ASSUME NEW d \in Dials, CheckHook(d) PROVE IInv'
  <2>1. \E to \in {"checked", "plain"} :
          pc[d] = "idle" /\ pc' = [pc EXCEPT ![d] = to]
    BY <1>4 DEF CheckHook, Dial
  <2>2. UNCHANGED <<hookVars, session, fdOf, wireVars, ackVars, crashed>>
    BY <1>4 DEF CheckHook
  <2>3. QED
    BY <2>1, <2>2 DEF hookVars, wireVars, ackVars
<1>5. ASSUME NEW d \in Dials, CallHook(d) PROVE IInv'
  <2>1. /\ hook \in Sessions
        /\ UNCHANGED <<hookVars, wireVars, protecting, storing, fdMap, protected,
                       lost, crashed>>
    BY <1>5 DEF CallHook
  <2>2. CASE Dial(d, "checked", "blocked") /\ UNCHANGED <<session, fdOf, raced>>
    BY <2>1, <2>2 DEF Dial, hookVars, wireVars
  <2>3. ASSUME NEW f \in FreeFds, fdOf' = [fdOf EXCEPT ![d] = f],
               Dial(d, "checked", "marking"),
               session' = [session EXCEPT ![d] = hook],
               raced' = IF Sharers(hook) = {} THEN raced
                        ELSE raced \cup Sharers(hook) \cup {d}
        PROVE IInv'
    <3>1. raced' \in SUBSET Dials
      BY <2>3 DEF Sharers
    <3>2. TypeOK'
      BY <2>1, <2>3, <3>1 DEF Dial, hookVars, wireVars, FreeFds
    <3>3. OneOwner'
      BY <2>3 DEF Dial, FreeFds
    <3>4. SessionKnown'
      BY <2>1, <2>3 DEF Dial
    <3>5. RequestsAreAsked'
      BY <2>1, <2>3 DEF Dial, wireVars
    <3>6. StoredIsProtected' /\ AckedIsProtected'
      BY <2>1, <2>3 DEF Dial
    <3>7. QED
      BY <3>2, <3>3, <3>4, <3>5, <3>6
  <2>4. QED
    BY <1>5, <2>2, <2>3 DEF CallHook
<1>6. ASSUME NEW d \in Dials, CallNilHook(d) PROVE IInv'
  BY <1>6 DEF CallNilHook, hookVars, dialVars, wireVars, ackVars, Dial
<1>7. ASSUME NEW d \in Dials, AssignResult(d) PROVE IInv'
  BY <1>7 DEF AssignResult, hookVars, dialVars, wireVars, ackVars, Dial
<1>8. ASSUME NEW d \in Dials, SendResult(d) PROVE IInv'
  <2>1. /\ pc[d] = "written"
        /\ pc' = [pc EXCEPT ![d] = "waiting"]
        /\ UNCHANGED <<hookVars, session, fdOf, ret, ackVars, crashed>>
    BY <1>8 DEF SendResult, Dial
  <2>2. PICK v \in {ret[session[d]], Garbled} :
          conn' = [conn EXCEPT ![session[d]] = Append(@, v)]
    BY <1>8 DEF SendResult
  <2>3. session[d] \in Sessions /\ v \in Dials \cup {None, Garbled}
    BY <2>1, <2>2
  <2>4. /\ ToSet(Append(conn[session[d]], v)) = ToSet(conn[session[d]]) \cup {v}
        /\ Append(conn[session[d]], v) \in Seq(Dials \cup {None, Garbled})
    BY <2>3, AppendToSet
  <2>5. TypeOK'
    <3>1. conn' \in [Sessions -> Seq(Dials \cup {None, Garbled})]
      BY <2>2, <2>3, <2>4
    <3>2. QED
      BY <2>1, <3>1 DEF hookVars, ackVars
  <2>6. \A t \in Sessions : ToSet(conn'[t]) \subseteq ToSet(conn[t]) \cup {ret[session[d]], Garbled}
    <3>1. ASSUME NEW t \in Sessions, t # session[d] PROVE conn'[t] = conn[t]
      BY <2>2, <3>1
    <3>2. conn'[session[d]] = Append(conn[session[d]], v)
      BY <2>2, <2>3
    <3>3. ToSet(conn'[session[d]]) \subseteq ToSet(conn[session[d]]) \cup {ret[session[d]], Garbled}
      BY <3>2, <2>4, <2>2
    <3>4. QED
      BY <3>1, <3>3
  <2>7. RequestsAreAsked'
    <3>1. Asked(d)' /\ \A e \in Dials : Asked(e) => Asked(e)'
      BY <2>1
    <3>2. ASSUME NEW t \in Sessions, NEW e \in ToSet(conn'[t]) \cap Dials PROVE Asked(e)'
      <4>1. e \in ToSet(conn[t]) \/ e = ret[session[d]]
        BY <2>6, <3>2
      <4>2. Asked(e)
        BY <4>1, <2>3
      <4>3. QED
        BY <4>2, <3>1
    <3>3. QED
      BY <2>1, <3>1, <3>2 DEF ackVars
  <2>8. QED
    BY <2>1, <2>5, <2>7 DEF ackVars
<1>9. ASSUME NEW d \in Dials, Acknowledged(d) PROVE IInv'
  BY <1>9 DEF Acknowledged, hookVars, dialVars, wireVars, ackVars, Dial
<1>10. ASSUME NEW d \in Dials, Expire(d) PROVE IInv'
  BY <1>10 DEF Expire, hookVars, dialVars, wireVars, ackVars, Dial
<1>11. ASSUME NEW d \in Dials, Close(d) PROVE IInv'
  BY <1>11 DEF Close, hookVars, dialVars, wireVars, ackVars, Dial
<1>12. ASSUME NEW d \in Dials, Protect(d) PROVE IInv'
  BY <1>12 DEF Protect, hookVars, dialVars, wireVars, ackVars, Dial
<1>13. ASSUME NEW d \in Dials, ProtectFails(d) PROVE IInv'
  BY <1>13 DEF ProtectFails, hookVars, dialVars, wireVars, ackVars, Dial
<1>14. ASSUME NEW d \in Dials, SetFdMap(d) PROVE IInv'
  BY <1>14 DEF SetFdMap, hookVars, dialVars, wireVars, ackVars, Dial
<1>15. CASE UNCHANGED vars
  BY <1>15 DEF vars, hookVars, dialVars, wireVars, ackVars
<1>16. QED
  BY <1>1, <1>2, <1>3, <1>4, <1>5, <1>6, <1>7, <1>8, <1>9, <1>10, <1>11, <1>12, <1>13, <1>14, <1>15
     DEF Next, Exhausted

\* The invariant holds of every reachable state.
LEMMA Invariant == Spec => []IInv
<1>1. Init => IInv
  <2> SUFFICES ASSUME Init PROVE IInv
    OBVIOUS
  <2>1. \A s \in Sessions : /\ conn[s] \in Seq(Dials \cup {None, Garbled})
                            /\ ToSet(conn[s]) = {}
    BY EmptySeq DEF Init, ToSet
  <2>2. TypeOK
    BY <2>1 DEF Init, TypeOK, Pcs
  <2>3. QED
    BY <2>1, <2>2, ProtectAssumption
       DEF Init, IInv, SessionKnown, OneOwner, RequestsAreAsked, StoredIsProtected,
           AckedIsProtected, InControl, Live
<1>2. QED
  BY <1>1, StepKeepsIInv, PTL DEF Spec

\* A dial is only released by its id when the system protects its own socket,
\* however late the answers are and however often descriptors are reused.
THEOREM ReleasedDialsAreProtected == Spec => []AckedIsProtected
  BY Invariant, PTL DEF IInv

\* The variables of the handshake keep their types, however many answers come
\* late or never: what is in a connection is a dial's answer, an end or garbled.
THEOREM TypeCorrect == Spec => []TypeOK
<1>1. IInv => TypeOK
  BY DEF IInv
<1>2. QED
  BY <1>1, Invariant, PTL

\* A dial that never shared the result is alone with it, and what it assigned
\* is still there when it sends it.
ResultIsOwn ==
    \A d \in Dials \ raced :
        /\ pc[d] \in {"marking", "written"} => Sharers(session[d]) = {d}
        /\ pc[d] = "written" => ret[session[d]] = d

\* The steps that leave the result, its users and the connections alone.
LEMMA ResultIsOwnKept ==
    ASSUME IInv, ResultIsOwn, [Next]_vars
    PROVE  ResultIsOwn'
<1> USE ProtectAssumption
    DEF IInv, TypeOK, SessionKnown, InControl, Live, Pcs, ResultIsOwn, Sharers
<1>1. ASSUME NEW s \in Sessions, InitSocketHook(s) PROVE ResultIsOwn'
  BY <1>1 DEF InitSocketHook, hookVars, dialVars, wireVars, ackVars, Dial
<1>2. CASE RemoveSocketHook
  BY <1>2 DEF RemoveSocketHook, hookVars, dialVars, wireVars, ackVars, Dial
<1>3. ASSUME NEW d \in Dials, CheckHook(d) PROVE ResultIsOwn'
  BY <1>3 DEF CheckHook, hookVars, dialVars, wireVars, ackVars, Dial
<1>4. ASSUME NEW d \in Dials, CallNilHook(d) PROVE ResultIsOwn'
  BY <1>4 DEF CallNilHook, hookVars, dialVars, wireVars, ackVars, Dial
<1>5. ASSUME NEW d \in Dials, Acknowledged(d) PROVE ResultIsOwn'
  BY <1>5 DEF Acknowledged, hookVars, dialVars, wireVars, ackVars, Dial
<1>6. ASSUME NEW d \in Dials, Expire(d) PROVE ResultIsOwn'
  BY <1>6 DEF Expire, hookVars, dialVars, wireVars, ackVars, Dial
<1>7. ASSUME NEW d \in Dials, Close(d) PROVE ResultIsOwn'
  BY <1>7 DEF Close, hookVars, dialVars, wireVars, ackVars, Dial
<1>8. ASSUME NEW d \in Dials, Protect(d) PROVE ResultIsOwn'
  BY <1>8 DEF Protect, hookVars, dialVars, wireVars, ackVars, Dial
<1>9. ASSUME NEW d \in Dials, ProtectFails(d) PROVE ResultIsOwn'
  BY <1>9 DEF ProtectFails, hookVars, dialVars, wireVars, ackVars, Dial
<1>10. ASSUME NEW d \in Dials, SetFdMap(d) PROVE ResultIsOwn'
  BY <1>10 DEF SetFdMap, hookVars, dialVars, wireVars, ackVars, Dial
<1>11. ASSUME NEW s \in Sessions, Receive(s) PROVE ResultIsOwn'
  BY <1>11 DEF Receive, hookVars, dialVars, wireVars, ackVars, Dial
<1>12. ASSUME NEW d \in Dials, SendResult(d) PROVE ResultIsOwn'
  BY <1>12 DEF SendResult, hookVars, dialVars, wireVars, ackVars, Dial
<1>13. ASSUME NEW d \in Dials, CallHook(d) PROVE ResultIsOwn'
  <2>1. UNCHANGED <<ret, hook>>
    BY <1>13 DEF CallHook, wireVars, hookVars
  <2>2. CASE Dial(d, "checked", "blocked") /\ UNCHANGED <<session, fdOf, raced>>
    BY <2>1, <2>2 DEF Dial
  <2>3. CASE /\ Dial(d, "checked", "marking")
             /\ session' = [session EXCEPT ![d] = hook]
             /\ raced' = IF Sharers(hook) = {} THEN raced
                         ELSE raced \cup Sharers(hook) \cup {d}
    <3>1. \A e \in Dials \ {d} : pc'[e] = pc[e] /\ session'[e] = session[e]
      BY <2>3 DEF Dial
    <3>2. pc'[d] = "marking" /\ session'[d] = hook /\ pc[d] = "checked"
      BY <2>3 DEF Dial
    <3>3. ASSUME NEW e \in Dials \ raced', pc'[e] \in {"marking", "written"}
          PROVE  /\ Sharers(session[e])' = {e}
                 /\ pc'[e] = "written" => ret'[session'[e]] = e
      <4>1. CASE e = d
        <5>1. Sharers(hook) = {}
          BY <2>3, <3>3, <4>1
        <5>2. \A x \in Dials \ {d} : ~(session'[x] = hook /\ pc'[x] \in {"marking", "written"})
          BY <3>1, <5>1
        <5>3. Sharers(session[e])' = {e}
          BY <3>2, <4>1, <5>2
        <5>4. QED
          BY <3>2, <4>1, <5>3
      <4>2. CASE e # d
        <5>1. e \notin raced /\ e \notin Sharers(hook)
          BY <2>3, <3>3
        <5>2. session[e] # hook
          BY <3>1, <3>3, <4>2, <5>1
        <5>3. Sharers(session[e]) = {e}
          BY <3>1, <3>3, <4>2, <5>1
        <5>4. QED
          BY <2>1, <3>1, <3>2, <3>3, <4>2, <5>1, <5>2, <5>3
      <4>3. QED
        BY <4>1, <4>2
    <3>4. QED
      BY <3>3
  <2>4. QED
    BY <1>13, <2>2, <2>3 DEF CallHook
<1>14. ASSUME NEW d \in Dials, AssignResult(d) PROVE ResultIsOwn'
  <2>1. /\ pc[d] = "marking"
        /\ pc' = [pc EXCEPT ![d] = "written"]
        /\ UNCHANGED <<session, raced>>
    BY <1>14 DEF AssignResult, Dial, ackVars
  <2>2. PICK v \in {d} \cup (IF Writers(d) = {} THEN {} ELSE {Garbled}) :
          ret' = [ret EXCEPT ![session[d]] = v]
    BY <1>14 DEF AssignResult
  <2>3. d \notin raced => Writers(d) = {}
    BY <2>1 DEF Writers
  <2>4. d \notin raced => ret'[session[d]] = d
    BY <2>1, <2>2, <2>3
  <2>5. ASSUME NEW e \in Dials \ raced, e # d, pc[e] \in {"marking", "written"}
        PROVE  session[e] # session[d]
    BY <2>1, <2>5
  <2>6. QED
    BY <2>1, <2>2, <2>4, <2>5
<1>15. CASE UNCHANGED vars
  BY <1>15 DEF vars, hookVars, dialVars, wireVars, ackVars
<1>16. QED
  BY <1>1, <1>2, <1>3, <1>4, <1>5, <1>6, <1>7, <1>8, <1>9, <1>10, <1>11, <1>12, <1>13, <1>14, <1>15
     DEF Next, Exhausted

\* A request stays on its way until its id is in the map.
LEMMA RequestSurvivesKept ==
    ASSUME IInv, ResultIsOwn, RequestSurvives, [Next]_vars
    PROVE  RequestSurvives'
<1> USE ProtectAssumption
    DEF IInv, TypeOK, SessionKnown, InControl, Live, Pcs, RequestSurvives
<1>1. ASSUME NEW s \in Sessions, InitSocketHook(s) PROVE RequestSurvives'
  BY <1>1 DEF InitSocketHook, hookVars, dialVars, wireVars, ackVars, Dial
<1>2. CASE RemoveSocketHook
  BY <1>2 DEF RemoveSocketHook, hookVars, dialVars, wireVars, ackVars, Dial
<1>3. ASSUME NEW d \in Dials, CheckHook(d) PROVE RequestSurvives'
  BY <1>3 DEF CheckHook, hookVars, dialVars, wireVars, ackVars, Dial
<1>4. ASSUME NEW d \in Dials, CallNilHook(d) PROVE RequestSurvives'
  BY <1>4 DEF CallNilHook, hookVars, dialVars, wireVars, ackVars, Dial
<1>5. ASSUME NEW d \in Dials, AssignResult(d) PROVE RequestSurvives'
  BY <1>5 DEF AssignResult, hookVars, dialVars, wireVars, ackVars, Dial
<1>6. ASSUME NEW d \in Dials, Acknowledged(d) PROVE RequestSurvives'
  BY <1>6 DEF Acknowledged, hookVars, dialVars, wireVars, ackVars, Dial
<1>7. ASSUME NEW d \in Dials, Expire(d) PROVE RequestSurvives'
  BY <1>7 DEF Expire, hookVars, dialVars, wireVars, ackVars, Dial
<1>8. ASSUME NEW d \in Dials, Close(d) PROVE RequestSurvives'
  BY <1>8 DEF Close, hookVars, dialVars, wireVars, ackVars, Dial
<1>9. ASSUME NEW d \in Dials, Protect(d) PROVE RequestSurvives'
  BY <1>9 DEF Protect, hookVars, dialVars, wireVars, ackVars, Dial
<1>10. ASSUME NEW d \in Dials, ProtectFails(d) PROVE RequestSurvives'
  BY <1>10 DEF ProtectFails, hookVars, dialVars, wireVars, ackVars, Dial
<1>11. ASSUME NEW d \in Dials, SetFdMap(d) PROVE RequestSurvives'
  BY <1>11 DEF SetFdMap, hookVars, dialVars, wireVars, ackVars, Dial
<1>12. ASSUME NEW d \in Dials, CallHook(d) PROVE RequestSurvives'
  <2>1. /\ \A e \in Dials \ {d} : pc'[e] = pc[e] /\ session'[e] = session[e]
        /\ pc'[d] # "waiting"
        /\ raced \subseteq raced'
        /\ UNCHANGED <<conn, protecting, storing, fdMap, lost>>
    BY <1>12 DEF CallHook, Dial, wireVars
  <2>2. QED
    BY <2>1
<1>13. ASSUME NEW s \in Sessions, Receive(s) PROVE RequestSurvives'
  <2> DEFINE q == conn[s]
  <2>1. /\ q \in Seq(Dials \cup {None, Garbled})
        /\ q # <<>>
        /\ conn' = [conn EXCEPT ![s] = Tail(q)]
        /\ UNCHANGED <<pc, session, storing, fdMap, raced>>
    BY <1>13 DEF Receive, dialVars
  <2>2. ToSet(q) = {Head(q)} \cup ToSet(Tail(q))
    BY <2>1, TailToSet
  <2>3. /\ protecting \subseteq protecting'
        /\ lost \subseteq lost'
        /\ Head(q) \in Dials => Head(q) \in protecting' \cup lost'
    BY <1>13 DEF Receive
  <2>4. ASSUME NEW e \in Dials, session[e] \in Sessions, e \in ToSet(conn[session[e]])
        PROVE  e \in ToSet(conn'[session[e]]) \cup protecting' \cup lost'
    <3>1. CASE session[e] = s
      BY <2>1, <2>2, <2>3, <2>4, <3>1
    <3>2. CASE session[e] # s
      BY <2>1, <2>4, <3>2
    <3>3. QED
      BY <3>1, <3>2
  <2>5. QED
    BY <2>1, <2>3, <2>4
<1>14. ASSUME NEW d \in Dials, SendResult(d) PROVE RequestSurvives'
  <2>1. /\ pc[d] = "written"
        /\ pc' = [pc EXCEPT ![d] = "waiting"]
        /\ UNCHANGED <<session, protecting, storing, fdMap, lost, raced>>
    BY <1>14 DEF SendResult, Dial, ackVars
  <2>2. PICK v \in {ret[session[d]]} \cup (IF Writers(d) = {} THEN {} ELSE {Garbled}) :
          conn' = [conn EXCEPT ![session[d]] = Append(@, v)]
    BY <1>14 DEF SendResult
  <2>3. session[d] \in Sessions /\ v \in Dials \cup {None, Garbled}
    BY <2>1, <2>2
  <2>4. ToSet(Append(conn[session[d]], v)) = ToSet(conn[session[d]]) \cup {v}
    <3>1. conn[session[d]] \in Seq(Dials \cup {None, Garbled})
      BY <2>3
    <3> HIDE DEF IInv, TypeOK, SessionKnown, RequestSurvives
    <3>2. QED
      BY <2>3, <3>1, AppendToSet
  <2>5. conn'[session[d]] = Append(conn[session[d]], v)
    BY <2>2, <2>3
  <2>6. \A t \in Sessions : ToSet(conn[t]) \subseteq ToSet(conn'[t])
    <3>1. ASSUME NEW t \in Sessions, t # session[d] PROVE conn'[t] = conn[t]
      BY <2>2, <3>1
    <3>2. QED
      BY <3>1, <2>4, <2>5
  <2>7. d \notin raced => v = d
    BY <2>1, <2>2 DEF ResultIsOwn, Writers
  <2>8. d \notin raced => d \in ToSet(conn'[session[d]])
    BY <2>4, <2>5, <2>7
  <2>9. QED
    BY <2>1, <2>6, <2>8
<1>15. CASE UNCHANGED vars
  BY <1>15 DEF vars, hookVars, dialVars, wireVars, ackVars
<1>16. QED
  BY <1>1, <1>2, <1>3, <1>4, <1>5, <1>6, <1>7, <1>8, <1>9, <1>10, <1>11, <1>12, <1>13, <1>14, <1>15
     DEF Next, Exhausted

\* A dial that never shared the result variable gets its answer, unless the
\* service drops its request: it is the shared variable that makes dials lose
\* their request on the way.
THEOREM UnsharedRequestsSurvive == Spec => []RequestSurvives
<1>1. Init => ResultIsOwn /\ RequestSurvives
  BY DEF Init, ResultIsOwn, RequestSurvives
<1>2. QED
  BY <1>1, Invariant, ResultIsOwnKept, RequestSurvivesKept, PTL DEF Spec

=============================================================================
