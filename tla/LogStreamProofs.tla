-------------------------- MODULE LogStreamProofs --------------------------
(***************************************************************************)
(* What the log of the core promises, for any connections, buffers and     *)
(* number of entries: on a subscription that lasts nothing is repeated,    *)
(* and nothing lost that is loud enough and free of an "EOF"; no           *)
(* subscription is left without a reader; nothing leaks.                   *)
(***************************************************************************)
EXTENDS LogStream, SequenceTheorems, TLAPS

-----------------------------------------------------------------------------
(* The connections of the application.                                     *)

IsConnecting(k, who) == conn[k].by = who /\ conn[k].at = "connecting"

\* What CoreLogger and the page hold are connections of theirs.
Owners ==
    /\ unsubscribe # NoConn => conn[unsubscribe].by = "logger" /\ conn[unsubscribe].at = "open"
    /\ page # NoConn => conn[page].by = "page" /\ conn[page].at # "none"

\* What somebody who overtakes no opening holds, while one is under way too.
Held ==
    ~early =>
        /\ openFds = {fd} \ {NoConn}
        /\ fd # NoConn => unsubscribe # NoConn \/ IsConnecting(fd, "logger")
        /\ unsubscribe # NoConn => fd # NoConn
        /\ \A k \in Conn :
            /\ IsConnecting(k, "logger") => fd = k /\ unsubscribe = NoConn
            /\ IsConnecting(k, "page") => page = k
            /\ conn[k].at = "open" => k \in {unsubscribe, page}

-----------------------------------------------------------------------------
(* The subscriptions of the core.                                          *)

\* A request is served once, over a connection that has been opened.
ServedOnce ==
    \A k \in Conn :
        /\ conn[k].at \in {"none", "connecting"} => start[k] = "none"
        /\ start[k] \notin {"subscribed", "done"} => k \notin listeners /\ buf[k] = <<>>
        /\ start[k] # "done" => reads[k] = NoConn /\ sock[k] = <<>>

\* What handleStartLog knows at each of its steps, when it runs alone.
AloneInStart ==
    ~overlap =>
        /\ \A j, k \in Conn : Starting(j) /\ Starting(k) => j = k
        /\ (\A k \in Conn : start[k] \notin {"none yet", "subscribed"}) =>
              /\ listeners = {logSubscriber} \ {NoConn}
              /\ logSubscriber # NoConn => reads[logSubscriber] = logSubscriber
        /\ \A k \in Conn :
            /\ start[k] = "ending" => target[k] = logSubscriber
            /\ start[k] = "none yet" => listeners = {} /\ logSubscriber = NoConn
            /\ start[k] = "subscribed" => listeners = {k} /\ logSubscriber = k

EmitterInv ==
    /\ todo \subseteq listeners
    /\ todo # {} => entries > 0
    /\ calling => entries < MaxEntries

\* Nobody but k takes from its buffer.
OwnBuffer(k) == reads[k] \in {k, NoConn} /\ \A j \in Conn \ {k} : reads[j] # k

\* NothingLost of one observer.
Settled(k) == last[k] <= entries /\ Completes(Coming(k), last[k], entries)

Owed == \A k \in listeners : OwnBuffer(k) /\ conn[k].at = "open" => Settled(k)

-----------------------------------------------------------------------------
(* Sequences.                                                              *)

LEMMA BoundedIsSeq ==
    ASSUME NEW S, NEW n \in Nat, NEW s
    PROVE  s \in BoundedSeq(S, n) <=> s \in Seq(S) /\ Len(s) <= n
<1>1. ASSUME s \in BoundedSeq(S, n) PROVE s \in Seq(S) /\ Len(s) <= n
  <2>1. PICK m \in 0..n : s \in [1..m -> S]
    BY <1>1 DEF BoundedSeq, SeqOf
  <2>2. QED
    BY <2>1
<1>2. ASSUME s \in Seq(S), Len(s) <= n PROVE s \in BoundedSeq(S, n)
  <2>1. Len(s) \in 0..n /\ s \in [1..Len(s) -> S]
    BY <1>2, LenProperties
  <2>2. QED
    BY <2>1 DEF BoundedSeq, SeqOf
<1>3. QED
  BY <1>1, <1>2

\* A bounded channel or socket takes one entry more while it has room, and
\* gives its first one away.
LEMMA BoundedSteps ==
    ASSUME NEW S, NEW n \in Nat \ {0}, NEW s \in BoundedSeq(S, n), NEW e \in S
    PROVE  /\ <<>> \in BoundedSeq(S, n)
           /\ Len(s) < n => Append(s, e) \in BoundedSeq(S, n)
           /\ s # <<>> => Head(s) \in S /\ Tail(s) \in BoundedSeq(S, n)
<1>1. s \in Seq(S) /\ Len(s) <= n /\ Len(s) \in Nat
  BY BoundedIsSeq, LenProperties
<1>2. <<>> \in BoundedSeq(S, n)
  <2>1. <<>> \in Seq(S) /\ Len(<<>>) <= n
    BY EmptySeq
  <2>2. QED
    BY <2>1, BoundedIsSeq
<1>3. ASSUME Len(s) < n PROVE Append(s, e) \in BoundedSeq(S, n)
  <2> DEFINE t == Append(s, e)
  <2>1. t \in Seq(S) /\ Len(t) = Len(s) + 1
    BY <1>1, AppendProperties
  <2>2. Len(t) <= n
    BY <1>1, <1>3, <2>1
  <2> HIDE DEF t
  <2>3. t \in BoundedSeq(S, n)
    BY <2>1, <2>2, BoundedIsSeq
  <2>4. QED
    BY <2>3 DEF t
<1>4. ASSUME s # <<>> PROVE Head(s) \in S /\ Tail(s) \in BoundedSeq(S, n)
  <2> DEFINE t == Tail(s)
  <2>1. Head(s) \in S /\ t \in Seq(S) /\ Len(t) = Len(s) - 1
    BY <1>1, <1>4, HeadTailProperties
  <2>2. Len(t) <= n
    BY <1>1, <2>1
  <2> HIDE DEF t
  <2>3. t \in BoundedSeq(S, n)
    BY <2>1, <2>2, BoundedIsSeq
  <2>4. QED
    BY <2>1, <2>3 DEF t
<1>5. QED
  BY <1>2, <1>3, <1>4

\* The entry that follows is added at the end.
LEMMA CompletesGrow ==
    ASSUME NEW a \in Nat, NEW b \in Nat, a <= b, NEW s \in Seq(Nat), Completes(s, a, b)
    PROVE  Completes(s \o <<b + 1>>, a, b + 1)
<1> DEFINE e == <<b + 1>>
           t == s \o e
<1>1. e \in Seq(Nat) /\ Len(e) = 1 /\ e[1] = b + 1
  OBVIOUS
<1> HIDE DEF e
<1>2. /\ t \in Seq(Nat) /\ Len(t) = Len(s) + 1 /\ Len(s) \in Nat
      /\ \A i \in 1..Len(s) : t[i] = s[i]
      /\ t[Len(s) + 1] = b + 1
  <2>1. /\ t \in Seq(Nat) /\ Len(t) = Len(s) + Len(e)
        /\ \A i \in 1..(Len(s) + Len(e)) : t[i] = IF i <= Len(s) THEN s[i] ELSE e[i - Len(s)]
    BY <1>1, ConcatProperties
  <2>2. Len(s) \in Nat
    BY LenProperties
  <2> HIDE DEF t
  <2>3. \A i \in 1..Len(s) : t[i] = s[i]
    BY <1>1, <2>1, <2>2
  <2>4. Len(s) + 1 \in 1..(Len(s) + Len(e)) /\ (Len(s) + 1) - Len(s) = 1
        /\ ~(Len(s) + 1 <= Len(s))
    BY <1>1, <2>2
  <2>5. QED
    BY <1>1, <2>1, <2>2, <2>3, <2>4
<1> HIDE DEF t
<1>3. DOMAIN s = 1..Len(s) /\ DOMAIN t = 1..(Len(s) + 1) /\ \A i \in 1..Len(s) : s[i] \in Nat
  BY <1>2
<1>4. \A i \in DOMAIN t : a < t[i] /\ t[i] <= b + 1
  BY <1>2, <1>3 DEF Completes
<1>5. ASSUME NEW i \in DOMAIN t, NEW j \in DOMAIN t, i < j PROVE t[i] < t[j]
  <2>1. i \in 1..Len(s) /\ t[i] = s[i] /\ s[i] \in Nat /\ s[i] <= b
    BY <1>2, <1>3, <1>5 DEF Completes
  <2>2. CASE j = Len(s) + 1
    BY <1>2, <2>1, <2>2
  <2>3. CASE j # Len(s) + 1
    <3>1. j \in 1..Len(s) /\ t[j] = s[j]
      BY <1>2, <1>3, <2>3
    <3>2. QED
      BY <1>3, <1>5, <2>1, <3>1 DEF Completes
  <2>4. QED
    BY <2>2, <2>3
<1>6. ASSUME NEW x \in (a + 1)..(b + 1), x \notin Below \cup WithEOF
      PROVE  \E i \in DOMAIN t : t[i] = x
  <2>1. CASE x = b + 1
    BY <1>2, <1>3, <2>1
  <2>2. CASE x # b + 1
    <3>1. x \in (a + 1)..b
      BY <2>2
    <3>2. PICK i \in DOMAIN s : s[i] = x
      BY <1>6, <3>1 DEF Completes
    <3>3. QED
      BY <1>2, <1>3, <3>2
  <2>3. QED
    BY <2>1, <2>2
<1>7. QED
  BY <1>4, <1>5, <1>6 DEF Completes, t, e

\* An entry that is lost on the way is one that may be.
LEMMA CompletesWithout ==
    ASSUME NEW a \in Nat, NEW b \in Nat, NEW s \in Seq(Nat), NEW t \in Seq(Nat), t # <<>>,
           Completes(s \o t, a, b), Head(t) \in Below \cup WithEOF
    PROVE  Completes(s \o Tail(t), a, b)
<1> DEFINE c == s \o t
           u == s \o Tail(t)
           n == Len(s)
           m == Len(t)
<1>1. /\ n \in Nat /\ m \in Nat \ {0} /\ Tail(t) \in Seq(Nat) /\ Len(Tail(t)) = m - 1
      /\ Head(t) = t[1] /\ \A i \in 1..(m - 1) : Tail(t)[i] = t[i + 1]
  BY HeadTailProperties, EmptySeq, LenProperties
<1>2. /\ c \in Seq(Nat) /\ Len(c) = n + m
      /\ \A i \in 1..(n + m) : c[i] = IF i <= n THEN s[i] ELSE t[i - n]
  BY ConcatProperties
<1>3. /\ u \in Seq(Nat) /\ Len(u) = n + (m - 1)
      /\ \A i \in 1..(n + (m - 1)) : u[i] = IF i <= n THEN s[i] ELSE Tail(t)[i - n]
  BY <1>1, ConcatProperties
<1> HIDE DEF c, u, n, m
<1>4. DOMAIN c = 1..(n + m) /\ DOMAIN u = 1..(n + m - 1) /\ \A i \in 1..(n + m) : c[i] \in Nat
  <2>1. DOMAIN c = 1..(n + m) /\ \A i \in 1..(n + m) : c[i] \in Nat
    BY <1>2
  <2>2. n + (m - 1) = n + m - 1
    BY <1>1
  <2>3. DOMAIN u = 1..(n + (m - 1))
    BY <1>3
  <2>4. QED
    BY <2>1, <2>2, <2>3
<1>a. \A i \in 1..(n + m) : c[i] = IF i <= n THEN s[i] ELSE t[i - n]
  BY <1>2
<1>b. \A i \in 1..(n + (m - 1)) : u[i] = IF i <= n THEN s[i] ELSE Tail(t)[i - n]
  BY <1>3
<1>5. ASSUME NEW i \in 1..(n + m - 1)
      PROVE  u[i] = IF i <= n THEN c[i] ELSE c[i + 1]
  <2>1. CASE i <= n
    <3>1. i \in 1..(n + m) /\ i \in 1..(n + (m - 1))
      BY <1>1
    <3>2. QED
      BY <1>a, <1>b, <2>1, <3>1
  <2>2. CASE i > n
    <3>1. i - n \in 1..(m - 1) /\ (i + 1) - n = (i - n) + 1 /\ i + 1 \in 1..(n + m) /\ ~(i + 1 <= n)
      BY <1>1, <2>2
    <3>2. u[i] = Tail(t)[i - n] /\ c[i + 1] = t[(i - n) + 1]
      <4>1. i \in 1..(n + (m - 1)) /\ ~(i <= n)
        BY <1>1, <2>2
      <4>2. u[i] = Tail(t)[i - n]
        BY <1>b, <4>1
      <4>3. c[i + 1] = t[(i + 1) - n]
        BY <1>a, <3>1
      <4>4. QED
        BY <3>1, <4>2, <4>3
    <3>3. QED
      BY <1>1, <2>2, <3>1, <3>2
  <2>3. QED
    BY <1>1, <2>1, <2>2
<1>6. c[n + 1] = Head(t)
  <2>1. n + 1 \in 1..(n + m) /\ (n + 1) - n = 1 /\ ~(n + 1 <= n)
    BY <1>1
  <2>2. QED
    BY <1>1, <1>2, <2>1
<1>7. /\ \A i \in 1..(n + m) : a < c[i] /\ c[i] <= b
      /\ \A i, j \in 1..(n + m) : i < j => c[i] < c[j]
      /\ \A e \in (a + 1)..b : e \notin Below \cup WithEOF => \E i \in 1..(n + m) : c[i] = e
  BY <1>4 DEF Completes, c
<1>8. ASSUME NEW i \in DOMAIN u PROVE a < u[i] /\ u[i] <= b
  <2>1. i \in 1..(n + m) /\ i + 1 \in 1..(n + m)
    BY <1>1, <1>4
  <2>2. u[i] = IF i <= n THEN c[i] ELSE c[i + 1]
    BY <1>4, <1>5
  <2>3. QED
    BY <1>7, <2>1, <2>2
<1>9. ASSUME NEW i \in DOMAIN u, NEW j \in DOMAIN u, i < j PROVE u[i] < u[j]
  <2>1. /\ i \in 1..(n + m) /\ i + 1 \in 1..(n + m)
        /\ j \in 1..(n + m) /\ j + 1 \in 1..(n + m)
    <3>1. i \in 1..(n + m - 1) /\ j \in 1..(n + m - 1)
      BY <1>4
    <3>2. QED
      BY <1>1, <3>1
  <2>2. u[i] = (IF i <= n THEN c[i] ELSE c[i + 1]) /\ u[j] = (IF j <= n THEN c[j] ELSE c[j + 1])
    BY <1>4, <1>5
  <2>3. (i <= n => i < j + 1) /\ i + 1 < j + 1 /\ ~(~(i <= n) /\ j <= n)
    BY <1>1, <1>9, <2>1
  <2>4. QED
    BY <1>7, <1>9, <2>1, <2>2, <2>3
<1>10. ASSUME NEW e \in (a + 1)..b, e \notin Below \cup WithEOF PROVE \E i \in DOMAIN u : u[i] = e
  <2>1. PICK i \in 1..(n + m) : c[i] = e
    BY <1>7, <1>10
  <2>2. i # n + 1
    BY <1>6, <1>10, <2>1
  <2>3. CASE i <= n
    <3>1. i \in 1..(n + m - 1)
      BY <1>1, <2>3
    <3>2. QED
      BY <1>4, <1>5, <2>1, <2>3, <3>1
  <2>4. CASE i > n + 1
    <3>1. i - 1 \in 1..(n + m - 1) /\ ~(i - 1 <= n) /\ (i - 1) + 1 = i
      BY <1>1, <2>4
    <3>2. QED
      BY <1>4, <1>5, <2>1, <3>1
  <2>5. QED
    BY <1>1, <2>2, <2>3, <2>4
<1>11. QED
  BY <1>8, <1>9, <1>10 DEF Completes, u

\* What is handed over is the next one, and the rest comes after it.
LEMMA CompletesAfter ==
    ASSUME NEW a \in Nat, NEW b \in Nat, NEW s \in Seq(Nat), s # <<>>, Completes(s, a, b)
    PROVE  Head(s) <= b /\ Completes(Tail(s), Head(s), b)
<1> DEFINE t == Tail(s)
           n == Len(s)
<1>1. /\ n \in Nat \ {0} /\ t \in Seq(Nat) /\ Len(t) = n - 1 /\ Head(s) = s[1]
      /\ \A i \in 1..(n - 1) : t[i] = s[i + 1]
  BY HeadTailProperties, EmptySeq, LenProperties
<1> HIDE DEF t
<1>2. DOMAIN s = 1..n /\ DOMAIN t = 1..(n - 1) /\ \A i \in 1..n : s[i] \in Nat
  BY <1>1
<1> HIDE DEF n
<1>3. /\ \A i \in 1..n : a < s[i] /\ s[i] <= b
      /\ \A i, j \in 1..n : i < j => s[i] < s[j]
      /\ \A e \in (a + 1)..b : e \notin Below \cup WithEOF => \E i \in 1..n : s[i] = e
  BY <1>2 DEF Completes
<1>4. 1 \in 1..n /\ \A i \in 1..(n - 1) : i \in 1..n /\ i + 1 \in 1..n /\ 1 < i + 1
  BY <1>1
<1>5. \A i \in DOMAIN t : Head(s) < t[i] /\ t[i] <= b
  BY <1>1, <1>2, <1>3, <1>4
<1>6. \A i, j \in DOMAIN t : i < j => t[i] < t[j]
  BY <1>1, <1>2, <1>3, <1>4
<1>7. ASSUME NEW e \in (Head(s) + 1)..b, e \notin Below \cup WithEOF PROVE \E i \in DOMAIN t : t[i] = e
  <2>1. e \in (a + 1)..b /\ e # s[1]
    BY <1>1, <1>2, <1>3, <1>4
  <2>2. PICK i \in 1..n : s[i] = e
    BY <1>3, <1>7, <2>1
  <2>3. i - 1 \in 1..(n - 1) /\ (i - 1) + 1 = i
    BY <1>1, <2>1, <2>2
  <2>4. QED
    BY <1>1, <1>2, <2>2, <2>3
<1>8. QED
  BY <1>1, <1>3, <1>4, <1>5, <1>6, <1>7 DEF Completes, t

LEMMA ConcatHead ==
    ASSUME NEW s \in Seq(Nat), NEW t \in Seq(Nat), s # <<>>
    PROVE  s \o t # <<>> /\ Head(s \o t) = Head(s) /\ Tail(s \o t) = Tail(s) \o t
<1> DEFINE c == s \o t
<1>1. /\ Len(s) \in Nat \ {0} /\ Len(t) \in Nat /\ Tail(s) \in Seq(Nat) /\ Len(Tail(s)) = Len(s) - 1
      /\ Head(s) = s[1] /\ \A i \in 1..(Len(s) - 1) : Tail(s)[i] = s[i + 1]
  BY HeadTailProperties, EmptySeq, LenProperties
<1>2. /\ c \in Seq(Nat) /\ Len(c) = Len(s) + Len(t)
      /\ \A i \in 1..(Len(s) + Len(t)) : c[i] = IF i <= Len(s) THEN s[i] ELSE t[i - Len(s)]
  BY ConcatProperties
<1> HIDE DEF c
<1>3. c # <<>>
  BY <1>1, <1>2, EmptySeq
<1>4. /\ Tail(c) \in Seq(Nat) /\ Len(Tail(c)) = Len(c) - 1 /\ Head(c) = c[1]
      /\ \A i \in 1..(Len(c) - 1) : Tail(c)[i] = c[i + 1]
  BY <1>2, <1>3, HeadTailProperties
<1>5. /\ Tail(s) \o t \in Seq(Nat) /\ Len(Tail(s) \o t) = (Len(s) - 1) + Len(t)
      /\ \A i \in 1..((Len(s) - 1) + Len(t)) :
            (Tail(s) \o t)[i] = IF i <= Len(s) - 1 THEN Tail(s)[i] ELSE t[i - (Len(s) - 1)]
  BY <1>1, ConcatProperties
<1>6. Head(c) = Head(s)
  BY <1>1, <1>2, <1>4
<1>7. Len(Tail(c)) = Len(Tail(s) \o t)
  BY <1>1, <1>2, <1>4, <1>5
<1>8. ASSUME NEW i \in 1..Len(Tail(c)) PROVE Tail(c)[i] = (Tail(s) \o t)[i]
  <2>1. /\ i \in 1..(Len(c) - 1) /\ i + 1 \in 1..(Len(s) + Len(t))
        /\ i \in 1..((Len(s) - 1) + Len(t)) /\ (i + 1) - Len(s) = i - (Len(s) - 1)
        /\ (i + 1 <= Len(s) <=> i <= Len(s) - 1)
    BY <1>1, <1>2, <1>4
  <2>2. Tail(c)[i] = IF i + 1 <= Len(s) THEN s[i + 1] ELSE t[(i + 1) - Len(s)]
    BY <1>2, <1>4, <2>1
  <2>3. (Tail(s) \o t)[i] = IF i <= Len(s) - 1 THEN Tail(s)[i] ELSE t[i - (Len(s) - 1)]
    BY <1>5, <2>1
  <2>4. CASE i <= Len(s) - 1
    <3>1. i \in 1..(Len(s) - 1)
      BY <1>1, <2>4
    <3>2. QED
      BY <1>1, <2>1, <2>2, <2>3, <2>4, <3>1
  <2>5. CASE ~(i <= Len(s) - 1)
    BY <2>1, <2>2, <2>3, <2>5
  <2>6. QED
    BY <2>4, <2>5
<1>9. Tail(c) = Tail(s) \o t
  BY <1>4, <1>5, <1>7, <1>8, SeqEqual
<1>10. QED
  BY <1>3, <1>6, <1>9 DEF c

\* The head of the second of two sequences becomes the end of the first.
LEMMA HeadMoves ==
    ASSUME NEW s \in Seq(Nat), NEW t \in Seq(Nat), t # <<>>
    PROVE  Append(s, Head(t)) \o Tail(t) = s \o t
<1>1. Head(t) \in Nat /\ Tail(t) \in Seq(Nat)
  BY HeadTailProperties
<1>2. t = <<Head(t)>> \o Tail(t)
  <2>1. <<Head(t)>> \in Seq(Nat) /\ Len(<<Head(t)>>) = 1 /\ <<Head(t)>>[1] = Head(t)
    BY <1>1
  <2>2. /\ Len(t) \in Nat \ {0} /\ Len(Tail(t)) = Len(t) - 1 /\ Head(t) = t[1]
        /\ \A i \in 1..(Len(t) - 1) : Tail(t)[i] = t[i + 1]
    BY HeadTailProperties, EmptySeq
  <2>3. /\ <<Head(t)>> \o Tail(t) \in Seq(Nat)
        /\ Len(<<Head(t)>> \o Tail(t)) = Len(t)
        /\ \A i \in 1..Len(t) :
              (<<Head(t)>> \o Tail(t))[i] = IF i <= 1 THEN Head(t) ELSE Tail(t)[i - 1]
    BY <1>1, <2>1, <2>2, ConcatProperties
  <2>4. \A i \in 1..Len(t) : (<<Head(t)>> \o Tail(t))[i] = t[i]
    BY <2>2, <2>3
  <2>5. QED
    BY <2>3, <2>4, SeqEqual
<1>3. Append(s, Head(t)) = s \o <<Head(t)>> /\ <<Head(t)>> \in Seq(Nat)
  BY <1>1, AppendIsConcat
<1>4. (s \o <<Head(t)>>) \o Tail(t) = s \o (<<Head(t)>> \o Tail(t))
  BY <1>1, <1>3, ConcatAssociative
<1>5. QED
  BY <1>2, <1>3, <1>4

-----------------------------------------------------------------------------
(* Types, and what the steps do.                                           *)

Links == [by : Loggers, at : {"none", "connecting", "open", "closed"}]
Entry == 1..MaxEntries

LEMMA CloseEffect ==
    ASSUME NEW c \in [Conn -> Links], NEW k \in Conn \cup {NoConn}
    PROVE  /\ Close(k, c) \in [Conn -> Links]
           /\ \A j \in Conn : /\ Close(k, c)[j].by = c[j].by
                              /\ Close(k, c)[j].at = IF j = k THEN "closed" ELSE c[j].at
BY LogAssumption DEF Close, Links

LEMMA GoneEffect ==
    ASSUME TypeOK, NEW k \in Conn \cup {NoConn}
    PROVE  /\ Gone(k, sock) \in [Conn -> BoundedSeq(Entry, SocketRoom)]
           /\ \A j \in Conn : Gone(k, sock)[j] = IF j = k THEN <<>> ELSE sock[j]
<1>1. <<>> \in BoundedSeq(Entry, SocketRoom)
  <2>1. <<>> \in Seq(Entry) /\ Len(<<>>) <= SocketRoom
    BY LogAssumption, EmptySeq
  <2>2. QED
    BY <2>1, LogAssumption, BoundedIsSeq
<1>2. QED
  BY <1>1, LogAssumption DEF Gone, TypeOK, Entry

\* A step of the core leaves the application alone, and keeps the types.
LEMMA CoreType ==
    ASSUME TypeOK, EmitterInv, NEW k \in Conn,
           \/ LogCall \/ Receive \/ Emit(k) \/ CheckSubscriber(k) \/ UnSubscribe(k) \/ Subscribe(k)
           \/ RangeOver(k) \/ Forward(k)
    PROVE  TypeOK'
<1>a. /\ entries \in 0..MaxEntries /\ todo \subseteq Conn /\ listeners \subseteq Conn
      /\ MaxEntries \in Nat
      /\ todo # {} => entries > 0
  BY LogAssumption, Zenon DEF TypeOK, EmitterInv
<1>b. calling => entries < MaxEntries
  BY Zenon DEF EmitterInv
<1> USE LogAssumption DEF TypeOK, emitter, startLog, client
<1>1. CASE LogCall \/ Receive
  <2>1. \/ entries' = entries /\ todo' = todo
        \/ entries' = entries + 1 /\ todo' = listeners /\ entries < MaxEntries
    <3> USE <1>b
    <3>1. CASE LogCall
      BY <3>1, Zenon DEF LogCall
    <3>2. CASE Receive
      BY <3>2, Zenon DEF Receive
    <3>3. QED
      BY <1>1, <3>1, <3>2
  <2> HIDE DEF TypeOK
  <2>5. entries' \in 0..MaxEntries /\ todo' \subseteq Conn
    BY <1>a, <2>1
  <2> USE DEF TypeOK
  <2>2. calling' \in BOOLEAN
    BY <1>1 DEF LogCall, Receive
  <2>3. UNCHANGED <<listeners, buf, startLog, reads, client, sock, last>>
    BY <1>1 DEF LogCall, Receive
  <2>4. QED
    BY <2>2, <2>3, <2>5
<1>2. CASE Emit(k)
  <2> HIDE DEF TypeOK
  <2>4. k \in todo
    BY <1>2 DEF Emit
  <2>1. entries \in Entry
    BY <1>a, <2>4 DEF Entry
  <2> USE DEF TypeOK
  <2>2. Append(buf[k], entries) \in BoundedSeq(Entry, Buffer)
    <3>1. Len(buf[k]) < Buffer /\ buf[k] \in BoundedSeq(Entry, Buffer)
      BY <1>2 DEF Emit, Entry
    <3>2. QED
      BY <2>1, <3>1, BoundedSteps
  <2>3. QED
    BY <1>2, <2>2 DEF Emit, Entry
<1>3. CASE CheckSubscriber(k)
  <2>1. overlap' \in BOOLEAN
    BY <1>3, Zenon DEF CheckSubscriber
  <2>2. QED
    BY <1>3, <2>1 DEF CheckSubscriber
<1>4. CASE UnSubscribe(k) \/ Subscribe(k) \/ RangeOver(k)
  <2>1. CASE UnSubscribe(k)
    BY <2>1 DEF UnSubscribe
  <2>2. CASE Subscribe(k)
    BY <2>2 DEF Subscribe
  <2>3. CASE RangeOver(k)
    BY <2>3 DEF RangeOver
  <2>4. QED
    BY <1>4, <2>1, <2>2, <2>3
<1>5. CASE Forward(k)
  <2> DEFINE r == reads[k]
  <2>1. r \in Conn /\ buf[r] \in BoundedSeq(Entry, Buffer) /\ buf[r] # <<>>
        /\ sock[k] \in BoundedSeq(Entry, SocketRoom)
    BY <1>5 DEF Forward, Entry
  <2>2. Head(buf[r]) \in Entry /\ Tail(buf[r]) \in BoundedSeq(Entry, Buffer)
    <3>1. \A e \in Entry : Head(buf[r]) \in Entry /\ Tail(buf[r]) \in BoundedSeq(Entry, Buffer)
      BY <2>1, BoundedSteps
    <3>2. Entry # {}
      <4>1. buf[r] \in Seq(Entry)
        BY <2>1, BoundedIsSeq
      <4>2. Head(buf[r]) \in Entry
        BY <2>1, <4>1, HeadTailProperties
      <4>3. QED
        BY <4>2
    <3>3. QED
      BY <3>1, <3>2
  <2>3. Len(sock[k]) < SocketRoom => Append(sock[k], Head(buf[r])) \in BoundedSeq(Entry, SocketRoom)
    BY <2>1, <2>2, BoundedSteps
  <2>7. \/ sock' = sock
        \/ sock' = [sock EXCEPT ![k] = Append(sock[k], Head(buf[r]))] /\ Len(sock[k]) < SocketRoom
    BY <1>5 DEF Forward
  <2>4. sock' \in [Conn -> BoundedSeq(Entry, SocketRoom)]
    BY <2>3, <2>7 DEF Entry
  <2>5. buf' \in [Conn -> BoundedSeq(Entry, Buffer)]
    BY <1>5, <2>1, <2>2 DEF Forward, Entry
  <2>6. QED
    BY <1>5, <2>4, <2>5 DEF Forward, Entry
<1>6. QED
  BY <1>1, <1>2, <1>3, <1>4, <1>5

\* The steps of the application that neither send a request nor take a frame
\* open no connection, and what they take out of a socket they close.
LEMMA AppEffect ==
    ASSUME TypeOK, NEW k \in Conn,
           \/ Uninstall \/ ClosePage \/ Freeze \/ Thaw
           \/ Install(k) \/ OpenPage(k) \/ ConnectFails(k)
    PROVE  /\ TypeOK'
           /\ UNCHANGED <<emitter, listeners, buf, startLog, reads, last>>
           /\ \A j \in Conn :
                 /\ conn'[j].at = "open" => conn[j].at = "open" /\ sock'[j] = sock[j]
                 /\ conn'[j].at \in {"none", "connecting"} => conn[j].at \in {"none", "connecting"}
                 /\ sock'[j] \in {sock[j], <<>>}
<1> USE DEF client
<1>1. conn \in [Conn -> Links] /\ unsubscribe \in Conn \cup {NoConn} /\ page \in Conn \cup {NoConn}
  BY DEF TypeOK, Links
<1>2. \A who \in Loggers : [by |-> who, at |-> "connecting"] \in Links
  BY DEF Links
<1>3. UNCHANGED <<emitter, listeners, buf, startLog, reads, last>>
  BY DEF Uninstall, ClosePage, Freeze, Thaw, Install, OpenPage, ConnectFails
<1>4. early' \in BOOLEAN
  BY Zenon DEF TypeOK, Uninstall, ClosePage, Freeze, Thaw, Install, OpenPage, ConnectFails
<1>5. /\ unsubscribe' \in Conn \cup {NoConn} /\ fd' \in Conn \cup {NoConn} /\ page' \in Conn \cup {NoConn}
      /\ openFds' \subseteq Conn /\ frozen' \in {"not yet", "now", "once"}
  BY DEF TypeOK, Uninstall, ClosePage, Freeze, Thaw, Install, OpenPage, ConnectFails
<1> DEFINE Effect ==
        /\ conn' \in [Conn -> Links] /\ sock' \in [Conn -> BoundedSeq(Entry, SocketRoom)]
        /\ \A j \in Conn :
                 /\ conn'[j].at = "open" => conn[j].at = "open" /\ sock'[j] = sock[j]
                 /\ conn'[j].at \in {"none", "connecting"} => conn[j].at \in {"none", "connecting"}
                 /\ sock'[j] \in {sock[j], <<>>}
<1>6. ASSUME Freeze \/ Thaw PROVE Effect
  BY <1>1, <1>6 DEF Freeze, Thaw, TypeOK, Entry
<1>7. ASSUME NEW c \in Conn \cup {NoConn}, conn' = Close(c, conn), sock' = Gone(c, sock) PROVE Effect
  BY <1>1, <1>7, CloseEffect, GoneEffect
<1>8. ASSUME Uninstall PROVE Effect
  BY <1>1, <1>7, <1>8 DEF Uninstall
<1>9. ASSUME ClosePage PROVE Effect
  BY <1>1, <1>7, <1>9 DEF ClosePage
<1>10. ASSUME Install(k) PROVE Effect
  <2> DEFINE c == Close(unsubscribe, conn)
  <2>1. c \in [Conn -> Links] /\ \A j \in Conn : c[j].at = IF j = unsubscribe THEN "closed" ELSE conn[j].at
    BY <1>1, CloseEffect
  <2>2. sock' \in [Conn -> BoundedSeq(Entry, SocketRoom)]
        /\ \A j \in Conn : sock'[j] = IF j = unsubscribe THEN <<>> ELSE sock[j]
    BY <1>1, <1>10, GoneEffect DEF Install
  <2>3. conn' = [c EXCEPT ![k] = [by |-> "logger", at |-> "connecting"]] /\ conn[k].at = "none"
    BY <1>10 DEF Install
  <2> HIDE DEF c
  <2>4. conn' \in [Conn -> Links]
    BY <1>2, <2>1, <2>3 DEF Loggers
  <2>5. \A j \in Conn : conn'[j].at = IF j = k THEN "connecting" ELSE c[j].at
    BY <2>1, <2>3
  <2>6. QED
    BY <2>1, <2>2, <2>3, <2>4, <2>5
<1>11. ASSUME OpenPage(k) \/ ConnectFails(k) PROVE Effect
  <2>1. sock' = sock
    BY <1>11 DEF OpenPage, ConnectFails
  <2>2. sock \in [Conn -> BoundedSeq(Entry, SocketRoom)]
    BY DEF TypeOK, Entry
  <2>3. PICK l \in Links : conn' = [conn EXCEPT ![k] = l] /\ l.at \in {"connecting", "closed"}
                            /\ (l.at = "connecting" => conn[k].at = "none")
    <3>1. CASE OpenPage(k)
      BY <1>2, <3>1 DEF OpenPage, Loggers
    <3>2. CASE ConnectFails(k)
      <4>1. [conn[k] EXCEPT !.at = "closed"] \in Links
        BY <1>1 DEF Links
      <4>2. QED
        BY <1>1, <3>2, <4>1 DEF ConnectFails, Links
    <3>3. QED
      BY <1>11, <3>1, <3>2
  <2>4. conn' \in [Conn -> Links] /\ \A j \in Conn : conn'[j] = IF j = k THEN l ELSE conn[j]
    BY <1>1, <2>3
  <2>5. QED
    BY <2>1, <2>2, <2>3, <2>4
<1>12. Effect
  BY <1>6, <1>8, <1>9, <1>10, <1>11
<1> HIDE DEF Effect
<1>13. TypeOK'
  <2>1. conn' \in [Conn -> Links] /\ sock' \in [Conn -> BoundedSeq(Entry, SocketRoom)]
    BY <1>12 DEF Effect
  <2>2. QED
    BY <1>3, <1>4, <1>5, <2>1 DEF TypeOK, Links, Entry, emitter, startLog
<1>14. QED
  BY <1>3, <1>12, <1>13 DEF Effect

\* A request is sent, and a frame is taken.
LEMMA SendEffect ==
    ASSUME TypeOK, NEW k \in Conn, Connected(k)
    PROVE  /\ TypeOK'
           /\ conn[k].at = "connecting" /\ conn' = [conn EXCEPT ![k].at = "open"]
           /\ start' = [start EXCEPT ![k] = "asked"]
           /\ UNCHANGED <<emitter, listeners, buf, target, logSubscriber, overlap, reads, sock, last>>
BY DEF TypeOK, Connected, emitter, client

LEMMA TakeEffect ==
    ASSUME TypeOK, NEW k \in Conn, Deliver(k)
    PROVE  /\ TypeOK'
           /\ sock[k] # <<>>
           /\ sock' = [sock EXCEPT ![k] = Tail(sock[k])]
           /\ last' = IF Head(sock[k]) \in WithEOF THEN last ELSE [last EXCEPT ![k] = Head(sock[k])]
           /\ UNCHANGED <<emitter, listeners, buf, startLog, reads, client>>
<1>1. /\ sock[k] # <<>> /\ sock[k] \in BoundedSeq(Entry, SocketRoom)
      /\ sock' = [sock EXCEPT ![k] = Tail(sock[k])]
      /\ last' = IF Head(sock[k]) \in WithEOF THEN last ELSE [last EXCEPT ![k] = Head(sock[k])]
      /\ UNCHANGED <<emitter, listeners, buf, startLog, reads, client>>
  BY DEF Deliver, TypeOK, Entry
<1>2. sock[k] \in Seq(Entry)
  BY <1>1, LogAssumption, BoundedIsSeq
<1>3. Head(sock[k]) \in Entry
  BY <1>1, <1>2, HeadTailProperties
<1>4. Tail(sock[k]) \in BoundedSeq(Entry, SocketRoom)
  BY <1>1, <1>3, LogAssumption, BoundedSteps
<1>5. TypeOK'
  <2>1. sock' \in [Conn -> BoundedSeq(Entry, SocketRoom)] /\ last' \in [Conn -> 0..MaxEntries]
    <3>1. sock \in [Conn -> BoundedSeq(Entry, SocketRoom)] /\ last \in [Conn -> 0..MaxEntries]
      BY DEF TypeOK, Entry
    <3>2. Head(sock[k]) \in 0..MaxEntries
      BY <1>3, LogAssumption DEF Entry
    <3>3. QED
      BY <1>1, <1>4, <3>1, <3>2
  <2>2. QED
    BY <1>1, <2>1 DEF TypeOK, Entry, emitter, startLog, client
<1>6. QED
  BY <1>1, <1>5
-----------------------------------------------------------------------------
(* The steps keep the invariants.                                          *)

CoreSteps(k) ==
    \/ LogCall \/ Receive \/ Emit(k) \/ CheckSubscriber(k) \/ UnSubscribe(k) \/ Subscribe(k)
    \/ RangeOver(k) \/ Forward(k)
AppSteps(k) ==
    \/ Uninstall \/ ClosePage \/ Freeze \/ Thaw \/ Install(k) \/ OpenPage(k) \/ ConnectFails(k)

LEMMA EmitterStep ==
    ASSUME TypeOK, EmitterInv, NEW k \in Conn,
           CoreSteps(k) \/ AppSteps(k) \/ Connected(k) \/ Deliver(k)
    PROVE  EmitterInv'
<1>1. CASE LogCall
  BY <1>1, Zenon DEF LogCall, EmitterInv
<1>2. CASE Receive
  <2>1. entries' > 0 /\ todo' = listeners /\ listeners' = listeners
    <3>1. entries \in 0..MaxEntries /\ MaxEntries \in Nat
      BY LogAssumption DEF TypeOK
    <3>2. entries' = entries + 1 /\ todo' = listeners /\ listeners' = listeners
      BY <1>2 DEF Receive
    <3>3. QED
      BY <3>1, <3>2
  <2>2. ~calling'
    BY <1>2, Zenon DEF Receive
  <2>3. QED
    BY <2>1, <2>2, Zenon DEF EmitterInv
<1>3. CASE Emit(k)
  BY <1>3, Zenon DEF Emit, EmitterInv
<1>4. CASE UnSubscribe(k) \/ Subscribe(k)
  <2>1. todo = {} /\ UNCHANGED emitter
    BY <1>4 DEF UnSubscribe, Subscribe, Unlocked
  <2>2. QED
    BY <2>1, Zenon DEF EmitterInv, emitter
<1>5. CASE CheckSubscriber(k) \/ RangeOver(k) \/ Forward(k) \/ AppSteps(k) \/ Connected(k) \/ Deliver(k)
  <2>1. UNCHANGED <<emitter, listeners>>
    BY <1>5, AppEffect DEF CheckSubscriber, RangeOver, Forward, AppSteps, Connected, Deliver
  <2>2. QED
    BY <2>1, Zenon DEF EmitterInv, emitter
<1>6. QED
  BY <1>1, <1>2, <1>3, <1>4, <1>5 DEF CoreSteps

LEMMA ServedStep ==
    ASSUME TypeOK, EmitterInv, ServedOnce, NEW k \in Conn,
           CoreSteps(k) \/ AppSteps(k) \/ Connected(k) \/ Deliver(k)
    PROVE  ServedOnce'
<1>t. /\ todo \subseteq listeners /\ listeners \subseteq Conn
      /\ DOMAIN start = Conn /\ DOMAIN buf = Conn /\ DOMAIN sock = Conn /\ DOMAIN reads = Conn
      /\ DOMAIN conn = Conn /\ \A j \in Conn : reads[j] \in Conn \cup {NoConn}
  BY DEF TypeOK, EmitterInv
<1> USE <1>t DEF ServedOnce, client, startLog
<1>1. CASE LogCall \/ Receive
  BY <1>1 DEF LogCall, Receive
<1>2. CASE Emit(k)
  BY <1>2 DEF Emit
<1>3. CASE CheckSubscriber(k) \/ UnSubscribe(k)
  <2>1. /\ start[k] \in {"asked", "ending"} /\ start'[k] \in {"none yet", "ending"}
        /\ \A j \in Conn \ {k} : start'[j] = start[j]
        /\ listeners' \subseteq listeners /\ UNCHANGED <<buf, sock, reads, conn>>
    BY <1>3 DEF CheckSubscriber, UnSubscribe
  <2>2. QED
    BY <2>1
<1>4. CASE Subscribe(k)
  BY <1>4 DEF Subscribe
<1>5. CASE RangeOver(k)
  BY <1>5 DEF RangeOver
<1>6. CASE Forward(k)
  <2> DEFINE r == reads[k]
  <2>1. /\ r \in Conn /\ start[k] = "done" /\ start[r] \in {"subscribed", "done"}
        /\ \A j \in Conn \ {k} : sock'[j] = sock[j]
        /\ \A j \in Conn \ {r} : buf'[j] = buf[j]
        /\ UNCHANGED <<listeners, start, reads, conn>>
    BY <1>6, LogAssumption DEF Forward, TypeOK
  <2>2. QED
    BY <2>1
<1>7. CASE AppSteps(k)
  <2>1. /\ UNCHANGED <<listeners, start, buf, reads>>
        /\ \A j \in Conn : /\ conn'[j].at \in {"none", "connecting"} => conn[j].at \in {"none", "connecting"}
                           /\ sock'[j] \in {sock[j], <<>>}
    BY <1>7, AppEffect DEF AppSteps
  <2>2. QED
    BY <2>1
<1>8. CASE Connected(k)
  <2>1. /\ \A j \in Conn \ {k} : conn'[j] = conn[j] /\ start'[j] = start[j]
        /\ conn'[k].at = "open" /\ start[k] = "none" /\ start'[k] = "asked"
        /\ UNCHANGED <<listeners, buf, sock, reads>>
    <3>1. conn \in [Conn -> Links]
      BY DEF TypeOK, Links
    <3>2. \A j \in Conn \ {k} : conn'[j] = conn[j] /\ start'[j] = start[j]
      BY <1>8, SendEffect, <3>1
    <3>3. conn'[k].at = "open"
      BY <1>8, SendEffect, <3>1 DEF Links
    <3>4. QED
      BY <1>8, SendEffect, <3>2, <3>3
  <2>2. QED
    BY <2>1
<1>9. CASE Deliver(k)
  BY <1>9, TakeEffect
<1>10. QED
  BY <1>1, <1>2, <1>3, <1>4, <1>5, <1>6, <1>7, <1>8, <1>9 DEF CoreSteps

LEMMA AloneStep ==
    ASSUME TypeOK, ServedOnce, AloneInStart, NEW k \in Conn,
           CoreSteps(k) \/ AppSteps(k) \/ Connected(k) \/ Deliver(k)
    PROVE  AloneInStart'
<1>t. /\ DOMAIN start = Conn /\ DOMAIN target = Conn /\ DOMAIN reads = Conn
      /\ logSubscriber \in Conn \cup {NoConn}
  BY DEF TypeOK
<1> USE <1>t, LogAssumption DEF AloneInStart, Starting, client, startLog
<1>1. CASE LogCall \/ Receive \/ Emit(k) \/ Forward(k) \/ AppSteps(k) \/ Deliver(k)
  <2>1. UNCHANGED <<listeners, startLog, reads>>
    BY <1>1, AppEffect DEF LogCall, Receive, Emit, Forward, AppSteps, Deliver
  <2>2. QED
    BY <2>1, Zenon
<1>2. CASE CheckSubscriber(k)
  <2>1. ~overlap' => ~overlap /\ \A j \in Conn : ~Starting(j)
    BY <1>2, Zenon DEF CheckSubscriber
  <2>2. /\ start' = [start EXCEPT ![k] = IF logSubscriber = NoConn THEN "none yet" ELSE "ending"]
        /\ target' = [target EXCEPT ![k] = logSubscriber]
        /\ UNCHANGED <<listeners, reads, logSubscriber>>
    BY <1>2 DEF CheckSubscriber
  <2>3. ~overlap' => /\ listeners = {logSubscriber} \ {NoConn}
                     /\ logSubscriber # NoConn => reads[logSubscriber] = logSubscriber
    BY <2>1, Zenon
  <2>4. ~overlap' => \A j \in Conn : start'[j] = IF j # k THEN start[j]
                                    ELSE IF logSubscriber = NoConn THEN "none yet" ELSE "ending"
    BY <2>2
  <2>5. ~overlap' => target'[k] = logSubscriber'
    BY <2>2
  <2>6. QED
    BY <2>1, <2>2, <2>3, <2>4, <2>5
<1>3. CASE UnSubscribe(k)
  BY <1>3 DEF UnSubscribe
<1>4. CASE Subscribe(k)
  BY <1>4 DEF Subscribe
<1>5. CASE RangeOver(k)
  BY <1>5 DEF RangeOver
<1>6. CASE Connected(k)
  <2>1. /\ start[k] = "none" /\ start' = [start EXCEPT ![k] = "asked"]
        /\ UNCHANGED <<listeners, target, logSubscriber, overlap, reads>>
    BY <1>6, SendEffect DEF ServedOnce
  <2>2. QED
    BY <2>1
<1>7. QED
  BY <1>1, <1>2, <1>3, <1>4, <1>5, <1>6 DEF CoreSteps

\* What concerns k stays, if the step leaves its channel and socket alone.
LEMMA SettledStays ==
    ASSUME NEW k, Settled(k), sock'[k] = sock[k], buf'[k] = buf[k], last'[k] = last[k],
           entries' = entries, k \in todo' <=> k \in todo
    PROVE  Settled(k)'
  BY DEF Settled, Coming

LEMMA OwedStep ==
    ASSUME TypeOK, TypeOK', EmitterInv, ServedOnce, Owed, NEW j \in Conn,
           CoreSteps(j) \/ AppSteps(j) \/ Connected(j) \/ Deliver(j),
           NEW k \in listeners', OwnBuffer(k)', conn'[k].at = "open"
    PROVE  Settled(k)'
<1>t. /\ todo \subseteq listeners /\ listeners \subseteq Conn
      /\ entries \in Nat /\ \A i \in Conn : last[i] \in Nat
      /\ \A i \in Conn : sock[i] \in Seq(Nat) /\ buf[i] \in Seq(Nat)
      /\ DOMAIN start = Conn /\ DOMAIN buf = Conn /\ DOMAIN sock = Conn /\ DOMAIN reads = Conn
      /\ DOMAIN last = Conn /\ \A i \in Conn : reads[i] \in Conn \cup {NoConn}
  <2>1. /\ entries \in 0..MaxEntries /\ MaxEntries \in Nat /\ last \in [Conn -> 0..MaxEntries]
        /\ buf \in [Conn -> BoundedSeq(Entry, Buffer)] /\ sock \in [Conn -> BoundedSeq(Entry, SocketRoom)]
    BY LogAssumption DEF TypeOK, Entry
  <2>2. \A i \in Conn : sock[i] \in Seq(Entry) /\ buf[i] \in Seq(Entry)
    BY <2>1, LogAssumption, BoundedIsSeq
  <2>3. Entry \subseteq Nat
    BY <2>1 DEF Entry
  <2>4. \A i \in Conn : sock[i] \in Seq(Nat) /\ buf[i] \in Seq(Nat)
    BY <2>2, <2>3, SeqMonotonic
  <2>5. todo \subseteq listeners
    BY Zenon DEF EmitterInv
  <2>6. /\ listeners \subseteq Conn /\ DOMAIN start = Conn /\ DOMAIN buf = Conn /\ DOMAIN sock = Conn
        /\ DOMAIN reads = Conn /\ DOMAIN last = Conn /\ \A i \in Conn : reads[i] \in Conn \cup {NoConn}
    BY DEF TypeOK
  <2>7. QED
    BY <2>1, <2>4, <2>5, <2>6
<1>c. k \in Conn
  BY DEF TypeOK
<1>a. \A s, t, u \in Seq(Nat) : (s \o t) \o u = s \o (t \o u)
  BY ConcatAssociative
<1>b. \A s \in Seq(Nat) : s # <<>> => Head(s) \in Nat /\ Tail(s) \in Seq(Nat)
  BY HeadTailProperties
<1>1. CASE LogCall
  <2>1. UNCHANGED <<entries, todo, listeners, buf, reads, conn, sock, last>>
    BY <1>1 DEF LogCall, client
  <2>2. QED
    BY <2>1, SettledStays DEF Owed, OwnBuffer
<1>2. CASE Receive
  <2>1. todo = {} /\ entries' = entries + 1 /\ k \in todo' /\ k \in listeners
        /\ UNCHANGED <<buf, reads, conn, sock, last>>
    BY <1>2 DEF Receive, Unlocked, client
  <2>2. Settled(k)
    BY <2>1 DEF Owed, OwnBuffer
  <2>3. sock[k] \o buf[k] \in Seq(Nat) /\ Completes(sock[k] \o buf[k], last[k], entries)
        /\ last[k] <= entries
    <3>1. sock[k] \o buf[k] \in Seq(Nat)
      BY <1>t, <1>c, ConcatProperties
    <3>2. (sock[k] \o buf[k]) \o <<>> = sock[k] \o buf[k]
      BY <3>1, ConcatEmptySeq
    <3>3. QED
      BY <2>1, <2>2, <3>1, <3>2 DEF Settled, Coming
  <2>4. Completes((sock[k] \o buf[k]) \o <<entries + 1>>, last[k], entries + 1)
    BY <1>t, <1>c, <2>3, CompletesGrow
  <2>5. last[k] <= entries + 1
    BY <1>t, <1>c, <2>3
  <2>6. QED
    BY <2>1, <2>4, <2>5 DEF Settled, Coming
<1>3. CASE Emit(j)
  <2>1. /\ j \in todo /\ buf' = [buf EXCEPT ![j] = Append(buf[j], entries)] /\ todo' = todo \ {j}
        /\ UNCHANGED <<entries, listeners, reads, conn, sock, last>>
    BY <1>3 DEF Emit, client
  <2>2. Settled(k)
    BY <2>1 DEF Owed, OwnBuffer
  <2>3. CASE j # k
    BY <1>c, <1>t, <2>1, <2>2, <2>3, SettledStays
  <2>4. CASE j = k
    <3>1. Append(buf[k], entries) = buf[k] \o <<entries>> /\ <<entries>> \in Seq(Nat)
      BY <1>c, <1>t, AppendIsConcat
    <3>2. (sock[k] \o buf[k]) \o <<entries>> = sock[k] \o (buf[k] \o <<entries>>)
      <4> DEFINE e == <<entries>>
      <4>1. e \in Seq(Nat) /\ sock[k] \in Seq(Nat) /\ buf[k] \in Seq(Nat)
        BY <1>c, <1>t, <3>1
      <4> HIDE DEF e
      <4>2. (sock[k] \o buf[k]) \o e = sock[k] \o (buf[k] \o e)
        BY <1>a, <4>1
      <4>3. QED
        BY <4>2 DEF e
    <3>3. Append(buf[k], entries) \in Seq(Nat)
      BY <1>c, <1>t, AppendProperties
    <3>4. sock[k] \o Append(buf[k], entries) \in Seq(Nat)
      BY <1>c, <1>t, <3>3, ConcatProperties
    <3>5. (sock[k] \o Append(buf[k], entries)) \o <<>> = sock[k] \o Append(buf[k], entries)
      BY <3>4, ConcatEmptySeq
    <3>6. Coming(k)' = sock[k] \o Append(buf[k], entries)
      BY <1>c, <1>t, <2>1, <2>4, <3>5 DEF Coming
    <3>7. Coming(k) = sock[k] \o Append(buf[k], entries)
      BY <2>1, <2>4, <3>1, <3>2 DEF Coming
    <3>8. QED
      BY <2>1, <2>2, <3>6, <3>7 DEF Settled
  <2>5. QED
    BY <2>3, <2>4
<1>4. CASE CheckSubscriber(j) \/ UnSubscribe(j)
  <2>1. listeners' \subseteq listeners /\ UNCHANGED <<entries, todo, buf, reads, conn, sock, last>>
    BY <1>4 DEF CheckSubscriber, UnSubscribe, emitter, client
  <2>2. QED
    BY <2>1, SettledStays DEF Owed, OwnBuffer
<1>5. CASE Subscribe(j)
  <2>1. /\ start[j] = "none yet" /\ todo = {} /\ listeners' = listeners \cup {j}
        /\ last' = [last EXCEPT ![j] = entries] /\ UNCHANGED <<entries, todo, buf, reads, conn, sock>>
    BY <1>5 DEF Subscribe, Unlocked, emitter, client
  <2>2. CASE k = j
    <3>1. sock[k] = <<>> /\ buf[k] = <<>> /\ last'[k] = entries
      BY <1>c, <1>t, <2>1, <2>2 DEF ServedOnce
    <3>2. Completes(<<>>, entries, entries)
      <4>1. DOMAIN <<>> = {} /\ (entries + 1)..entries = {}
        BY <1>t
      <4>2. QED
        BY <4>1 DEF Completes
    <3>3. Coming(k)' = <<>>
      <4>1. <<>> \in Seq(Nat)
        BY EmptySeq
      <4>2. <<>> \o <<>> = <<>>
        BY <4>1, ConcatEmptySeq
      <4>3. Coming(k)' = (<<>> \o <<>>) \o <<>>
        BY <2>1, <3>1 DEF Coming
      <4>4. QED
        BY <4>2, <4>3
    <3>4. last'[k] = entries /\ entries' = entries 
      BY <2>1, <3>1
    <3>5. entries <= entries
      BY <1>t
    <3>6. QED
      BY <3>2, <3>3, <3>4, <3>5 DEF Settled
  <2>3. CASE k # j
    <3>1. k \in listeners /\ last'[k] = last[k]
      BY <1>c, <1>t, <2>1, <2>3
    <3>2. Settled(k)
      BY <2>1, <3>1 DEF Owed, OwnBuffer
    <3>3. QED
      BY <2>1, <3>1, <3>2, SettledStays
  <2>4. QED
    BY <2>2, <2>3
<1>6. CASE RangeOver(j)
  <2>1. /\ start[j] = "subscribed" /\ reads' = [reads EXCEPT ![j] = logSubscriber]
        /\ UNCHANGED <<entries, todo, listeners, buf, conn, sock, last>>
    BY <1>6 DEF RangeOver, emitter, client
  <2>2. OwnBuffer(k)
    <3>1. reads[j] = NoConn
      BY <2>1 DEF ServedOnce
    <3>2. \A i \in Conn \ {j} : reads'[i] = reads[i]
      BY <1>t, <2>1
    <3>3. QED
      BY <1>c, <3>1, <3>2, LogAssumption DEF OwnBuffer
  <2>3. QED
    BY <2>1, <2>2, SettledStays DEF Owed
<1>7. CASE Forward(j)
  <2> DEFINE r == reads[j]
  <2>1. /\ r \in Conn /\ buf[r] # <<>> /\ buf' = [buf EXCEPT ![r] = Tail(buf[r])]
        /\ UNCHANGED <<entries, todo, listeners, reads, conn, last>>
    BY <1>t, <1>7, LogAssumption DEF Forward, emitter, client
  <2>2. \/ /\ Head(buf[r]) \in Below \/ conn[j].at = "closed"
           /\ sock' = sock
        \/ sock' = [sock EXCEPT ![j] = Append(sock[j], Head(buf[r]))]
    BY <1>7 DEF Forward
  <2>3. Settled(k)
    BY <2>1 DEF Owed, OwnBuffer
  <2>4. CASE j = k
    <3>1. r = k
      BY <2>1, <2>4, LogAssumption DEF OwnBuffer
    <3>2. conn[k].at # "closed"
      BY <2>1
    <3>3. buf'[k] = Tail(buf[k]) /\ buf[k] # <<>> /\ sock[k] \in Seq(Nat) /\ buf[k] \in Seq(Nat)
      BY <1>c, <1>t, <2>1, <3>1
    <3>4. CASE sock' = [sock EXCEPT ![j] = Append(sock[j], Head(buf[r]))]
      <4>1. sock'[k] = Append(sock[k], Head(buf[k]))
        BY <1>c, <1>t, <2>4, <3>1, <3>4
      <4>2. sock'[k] \o buf'[k] = sock[k] \o buf[k]
        BY <3>3, <4>1, HeadMoves
      <4>3. QED
        BY <2>1, <2>3, <4>2 DEF Settled, Coming
    <3>5. CASE Head(buf[r]) \in Below /\ sock' = sock
      <4> DEFINE t == IF k \in todo THEN <<entries>> ELSE <<>>
      <4>1. t \in Seq(Nat) /\ Tail(buf[k]) \in Seq(Nat)
        BY <1>b, <1>t, <3>3
      <4>2. Coming(k) = (sock[k] \o buf[k]) \o t /\ Coming(k)' = (sock[k] \o Tail(buf[k])) \o t
        BY <2>1, <3>3, <3>5 DEF Coming
      <4> HIDE DEF t
      <4>3. /\ (sock[k] \o buf[k]) \o t = sock[k] \o (buf[k] \o t)
            /\ (sock[k] \o Tail(buf[k])) \o t = sock[k] \o (Tail(buf[k]) \o t)
        BY <1>a, <3>3, <4>1
      <4>4. /\ buf[k] \o t \in Seq(Nat) /\ buf[k] \o t # <<>>
            /\ Head(buf[k] \o t) = Head(buf[k]) /\ Tail(buf[k] \o t) = Tail(buf[k]) \o t
        BY <3>3, <4>1, ConcatHead, ConcatProperties
      <4>5. Completes(sock[k] \o Tail(buf[k] \o t), last[k], entries)
        <5> DEFINE s == sock[k]
                   u == buf[k] \o t
        <5>1. /\ s \in Seq(Nat) /\ u \in Seq(Nat) /\ u # <<>> /\ Head(u) \in Below \cup WithEOF
              /\ Completes(s \o u, last[k], entries) /\ last[k] \in Nat /\ entries \in Nat
          BY <1>c, <1>t, <2>3, <3>1, <3>3, <3>5, <4>2, <4>3, <4>4 DEF Settled
        <5> HIDE DEF s, u
        <5>2. Completes(s \o Tail(u), last[k], entries)
          BY <5>1, CompletesWithout
        <5>3. QED
          BY <5>2 DEF s, u
      <4>6. QED
        BY <2>1, <2>3, <4>2, <4>3, <4>4, <4>5 DEF Settled
    <3>6. QED
      BY <2>2, <2>4, <3>2, <3>4, <3>5
  <2>5. CASE j # k
    <3>1. r # k
      BY <2>1, <2>5 DEF OwnBuffer
    <3>2. sock'[k] = sock[k] /\ buf'[k] = buf[k]
      BY <1>c, <1>t, <2>1, <2>2, <2>5, <3>1
    <3>3. QED
      BY <2>1, <2>3, <3>2, SettledStays
  <2>6. QED
    BY <2>4, <2>5
<1>8. CASE AppSteps(j)
  <2>1. UNCHANGED <<entries, todo, listeners, buf, reads, last>>
    BY <1>8, AppEffect DEF AppSteps, emitter
  <2>2. conn[k].at = "open" /\ sock'[k] = sock[k]
    BY <1>8, <1>c, AppEffect DEF AppSteps
  <2>3. QED
    BY <2>1, <2>2, SettledStays DEF Owed, OwnBuffer
<1>9. CASE Connected(j)
  <2>1. /\ conn[j].at = "connecting" /\ conn' = [conn EXCEPT ![j].at = "open"]
        /\ UNCHANGED <<entries, todo, listeners, buf, reads, sock, last>>
    BY <1>9, SendEffect DEF emitter
  <2>2. k # j
    BY <2>1 DEF ServedOnce
  <2>3. conn[k].at = "open"
    BY <1>c, <2>1, <2>2 DEF TypeOK
  <2>4. QED
    BY <2>1, <2>3, SettledStays DEF Owed, OwnBuffer
<1>10. CASE Deliver(j)
  <2>1. /\ sock[j] # <<>> /\ sock' = [sock EXCEPT ![j] = Tail(sock[j])]
        /\ last' = IF Head(sock[j]) \in WithEOF THEN last ELSE [last EXCEPT ![j] = Head(sock[j])]
        /\ UNCHANGED <<entries, todo, listeners, buf, reads, conn>>
    BY <1>10, TakeEffect DEF emitter, client
  <2>2. Settled(k)
    BY <2>1 DEF Owed, OwnBuffer
  <2>3. CASE j # k
    BY <1>c, <1>t, <2>1, <2>2, <2>3, SettledStays
  <2>4. CASE j = k
    <3> DEFINE t == IF k \in todo THEN <<entries>> ELSE <<>>
               rest == buf[k] \o t
    <3>1. t \in Seq(Nat) /\ rest \in Seq(Nat)
      BY <1>c, <1>t, ConcatProperties
    <3>2. Completes(sock[k] \o rest, last[k], entries) /\ last[k] <= entries
      <4>1. Coming(k) = (sock[k] \o buf[k]) \o t
        BY DEF Coming
      <4>2. sock[k] \in Seq(Nat) /\ buf[k] \in Seq(Nat)
        BY <1>c, <1>t
      <4> HIDE DEF t
      <4>3. (sock[k] \o buf[k]) \o t = sock[k] \o (buf[k] \o t)
        BY <1>a, <3>1, <4>2
      <4>4. QED
        BY <2>2, <4>1, <4>3 DEF Settled
    <3>3. /\ Head(sock[k]) \in Nat /\ Head(sock[k]) <= entries
          /\ Completes(Tail(sock[k]) \o rest, Head(sock[k]), entries)
          /\ Head(sock[k]) \in WithEOF => Completes(Tail(sock[k]) \o rest, last[k], entries)
      <4> DEFINE s == sock[k]
                 a == last[k]
                 c == s \o rest
      <4>1. s \in Seq(Nat) /\ s # <<>> /\ a \in Nat /\ entries \in Nat /\ a <= entries
            /\ rest \in Seq(Nat) /\ Completes(c, a, entries) /\ Head(s) \in Nat
        BY <1>b, <1>c, <1>t, <2>1, <2>4, <3>1, <3>2
      <4> HIDE DEF rest, s, a
      <4>2. c \in Seq(Nat) /\ c # <<>> /\ Head(c) = Head(s) /\ Tail(c) = Tail(s) \o rest
        BY <4>1, ConcatHead, ConcatProperties
      <4> HIDE DEF c
      <4>3. Head(c) <= entries /\ Completes(Tail(c), Head(c), entries)
        BY <4>1, <4>2, CompletesAfter
      <4>4. ASSUME Head(c) \in WithEOF PROVE Completes(Tail(c), a, entries)
        <5>1. <<>> \in Seq(Nat) /\ <<>> \o c = c /\ <<>> \o Tail(c) = Tail(c)
          BY <4>2, HeadTailProperties, ConcatEmptySeq, EmptySeq
        <5> DEFINE e == <<>>
        <5>2. e \in Seq(Nat) /\ Completes(e \o c, a, entries) /\ Head(c) \in Below \cup WithEOF
          BY <4>1, <4>4, <5>1
        <5> HIDE DEF e
        <5>3. Completes(e \o Tail(c), a, entries)
          BY <4>1, <4>2, <5>2, CompletesWithout
        <5>4. QED
          BY <5>1, <5>3 DEF e
      <4>5. QED
        BY <4>1, <4>2, <4>3, <4>4 DEF s, a
    <3>4. /\ sock'[k] = Tail(sock[k])
          /\ last'[k] = IF Head(sock[k]) \in WithEOF THEN last[k] ELSE Head(sock[k])
      BY <1>c, <1>t, <2>1, <2>4
    <3>5. (Tail(sock[k]) \o buf[k]) \o t = Tail(sock[k]) \o rest
      <4>1. Tail(sock[k]) \in Seq(Nat)
        BY <1>b, <1>c, <1>t, <2>1, <2>4
      <4>2. buf[k] \in Seq(Nat)
        BY <1>c, <1>t
      <4> HIDE DEF t
      <4>3. (Tail(sock[k]) \o buf[k]) \o t = Tail(sock[k]) \o (buf[k] \o t)
        BY <1>a, <3>1, <4>1, <4>2
      <4>4. QED
        BY <4>3
    <3>6. Coming(k)' = (Tail(sock[k]) \o buf[k]) \o t
      BY <2>1, <3>4 DEF Coming
    <3> HIDE DEF rest, t
    <3>7. Completes(Coming(k)', last'[k], entries) /\ last'[k] <= entries
      BY <3>2, <3>3, <3>4, <3>5, <3>6
    <3>8. QED
      BY <2>1, <3>7 DEF Settled
  <2>5. QED
    BY <2>3, <2>4
<1>11. QED
  BY <1>1, <1>2, <1>3, <1>4, <1>5, <1>6, <1>7, <1>8, <1>9, <1>10 DEF CoreSteps

\* Where the connections stand after a step of the application.
LEMMA HeldStep ==
    ASSUME TypeOK, Owners, Held, NEW k \in Conn,
           CoreSteps(k) \/ AppSteps(k) \/ Connected(k) \/ Deliver(k)
    PROVE  Owners' /\ Held'
<1>t. /\ conn \in [Conn -> Links] /\ unsubscribe \in Conn \cup {NoConn} /\ page \in Conn \cup {NoConn}
      /\ fd \in Conn \cup {NoConn} /\ openFds \subseteq Conn /\ NoConn \notin Conn
  BY LogAssumption DEF TypeOK, Links
<1>1. CASE CoreSteps(k) \/ Deliver(k) \/ Freeze \/ Thaw
  <2>1. UNCHANGED <<conn, unsubscribe, fd, page, openFds, early>>
    BY <1>1 DEF CoreSteps, LogCall, Receive, Emit, CheckSubscriber, UnSubscribe, Subscribe, RangeOver,
                Forward, Deliver, Freeze, Thaw, client
  <2>2. QED
    BY <2>1, Zenon DEF Owners, Held, IsConnecting
<1>2. CASE Install(k)
  <2> DEFINE c == Close(unsubscribe, conn)
  <2>1. c \in [Conn -> Links] /\ \A j \in Conn : /\ c[j].by = conn[j].by
                                               /\ c[j].at = IF j = unsubscribe THEN "closed" ELSE conn[j].at
    BY <1>t, CloseEffect
  <2>2. /\ conn' = [c EXCEPT ![k] = [by |-> "logger", at |-> "connecting"]] /\ conn[k].at = "none"
        /\ unsubscribe' = NoConn /\ fd' = k /\ page' = page
        /\ openFds' = {k} \cup (IF unsubscribe = NoConn THEN openFds ELSE openFds \ {fd})
    BY <1>2 DEF Install
  <2>3. ~early' => ~early /\ \A j \in Conn : conn[j] # [by |-> "logger", at |-> "connecting"]
    BY <1>2, Zenon DEF Install, Connecting
  <2> HIDE DEF c
  <2>4. /\ conn'[k].by = "logger" /\ conn'[k].at = "connecting"
        /\ \A j \in Conn \ {k} : conn'[j] = c[j]
    BY <2>1, <2>2
  <2>5. Owners'
    <3>1. page # NoConn => page # k /\ conn'[page].by = "page" /\ conn'[page].at # "none"
      BY <1>t, <2>1, <2>2, <2>4 DEF Owners
    <3>2. QED
      BY <2>2, <3>1 DEF Owners
  <2>6. ASSUME ~early'
        PROVE  /\ openFds' = {fd'} \ {NoConn}
               /\ \A j \in Conn : /\ IsConnecting(j, "logger")' => fd' = j /\ unsubscribe' = NoConn
                                  /\ IsConnecting(j, "page")' => page' = j
                                  /\ conn'[j].at = "open" => j \in {unsubscribe', page'}
    <3>1. /\ openFds = {fd} \ {NoConn} /\ (fd # NoConn => unsubscribe # NoConn \/ IsConnecting(fd, "logger"))
          /\ \A j \in Conn : /\ IsConnecting(j, "page") => page = j
                             /\ conn[j].at = "open" => j \in {unsubscribe, page}
      BY <2>3, <2>6, Zenon DEF Held
    <3>2. \A j \in Conn : ~IsConnecting(j, "logger")
      BY <1>t, <2>3, <2>6 DEF IsConnecting, Links
    <3>3. openFds' = {k}
      BY <1>t, <2>2, <3>1, <3>2
    <3>4. ASSUME NEW j \in Conn, j # k
          PROVE  /\ ~IsConnecting(j, "logger")' /\ (IsConnecting(j, "page")' => page' = j)
                 /\ conn'[j].at = "open" => j = page'
      BY <2>1, <2>2, <2>4, <3>1, <3>2, <3>4 DEF IsConnecting
    <3>5. QED
      BY <1>t, <2>2, <2>4, <3>3, <3>4 DEF IsConnecting
  <2>7. fd' # NoConn /\ IsConnecting(fd, "logger")'
    BY <1>t, <2>2, <2>4 DEF IsConnecting
  <2>8. Held'
    BY <2>2, <2>6, <2>7, Zenon DEF Held
  <2>9. QED
    BY <2>5, <2>8
<1>3. CASE Uninstall
  <2>1. \A j \in Conn : /\ conn'[j].by = conn[j].by
                       /\ conn'[j].at = IF j = unsubscribe THEN "closed" ELSE conn[j].at
    BY <1>t, <1>3, CloseEffect DEF Uninstall
  <2>2. unsubscribe' = NoConn /\ fd' = NoConn /\ page' = page /\ openFds' = openFds \ {fd}
    BY <1>3 DEF Uninstall
  <2>3. ~early' => ~early /\ \A j \in Conn : conn[j] # [by |-> "logger", at |-> "connecting"]
    BY <1>3, Zenon DEF Uninstall, Connecting
  <2>4. Owners'
    BY <1>t, <2>1, <2>2 DEF Owners
  <2>5. ASSUME ~early'
        PROVE  /\ openFds' = {}
               /\ \A j \in Conn : /\ ~IsConnecting(j, "logger")'
                                  /\ IsConnecting(j, "page")' => page' = j
                                  /\ conn'[j].at = "open" => j = page'
    <3>1. /\ openFds = {fd} \ {NoConn}
          /\ \A j \in Conn : /\ IsConnecting(j, "page") => page = j
                             /\ conn[j].at = "open" => j \in {unsubscribe, page}
      BY <2>3, <2>5, Zenon DEF Held
    <3>2. \A j \in Conn : ~IsConnecting(j, "logger")
      BY <1>t, <2>3, <2>5 DEF IsConnecting, Links
    <3>3. QED
      BY <2>1, <2>2, <3>1, <3>2 DEF IsConnecting
  <2>6. ~early' => openFds' = {fd'} \ {NoConn}
    BY <2>2, <2>5
  <2>7. Held'
    BY <2>2, <2>5, <2>6, Zenon DEF Held
  <2>8. QED
    BY <2>4, <2>7
<1>4. CASE OpenPage(k)
  <2>1. /\ conn[k].at = "none" /\ page = NoConn /\ page' = k
        /\ UNCHANGED <<unsubscribe, fd, openFds, early>>
        /\ conn' = [conn EXCEPT ![k] = [by |-> "page", at |-> "connecting"]]
    BY <1>4 DEF OpenPage
  <2>2. /\ conn'[k].by = "page" /\ conn'[k].at = "connecting"
        /\ \A j \in Conn \ {k} : conn'[j] = conn[j]
    BY <1>t, <2>1
  <2>3. Owners'
    BY <1>t, <2>1, <2>2 DEF Owners
  <2>4. ASSUME ~early'
        PROVE  /\ openFds' = {fd'} \ {NoConn}
               /\ fd' # NoConn => unsubscribe' # NoConn \/ IsConnecting(fd, "logger")'
               /\ unsubscribe' # NoConn => fd' # NoConn
               /\ \A j \in Conn : /\ IsConnecting(j, "logger")' => fd' = j /\ unsubscribe' = NoConn
                                  /\ IsConnecting(j, "page")' => page' = j
                                  /\ conn'[j].at = "open" => j \in {unsubscribe', page'}
    <3>1. ~early
      BY <2>1, <2>4
    <3>2. QED
      BY <1>t, <2>1, <2>2, <3>1 DEF Held, IsConnecting
  <2>5. QED
    BY <2>3, <2>4, Zenon DEF Held
<1>5. CASE ClosePage
  <2> DEFINE known == IF conn[page].at = "open" THEN page ELSE NoConn
  <2>1. \A j \in Conn : /\ conn'[j].by = conn[j].by
                       /\ conn'[j].at = IF j = known THEN "closed" ELSE conn[j].at
    <3>1. known \in Conn \cup {NoConn} /\ conn' = Close(known, conn)
      BY <1>t, <1>5 DEF ClosePage
    <3>2. QED
      BY <1>t, <3>1, CloseEffect
  <2>2. page # NoConn /\ page' = NoConn /\ UNCHANGED <<unsubscribe, fd, openFds>>
    BY <1>5 DEF ClosePage
  <2>3. ~early' => ~early /\ conn[page].at # "connecting"
    BY <1>5, Zenon DEF ClosePage
  <2>4. Owners'
    BY <1>t, <2>1, <2>2 DEF Owners
  <2>5. ASSUME ~early'
        PROVE  /\ openFds' = {fd'} \ {NoConn}
               /\ fd' # NoConn => unsubscribe' # NoConn \/ IsConnecting(fd, "logger")'
               /\ unsubscribe' # NoConn => fd' # NoConn
               /\ \A j \in Conn : /\ IsConnecting(j, "logger")' => fd' = j /\ unsubscribe' = NoConn
                                  /\ IsConnecting(j, "page")' => page' = j
                                  /\ conn'[j].at = "open" => j \in {unsubscribe', page'}
    <3>1. ~early /\ conn[page].at # "connecting"
      BY <2>3, <2>5
    <3>2. /\ openFds = {fd} \ {NoConn}
          /\ fd # NoConn => unsubscribe # NoConn \/ IsConnecting(fd, "logger")
          /\ unsubscribe # NoConn => fd # NoConn
          /\ \A j \in Conn : /\ IsConnecting(j, "logger") => fd = j /\ unsubscribe = NoConn
                             /\ IsConnecting(j, "page") => page = j
                             /\ conn[j].at = "open" => j \in {unsubscribe, page}
      BY <3>1, Zenon DEF Held
    <3>3. QED
      BY <1>t, <2>1, <2>2, <3>1, <3>2 DEF IsConnecting
  <2>6. QED
    BY <2>4, <2>5, Zenon DEF Held
<1>6. CASE Connected(k) \/ ConnectFails(k)
  <2>1. /\ conn[k].at = "connecting" /\ conn'[k].by = conn[k].by
        /\ \A j \in Conn \ {k} : conn'[j] = conn[j]
        /\ conn[k].by \in Loggers
    BY <1>t, <1>6 DEF Connected, ConnectFails, Links
  <2>2. /\ UNCHANGED <<page, early>>
        /\ \/ /\ conn'[k].at = "open" /\ UNCHANGED <<fd, openFds>>
              /\ unsubscribe' = IF conn[k].by = "logger" THEN k ELSE unsubscribe
           \/ /\ conn'[k].at = "closed" /\ UNCHANGED unsubscribe
              /\ fd' = IF conn[k].by = "logger" THEN NoConn ELSE fd
              /\ openFds' = IF conn[k].by = "logger" THEN openFds \ {fd} ELSE openFds
    BY <1>t, <1>6 DEF Connected, ConnectFails, Links
  <2>3. Owners'
    BY <1>t, <2>1, <2>2 DEF Owners
  <2>4. ASSUME ~early'
        PROVE  /\ openFds' = {fd'} \ {NoConn}
               /\ fd' # NoConn => unsubscribe' # NoConn \/ IsConnecting(fd, "logger")'
               /\ unsubscribe' # NoConn => fd' # NoConn
               /\ \A j \in Conn : /\ IsConnecting(j, "logger")' => fd' = j /\ unsubscribe' = NoConn
                                  /\ IsConnecting(j, "page")' => page' = j
                                  /\ conn'[j].at = "open" => j \in {unsubscribe', page'}
    <3>1. ~early
      BY <2>2, <2>4
    <3>2. /\ openFds = {fd} \ {NoConn}
          /\ fd # NoConn => unsubscribe # NoConn \/ IsConnecting(fd, "logger")
          /\ unsubscribe # NoConn => fd # NoConn
          /\ \A j \in Conn : /\ IsConnecting(j, "logger") => fd = j /\ unsubscribe = NoConn
                             /\ IsConnecting(j, "page") => page = j
                             /\ conn[j].at = "open" => j \in {unsubscribe, page}
      BY <3>1, Zenon DEF Held
    <3>3. QED
      BY <1>t, <2>1, <2>2, <3>2 DEF IsConnecting, Loggers
  <2>5. QED
    BY <2>3, <2>4, Zenon DEF Held
<1>7. QED
  BY <1>1, <1>2, <1>3, <1>4, <1>5, <1>6 DEF AppSteps

-----------------------------------------------------------------------------

IInv == TypeOK /\ EmitterInv /\ Owners /\ Held /\ ServedOnce /\ AloneInStart /\ Owed

LEMMA Invariant == Spec => []IInv
<1>1. Init => IInv
  <2> SUFFICES ASSUME Init PROVE IInv
    OBVIOUS
  <2>1. <<>> \in BoundedSeq(Entry, Buffer) /\ <<>> \in BoundedSeq(Entry, SocketRoom)
    <3>1. <<>> \in Seq(Entry) /\ Len(<<>>) <= Buffer /\ Len(<<>>) <= SocketRoom
      BY LogAssumption, EmptySeq
    <3>2. QED
      BY <3>1, LogAssumption, BoundedIsSeq
  <2>2. calling \in BOOLEAN /\ overlap \in BOOLEAN /\ early \in BOOLEAN
    BY DEF Init
  <2>3. /\ entries \in 0..MaxEntries /\ last \in [Conn -> 0..MaxEntries]
    <3>1. 0 \in 0..MaxEntries
      BY LogAssumption
    <3>2. entries = 0 /\ last = [k \in Conn |-> 0]
      BY DEF Init
    <3>3. QED
      BY <3>1, <3>2
  <2>4. TypeOK
    BY <2>1, <2>2, <2>3 DEF Init, TypeOK, Entry, Loggers
  <2>5. EmitterInv
    BY Zenon DEF Init, EmitterInv
  <2>6. Owners /\ ServedOnce /\ Owed
    BY DEF Init, Owners, ServedOnce, Owed
  <2>7. Held
    BY DEF Init, Held, IsConnecting
  <2>8. AloneInStart
    BY DEF Init, AloneInStart, Starting
  <2>9. QED
    BY <2>4, <2>5, <2>6, <2>7, <2>8 DEF IInv
<1>2. IInv /\ [Next]_vars => IInv'
  <2> SUFFICES ASSUME IInv, [Next]_vars PROVE IInv'
    OBVIOUS
  <2>1. ASSUME NEW k \in Conn, CoreSteps(k) \/ AppSteps(k) \/ Connected(k) \/ Deliver(k)
        PROVE  IInv'
    <3>1. TypeOK'
      BY <2>1, CoreType, AppEffect, SendEffect, TakeEffect DEF IInv, CoreSteps, AppSteps
    <3>2. EmitterInv' /\ Owners' /\ Held' /\ ServedOnce' /\ AloneInStart'
      BY <2>1, EmitterStep, HeldStep, ServedStep, AloneStep DEF IInv
    <3>3. Owed'
      BY <2>1, <3>1, OwedStep DEF IInv, Owed
    <3>4. QED
      BY <3>1, <3>2, <3>3 DEF IInv
  <2>2. CASE UNCHANGED vars
    <3>1. UNCHANGED <<emitter, listeners, buf, startLog, reads, client, sock, last>>
      BY <2>2 DEF vars
    <3>2. TypeOK'
      BY <3>1, Zenon DEF IInv, TypeOK, emitter, startLog, client
    <3>3. EmitterInv' /\ Owners' /\ Held'
      BY <3>1, Zenon DEF IInv, EmitterInv, Owners, Held, IsConnecting, emitter, client
    <3>4. ServedOnce' /\ AloneInStart'
      BY <3>1, Zenon DEF IInv, ServedOnce, AloneInStart, Starting, startLog, client
    <3>5. Owed'
      BY <3>1, SettledStays DEF IInv, Owed, OwnBuffer, emitter, client
    <3>6. QED
      BY <3>2, <3>3, <3>4, <3>5 DEF IInv
  <2>3. CASE LogCall \/ Receive \/ Uninstall \/ ClosePage \/ Freeze \/ Thaw
    BY <2>1, <2>3, LogAssumption DEF CoreSteps, AppSteps
  <2>4. QED
    BY <2>1, <2>2, <2>3 DEF Next, CoreSteps, AppSteps
<1>3. QED
  BY <1>1, <1>2, PTL DEF Spec

\* The variables keep their types: no channel and no socket holds more than it
\* has room for.
THEOREM TypeCorrect == Spec => []TypeOK
<1>1. IInv => TypeOK
  BY DEF IInv
<1>2. QED
  BY <1>1, Invariant, PTL

\* A subscription that is its own only reader repeats and reorders nothing, and
\* loses only the entries below the level and those with an "EOF" in their text
\* (hub.go:394-406, SocketProxyService.ets:356-370), however long its observer is
\* suspended.
THEOREM LogIsComplete == Spec => []NothingLost
<1>1. TypeOK /\ Owed => NothingLost
  <2> SUFFICES ASSUME TypeOK, Owed, NEW k \in listeners,
                      reads[k] = k, conn[k].at = "open", \A j \in Conn \ {k} : reads[j] # k
               PROVE  Completes(Coming(k), last[k], entries)
    BY DEF NothingLost
  <2>1. Settled(k)
    BY DEF Owed, OwnBuffer
  <2>2. QED
    BY <2>1 DEF Settled
<1>2. IInv => TypeOK /\ Owed
  BY DEF IInv
<1>3. QED
  BY <1>1, <1>2, Invariant, PTL

\* Requests that are served one after the other leave one subscription, and it
\* has its reader or is about to get it.
THEOREM OneSubscription == Spec => []NoOrphan
<1>1. TypeOK /\ AloneInStart => NoOrphan
  <2> SUFFICES ASSUME TypeOK, AloneInStart, ~overlap, NEW k \in listeners
               PROVE  listeners = {k} /\ (reads[k] = k \/ start[k] = "subscribed")
    BY Zenon DEF NoOrphan
  <2>1. /\ (\A j \in Conn : start[j] \notin {"none yet", "subscribed"}) =>
             /\ listeners = {logSubscriber} \ {NoConn}
             /\ logSubscriber # NoConn => reads[logSubscriber] = logSubscriber
        /\ \A j \in Conn : /\ start[j] = "none yet" => listeners = {}
                           /\ start[j] = "subscribed" => listeners = {j}
    BY Zenon DEF AloneInStart
  <2>2. QED
    BY <2>1
<1>2. IInv => TypeOK /\ AloneInStart
  BY DEF IInv
<1>3. QED
  BY <1>1, <1>2, Invariant, PTL

\* Who overtakes no opening of its own leaks no descriptor and no connection.
THEOREM NothingLeaks == Spec => []NoLeak
<1>1. Held => NoLeak
  BY Zenon DEF Held, NoLeak
<1>2. IInv => Held
  BY DEF IInv
<1>3. QED
  BY <1>1, <1>2, Invariant, PTL
=============================================================================
