-------------------------- MODULE GlobalModeProofs --------------------------
(***************************************************************************)
(* For any clients, profiles and groups, the core of CoreConfig implements *)
(* CoreApi: every request takes effect at one moment. The moment is the    *)
(* end of applyConfig or of handleChangeProxy; between the two halves of   *)
(* applyConfig the lock hides that the core has the groups and not yet the *)
(* selections.                                                             *)
(*                                                                         *)
(* On that rests what GlobalMode promises of the pages and of a restart:   *)
(* the handlers of the UI process, one at a time, take the core step by    *)
(* step to what a load of the saved choices makes of it.                   *)
(***************************************************************************)
EXTENDS GlobalMode, FiniteSetTheorems, SequenceTheorems, WellFoundedInduction, TLAPS

\* runLock is held by the one whose goroutine stands between lock and unlock.
LockHeld == \A c \in Client : handler[c] \in {"applied", "changing", "stuck"} <=> runLock = c

\* What a goroutine does fits the request it has.
RequestFits ==
    \A c \in Client :
        /\ handler[c] \in {"sent", "decorated", "applied", "changing"} =>
              request[c] \in Load \cup Change
        /\ handler[c] \in {"decorated", "applied"} =>
              request[c] \in Load /\ outcome[c] \in Readings
        /\ handler[c] = "changing" => request[c] \in Change

\* Loads that are under way together have met.
Meets ==
    \A c, d \in Client : Pending[c] \in Load /\ Pending[d] \in Load => Pending[d] \in met[c]

ParamsOf(r) == [patch |-> r.patch, picks |-> r.picks]

\* configParams is that of a load which each load past its decoration has met.
ParamsMet ==
    \A c \in Client : handler[c] \in {"decorated", "applied"} =>
        \E r \in met[c] : configParams = ParamsOf(r)

\* A core with groups and no selections comes of a load that was no patch.
HalfApplied ==
    \A c \in Client : handler[c] = "applied" =>
        /\ core = AfterApply(request[c], outcome[c])
        /\ \E r \in met[c] : ~r.patch

CoreInv == CoreTypeOK /\ LockHeld /\ RequestFits /\ Meets /\ ParamsMet /\ HalfApplied

-----------------------------------------------------------------------------

(* The operators of CoreState keep the types.                              *)

LEMMA FreshType == Fresh \in Core /\ NoPicks \in [Selectors -> Names]
BY DEF Fresh, Core, Modes, NoPicks, Names

LEMMA EntryType ==
    ASSUME NEW p \in Profile \cup {NoProfile}
    PROVE  /\ DOMAIN Config[p] \subseteq Nat
           /\ \A i \in DOMAIN Config[p] :
                Config[p][i].name \in Group /\ Config[p][i].proxies \in Seq(Node)
           /\ \A e \in ElementsOf(Config[p]) :
                e.name \in Group /\ e.proxies \in Seq(Node) \ {<<>>}
<1> DEFINE Entry == [name : Group, proxies : Seq(Node) \ {<<>>}]
<1>1. Config[p] \in Seq(Entry)
  BY ConfigAssumption
<1>2. \A e \in Entry : e.name \in Group /\ e.proxies \in Seq(Node) \ {<<>>}
  OBVIOUS
<1> HIDE DEF Entry
<1>3. /\ DOMAIN Config[p] \subseteq Nat
      /\ \A i \in DOMAIN Config[p] : Config[p][i] \in Entry
  BY <1>1
<1> QED BY <1>2, <1>3 DEF ElementsOf

\* A group has nodes, and so a first one.
LEMMA MembersType ==
    ASSUME NEW p \in Profile \cup {NoProfile}, NEW g \in GroupsOf(p)
    PROVE  /\ ElementsOf(ProxiesOf(p, g)) \subseteq Node
           /\ ProxiesOf(p, g)[1] \in Node /\ g \in Group
           /\ ProxiesOf(p, g) \in Seq(Node) \ {<<>>}
           /\ ProxiesOf(p, g)[1] \in MembersOf(p, g)
<1>1. \A e \in ElementsOf(Config[p]) : e.name \in Group /\ e.proxies \in Seq(Node) \ {<<>>}
  BY EntryType
<1>2. PICK e \in ElementsOf(Config[p]) : e.name = g
  BY DEF GroupsOf
<1>3. ProxiesOf(p, g) \in Seq(Node) \ {<<>>}
  BY <1>1, <1>2 DEF ProxiesOf
<1>4. g \in Group /\ g # "GLOBAL"
  BY <1>1, <1>2, NamesAssumption
<1>5. 1 \in DOMAIN ProxiesOf(p, g) /\ \A i \in DOMAIN ProxiesOf(p, g) : ProxiesOf(p, g)[i] \in Node
  BY <1>3, EmptySeq
<1> QED BY <1>3, <1>4, <1>5 DEF ElementsOf, MembersOf

LEMMA AllAliveType ==
    ASSUME NEW p \in Profile \cup {NoProfile}
    PROVE  AllAlive(p) \in Health
BY MembersType DEF AllAlive, Health

\* A url-test group takes one of its nodes.
LEMMA FastestType ==
    ASSUME NEW k \in Core, NEW dead, NEW g \in GroupsOf(k.px)
    PROVE  Fastest(k, dead, g) \subseteq Node /\ Fastest(k, dead, g) # {}
<1>1. k.px \in Profile \cup {NoProfile}
  BY DEF Core
<1>2. g # "GLOBAL"
  BY <1>1, MembersType, NamesAssumption
<1> QED BY <1>1, <1>2, MembersType DEF Fastest, MembersOf

LEMMA SettleType ==
    ASSUME health \in Health, NEW groups, Settle(groups)
    PROVE  health' \in Health
<1>1. PICK fast \in [groups \cap URLTest -> Node] :
         health' = [health EXCEPT
            !.forgot = @ \ groups,
            !.fast = [g \in URLTest |-> IF g \in groups THEN fast[g] ELSE @[g]]]
  BY DEF Settle
<1> DEFINE settled == [g \in URLTest |-> IF g \in groups THEN fast[g] ELSE health.fast[g]]
<1>2. settled \in [URLTest -> Node \cup {""}]
  <2>1. health.fast \in [URLTest -> Node \cup {""}]
    BY DEF Health
  <2>2. ASSUME NEW g \in URLTest PROVE settled[g] \in Node \cup {""}
    <3>1. CASE g \in groups
      BY <3>1
    <3>2. CASE g \notin groups
      BY <2>1, <3>2
    <3> QED BY <3>1, <3>2
  <2> QED BY <2>2
<1>3. health' = [health EXCEPT !.forgot = health.forgot \ groups, !.fast = settled]
  BY <1>1
<1> HIDE DEF settled
<1> QED BY <1>2, <1>3 DEF Health

LEMMA AfterApplyType ==
    ASSUME NEW r \in Load, NEW reading \in Readings
    PROVE  AfterApply(r, reading) \in Core
BY FreshType DEF AfterApply, Core, PxOf, ModeOf, Load, Modes

LEMMA AfterPatchType ==
    ASSUME NEW k \in Core, NEW r \in Load, NEW reading \in Readings
    PROVE  AfterPatch(k, r, reading) \in Core
BY DEF AfterPatch, Core, ModeOf, Load, Modes

LEMMA AfterSelectType ==
    ASSUME NEW k \in Core, NEW picks \in [Selectors -> Names]
    PROVE  AfterSelect(k, picks) \in Core
BY DEF AfterSelect, Core

LEMMA AfterChangeType ==
    ASSUME NEW k \in Core, NEW r \in Change
    PROVE  AfterChange(k, r) \in Core
<1>1. r.name \in Names /\ r.group \in Selectors
  BY DEF Change
<1>2. [k.sel EXCEPT ![r.group] = r.name] \in [Selectors -> Names]
  BY <1>1 DEF Core
<1> QED BY <1>2 DEF AfterChange, Core

LEMMA LoadParams == ASSUME NEW r \in Load PROVE r.patch \in BOOLEAN /\ r.picks \in [Selectors -> Names]
BY DEF Load

\* Asking only adds to what the loads have met.
LEMMA MeetsGrow ==
    ASSUME CoreTypeOK, NEW c \in Client, NEW r \in Load \cup Change, Ask(c, r),
           Pending[c] = NoRequest
    PROVE  /\ met' \in [Client -> SUBSET Load]
           /\ \A d \in Client \ {c} : met[d] \subseteq met'[d]
           /\ r \in Load => r \in met'[c]
           /\ \A d \in Client \ {c} : Pending[d] \in Load /\ r \in Load =>
                 Pending[d] \in met'[c] /\ r \in met'[d]
<1> DEFINE loading == {d \in DOMAIN Pending : Pending[d] \in Load}
<1>1. DOMAIN Pending = Client
  BY DEF Pending
<1>2. met' = [d \in Client |->
            IF r \notin Load THEN met[d]
            ELSE IF d = c THEN {r} \cup {Pending[e] : e \in loading}
            ELSE IF d \in loading THEN met[d] \cup {r} ELSE met[d]]
  BY <1>1 DEF Ask, MeetsAfter
<1>3. {Pending[e] : e \in loading} \subseteq Load
  OBVIOUS
<1>4. met \in [Client -> SUBSET Load]
  BY DEF CoreTypeOK
<1> HIDE DEF loading
<1>5. met' \in [Client -> SUBSET Load]
  BY <1>2, <1>3, <1>4
<1>6. \A d \in Client \ {c} : met[d] \subseteq met'[d]
  BY <1>2, <1>4
<1>7. r \in Load => r \in met'[c]
  BY <1>2
<1>8. ASSUME NEW d \in Client \ {c}, Pending[d] \in Load, r \in Load
      PROVE  Pending[d] \in met'[c] /\ r \in met'[d]
  <2>1. d \in loading
    BY <1>1, <1>8 DEF loading
  <2> QED BY <1>2, <1>8, <2>1
<1> QED BY <1>5, <1>6, <1>7, <1>8

-----------------------------------------------------------------------------

(* The invariant, step by step.                                            *)

LEMMA CoreInitInv == CoreInit => CoreInv
<1> SUFFICES ASSUME CoreInit PROVE CoreInv
  OBVIOUS
<1>1. CoreTypeOK
  BY FreshType, AllAliveType DEF CoreInit, CoreTypeOK, NoParams, Idle
<1>2. \A c \in Client : handler[c] = "idle"
  BY DEF CoreInit, Idle
<1>3. \A c \in Client : Pending[c] = NoRequest
  BY <1>2 DEF Pending
<1> QED BY <1>1, <1>2, <1>3, ClientAssumption
        DEF CoreInit, CoreInv, LockHeld, RequestFits, Meets, ParamsMet, HalfApplied

LEMMA DieInv == Die => CoreInv'
<1> SUFFICES ASSUME Die PROVE CoreInv'
  OBVIOUS
<1>1. CoreTypeOK'
  BY FreshType, AllAliveType DEF Die, CoreTypeOK, NoParams, Idle
<1>2. \A c \in Client : handler'[c] = "idle"
  BY DEF Die, Idle
<1>3. \A c \in Client : Pending'[c] = NoRequest
  BY <1>2 DEF Pending
<1> QED BY <1>1, <1>2, <1>3, ClientAssumption
        DEF Die, CoreInv, LockHeld, RequestFits, Meets, ParamsMet, HalfApplied

LEMMA AskInv ==
    ASSUME CoreInv, NEW c \in Client, NEW r \in Load \cup Change, Ask(c, r)
    PROVE  CoreInv'
<1>1. /\ handler[c] = "idle" /\ handler' = [handler EXCEPT ![c] = "sent"]
      /\ request' = [request EXCEPT ![c] = r]
      /\ UNCHANGED <<core, health, configParams, runLock, outcome, before>>
  BY DEF Ask, At
<1>2. Pending[c] = NoRequest
  BY <1>1 DEF Pending
<1>3. /\ met' \in [Client -> SUBSET Load]
      /\ \A d \in Client \ {c} : met[d] \subseteq met'[d]
      /\ r \in Load => r \in met'[c]
      /\ \A d \in Client \ {c} : Pending[d] \in Load /\ r \in Load =>
            Pending[d] \in met'[c] /\ r \in met'[d]
  BY <1>2, MeetsGrow DEF CoreInv
<1>4. CoreTypeOK'
  BY <1>1, <1>3 DEF CoreInv, CoreTypeOK
<1>5. /\ \A d \in Client \ {c} : handler'[d] = handler[d] /\ request'[d] = request[d]
      /\ handler'[c] = "sent" /\ request'[c] = r
  BY <1>1 DEF CoreInv, CoreTypeOK
<1>6. \A d \in Client \ {c} : Pending'[d] = Pending[d]
  BY <1>5 DEF Pending
<1>7. Pending'[c] = r
  BY <1>5 DEF Pending
<1>8. LockHeld' /\ RequestFits'
  BY <1>1, <1>5 DEF CoreInv, LockHeld, RequestFits
<1>9. Meets'
  <2> SUFFICES ASSUME NEW d \in Client, NEW e \in Client, Pending'[d] \in Load, Pending'[e] \in Load
               PROVE  Pending'[e] \in met'[d]
    BY DEF Meets
  <2>1. CASE d = c /\ e = c
    BY <2>1, <1>3, <1>7
  <2>2. CASE d = c /\ e # c
    BY <2>2, <1>3, <1>6, <1>7
  <2>3. CASE d # c /\ e = c
    BY <2>3, <1>3, <1>6, <1>7
  <2>4. CASE d # c /\ e # c
    BY <2>4, <1>3, <1>6 DEF CoreInv, Meets
  <2> QED BY <2>1, <2>2, <2>3, <2>4
<1>10. ParamsMet' /\ HalfApplied'
  <2> SUFFICES ASSUME NEW d \in Client, handler'[d] \in {"decorated", "applied"}
               PROVE  /\ \E q \in met'[d] : configParams' = ParamsOf(q)
                      /\ handler'[d] = "applied" =>
                           /\ core' = AfterApply(request'[d], outcome'[d])
                           /\ \E q \in met'[d] : ~q.patch
    BY DEF ParamsMet, HalfApplied
  <2>1. d # c /\ handler[d] = handler'[d] /\ request'[d] = request[d]
    BY <1>5
  <2>2. met[d] \subseteq met'[d]
    BY <2>1, <1>3
  <2> QED BY <1>1, <2>1, <2>2 DEF CoreInv, ParamsMet, HalfApplied
<1> QED BY <1>4, <1>8, <1>9, <1>10 DEF CoreInv

LEMMA DecorateInv ==
    ASSUME CoreInv, NEW c \in Client, NEW reading \in Readings, Decorate(c, reading)
    PROVE  CoreInv'
<1>1. /\ request[c] \in Load
      /\ handler[c] = "sent" /\ handler' = [handler EXCEPT ![c] = "decorated"]
      /\ configParams' = ParamsOf(request[c])
      /\ outcome' = [outcome EXCEPT ![c] = reading]
      /\ UNCHANGED <<core, health, runLock, request, before, met>>
  BY DEF Decorate, At, ParamsOf
<1>2. CoreTypeOK'
  BY <1>1, LoadParams DEF CoreInv, CoreTypeOK, ParamsOf
<1>3. /\ \A d \in Client \ {c} : handler'[d] = handler[d] /\ outcome'[d] = outcome[d]
      /\ handler'[c] = "decorated" /\ outcome'[c] = reading
  BY <1>1 DEF CoreInv, CoreTypeOK
<1>4. \A d \in Client : Pending'[d] = Pending[d]
  BY <1>1, <1>3 DEF Pending
<1>5. LockHeld' /\ RequestFits'
  BY <1>1, <1>3 DEF CoreInv, LockHeld, RequestFits
<1>6. Meets'
  BY <1>1, <1>4 DEF CoreInv, Meets
<1>7. ParamsMet'
  <2> SUFFICES ASSUME NEW d \in Client, handler'[d] \in {"decorated", "applied"}
               PROVE  request[c] \in met[d]
    BY <1>1 DEF ParamsMet
  <2>1. Pending[c] = request[c]
    BY <1>1 DEF Pending
  <2>2. Pending[d] \in Load
    BY <1>1, <1>3, <2>1 DEF Pending, CoreInv, RequestFits
  <2> QED BY <1>1, <2>1, <2>2 DEF CoreInv, Meets
<1>8. HalfApplied'
  BY <1>1, <1>3 DEF CoreInv, HalfApplied
<1> QED BY <1>2, <1>5, <1>6, <1>7, <1>8 DEF CoreInv

LEMMA ApplyConfigInv ==
    ASSUME CoreInv, NEW c \in Client, ApplyConfig(c)
    PROVE  CoreInv'
<1>1. /\ runLock = NoClient /\ runLock' = c
      /\ handler[c] = "decorated" /\ handler' = [handler EXCEPT ![c] = "applied"]
      /\ ~configParams.patch
      /\ before' = core /\ core' = AfterApply(request[c], outcome[c])
      /\ health' = AllAlive(core'.px)
      /\ UNCHANGED <<configParams, request, outcome, met>>
  BY DEF ApplyConfig, At
<1>2. request[c] \in Load /\ outcome[c] \in Readings
  BY <1>1 DEF CoreInv, RequestFits
<1>3. CoreTypeOK'
  <2>1. core' \in Core
    BY <1>1, <1>2, AfterApplyType
  <2>2. core'.px \in Profile \cup {NoProfile}
    BY <2>1 DEF Core
  <2> QED BY <1>1, <2>1, <2>2, AllAliveType DEF CoreInv, CoreTypeOK
<1>4. /\ \A d \in Client \ {c} : handler'[d] = handler[d]
      /\ handler'[c] = "applied"
  BY <1>1 DEF CoreInv, CoreTypeOK
<1>5. \A d \in Client : handler[d] \notin {"applied", "changing", "stuck"}
  BY <1>1, ClientAssumption DEF CoreInv, LockHeld
<1>6. \A d \in Client : Pending'[d] = Pending[d]
  BY <1>1, <1>4 DEF Pending
<1>7. LockHeld' /\ RequestFits'
  BY <1>1, <1>2, <1>4, <1>5 DEF CoreInv, LockHeld, RequestFits
<1>8. Meets'
  BY <1>1, <1>6 DEF CoreInv, Meets
<1>9. ParamsMet'
  BY <1>1, <1>4 DEF CoreInv, ParamsMet
<1>10. \E r \in met[c] : ~r.patch
  BY <1>1 DEF CoreInv, ParamsMet, ParamsOf
<1>11. HalfApplied'
  BY <1>1, <1>4, <1>5, <1>10 DEF HalfApplied
<1> QED BY <1>3, <1>7, <1>8, <1>9, <1>11 DEF CoreInv

LEMMA LockChangeInv ==
    ASSUME CoreInv, NEW c \in Client, LockChange(c)
    PROVE  CoreInv'
<1>1. /\ runLock = NoClient /\ runLock' = c
      /\ request[c] \in Change
      /\ handler[c] = "sent" /\ handler' = [handler EXCEPT ![c] = "changing"]
      /\ UNCHANGED <<core, health, configParams, request, outcome, before, met>>
  BY DEF LockChange, At
<1>2. CoreTypeOK'
  BY <1>1 DEF CoreInv, CoreTypeOK
<1>3. /\ \A d \in Client \ {c} : handler'[d] = handler[d]
      /\ handler'[c] = "changing"
  BY <1>1 DEF CoreInv, CoreTypeOK
<1>4. \A d \in Client : handler[d] \notin {"applied", "changing", "stuck"}
  BY <1>1, ClientAssumption DEF CoreInv, LockHeld
<1>5. \A d \in Client : Pending'[d] = Pending[d]
  BY <1>1, <1>3 DEF Pending
<1>6. LockHeld' /\ RequestFits'
  BY <1>1, <1>3, <1>4 DEF CoreInv, LockHeld, RequestFits
<1>7. Meets'
  BY <1>1, <1>5 DEF CoreInv, Meets
<1>8. ParamsMet' /\ HalfApplied'
  BY <1>1, <1>3 DEF CoreInv, ParamsMet, HalfApplied
<1> QED BY <1>2, <1>6, <1>7, <1>8 DEF CoreInv

\* The three steps that answer a request: the client leaves what is under way.
LEMMA AnswerInv ==
    ASSUME CoreInv, NEW c \in Client,
           handler' = [handler EXCEPT ![c] = "answered"],
           request' = request, configParams' = configParams,
           met' = [met EXCEPT ![c] = {}],
           runLock' = NoClient, runLock \in {NoClient, c},
           \A d \in Client \ {c} : outcome'[d] = outcome[d],
           CoreTypeOK'
    PROVE  CoreInv'
<1>1. /\ \A d \in Client \ {c} : handler'[d] = handler[d] /\ met'[d] = met[d]
      /\ handler'[c] = "answered"
  BY DEF CoreInv, CoreTypeOK
<1>2. \A d \in Client \ {c} : handler[d] \notin {"applied", "changing", "stuck"}
  BY ClientAssumption DEF CoreInv, LockHeld
<1>3. /\ \A d \in Client \ {c} : Pending'[d] = Pending[d]
      /\ Pending'[c] = NoRequest
  BY <1>1 DEF Pending
<1>4. LockHeld' /\ RequestFits'
  BY <1>1, <1>2, ClientAssumption DEF CoreInv, LockHeld, RequestFits
<1>5. Meets'
  BY <1>1, <1>3, ClientAssumption DEF CoreInv, Meets
<1>6. ParamsMet' /\ HalfApplied'
  BY <1>1, <1>2 DEF CoreInv, ParamsMet, HalfApplied
<1> QED BY <1>4, <1>5, <1>6 DEF CoreInv

LEMMA ApplyPatchInv ==
    ASSUME CoreInv, NEW c \in Client, ApplyPatch(c)
    PROVE  CoreInv'
<1>1. /\ runLock = NoClient /\ runLock' = NoClient
      /\ handler[c] = "decorated" /\ handler' = [handler EXCEPT ![c] = "answered"]
      /\ core' = AfterPatch(core, request[c], outcome[c])
      /\ met' = [met EXCEPT ![c] = {}]
      /\ UNCHANGED <<health, configParams, request, outcome, before>>
  BY DEF ApplyPatch, At
<1>2. request[c] \in Load /\ outcome[c] \in Readings
  BY <1>1 DEF CoreInv, RequestFits
<1>3. CoreTypeOK'
  BY <1>1, <1>2, AfterPatchType DEF CoreInv, CoreTypeOK
<1> QED BY <1>1, <1>3, AnswerInv

LEMMA PatchSelectGroupInv ==
    ASSUME CoreInv, NEW c \in Client, PatchSelectGroup(c)
    PROVE  CoreInv'
<1>1. /\ runLock' = NoClient
      /\ handler[c] = "applied" /\ handler' = [handler EXCEPT ![c] = "answered"]
      /\ core' = AfterSelect(core, configParams.picks) /\ before' = Fresh
      /\ met' = [met EXCEPT ![c] = {}]
      /\ UNCHANGED <<configParams, request, outcome>>
  BY DEF PatchSelectGroup, At
<1>2. runLock = c
  BY <1>1 DEF CoreInv, LockHeld
<1>3. core' \in Core
  BY <1>1, AfterSelectType DEF CoreInv, CoreTypeOK
<1>4. CoreTypeOK'
  <2>1. health' \in Health
    BY SettleType DEF PatchSelectGroup, CoreInv, CoreTypeOK
  <2> QED BY <1>1, <1>3, <2>1, FreshType DEF CoreInv, CoreTypeOK
<1> QED BY <1>1, <1>2, <1>4, AnswerInv

LEMMA ChangeProxyInv ==
    ASSUME CoreInv, NEW c \in Client, ChangeProxy(c)
    PROVE  CoreInv'
<1>1. /\ runLock' = NoClient
      /\ handler[c] = "changing" /\ handler' = [handler EXCEPT ![c] = "answered"]
      /\ core' = AfterChange(core, request[c])
      /\ outcome' = [outcome EXCEPT
                        ![c] = IF Accepts(core, request[c]) THEN "good" ELSE "rejected"]
      /\ met' = [met EXCEPT ![c] = {}]
      /\ UNCHANGED <<configParams, request, before>>
  BY DEF ChangeProxy, At
<1>2. runLock = c /\ request[c] \in Change
  BY <1>1 DEF CoreInv, LockHeld, RequestFits
<1>3. core' \in Core
  BY <1>1, <1>2, AfterChangeType DEF CoreInv, CoreTypeOK
<1>4. CoreTypeOK'
  <2>1. health' \in Health
    BY SettleType DEF ChangeProxy, CoreInv, CoreTypeOK
  <2> QED BY <1>1, <1>3, <2>1 DEF CoreInv, CoreTypeOK, Readings
<1>5. \A d \in Client \ {c} : outcome'[d] = outcome[d]
  BY <1>1 DEF CoreInv, CoreTypeOK
<1> QED BY <1>1, <1>2, <1>4, <1>5, AnswerInv

\* Who waits for the lock that it holds has changed the core all the same.
LEMMA StuckInv ==
    ASSUME CoreInv, NEW c \in Client, ChangeProxyStuck(c)
    PROVE  CoreInv'
<1>1. /\ handler[c] = "changing" /\ handler' = [handler EXCEPT ![c] = "stuck"]
      /\ core' = AfterChange(core, request[c])
      /\ met' = [met EXCEPT ![c] = {}]
      /\ UNCHANGED <<configParams, runLock, request, outcome, before>>
  BY DEF ChangeProxyStuck, At
<1>2. runLock = c /\ request[c] \in Change
  BY <1>1 DEF CoreInv, LockHeld, RequestFits
<1>3. CoreTypeOK'
  <2>1. core' \in Core
    BY <1>1, <1>2, AfterChangeType DEF CoreInv, CoreTypeOK
  <2>2. health' \in Health
    BY SettleType DEF ChangeProxyStuck, CoreInv, CoreTypeOK
  <2> QED BY <1>1, <2>1, <2>2 DEF CoreInv, CoreTypeOK
<1>4. /\ \A d \in Client \ {c} : handler'[d] = handler[d] /\ met'[d] = met[d]
      /\ handler'[c] = "stuck"
  BY <1>1 DEF CoreInv, CoreTypeOK
<1>5. /\ \A d \in Client \ {c} : Pending'[d] = Pending[d]
      /\ Pending'[c] = NoRequest
  BY <1>1, <1>4 DEF Pending
<1>6. LockHeld' /\ RequestFits'
  BY <1>1, <1>2, <1>4 DEF CoreInv, LockHeld, RequestFits
<1>7. Meets'
  BY <1>4, <1>5, ClientAssumption DEF CoreInv, Meets
<1>8. ParamsMet' /\ HalfApplied'
  <2>1. \A d \in Client : handler[d] # "applied"
    BY <1>1, <1>2 DEF CoreInv, LockHeld
  <2> QED BY <1>1, <1>4, <2>1 DEF CoreInv, ParamsMet, HalfApplied
<1> QED BY <1>3, <1>6, <1>7, <1>8 DEF CoreInv

\* Nodes and groups by themselves change only the health.
LEMMA HealthInv ==
    ASSUME CoreInv, (\E n \in Node : HealthCheck(n)) \/ (\E g \in Group : Look(g))
    PROVE  CoreInv'
<1>1. UNCHANGED <<core, configParams, runLock, handler, request, outcome, before, met>>
  BY DEF HealthCheck, Look, DropSelection, FindFastest
<1>2. health' \in Health
  <2>1. health \in Health /\ core \in Core
    BY DEF CoreInv, CoreTypeOK
  <2>2. ASSUME NEW n \in Node, HealthCheck(n) PROVE health' \in Health
    BY <2>1, <2>2 DEF HealthCheck, Health
  <2>3. ASSUME NEW g \in Group, DropSelection(g) PROVE health' \in Health
    BY <2>1, <2>3 DEF DropSelection, Health
  <2>4. ASSUME NEW g \in Group, FindFastest(g) PROVE health' \in Health
    <3>1. PICK n \in Fastest(core, health.dead, g) : health' = [health EXCEPT !.fast[g] = n]
      BY <2>4 DEF FindFastest
    <3>2. n \in Node /\ g \in URLTest
      BY <2>1, <2>4, FastestType DEF FindFastest
    <3> QED BY <2>1, <3>1, <3>2 DEF Health
  <2> QED BY <2>2, <2>3, <2>4 DEF Look
<1> QED BY <1>1, <1>2 DEF CoreInv, CoreTypeOK, LockHeld, RequestFits, Meets, ParamsMet, HalfApplied,
                          Pending

LEMMA ForgetInv ==
    ASSUME CoreInv, NEW c \in Client, Forget(c)
    PROVE  CoreInv'
<1>1. /\ handler[c] = "answered" /\ handler' = [handler EXCEPT ![c] = "idle"]
      /\ request' = [request EXCEPT ![c] = NoRequest]
      /\ outcome' = [outcome EXCEPT ![c] = "none"]
      /\ UNCHANGED <<core, health, configParams, runLock, before, met>>
  BY DEF Forget, At
<1>2. CoreTypeOK'
  BY <1>1 DEF CoreInv, CoreTypeOK
<1>3. /\ \A d \in Client \ {c} : /\ handler'[d] = handler[d] /\ request'[d] = request[d]
                                 /\ outcome'[d] = outcome[d]
      /\ handler'[c] = "idle"
  BY <1>1 DEF CoreInv, CoreTypeOK
<1>4. \A d \in Client : Pending'[d] = Pending[d]
  BY <1>1, <1>3 DEF Pending
<1>5. LockHeld' /\ RequestFits'
  BY <1>1, <1>3 DEF CoreInv, LockHeld, RequestFits
<1>6. Meets'
  BY <1>1, <1>4 DEF CoreInv, Meets
<1>7. ParamsMet' /\ HalfApplied'
  BY <1>1, <1>3 DEF CoreInv, ParamsMet, HalfApplied
<1> QED BY <1>2, <1>5, <1>6, <1>7 DEF CoreInv

LEMMA CoreStepInv == CoreInv /\ [CoreNext]_coreVars => CoreInv'
<1> SUFFICES ASSUME CoreInv, [CoreNext]_coreVars PROVE CoreInv'
  OBVIOUS
<1>1. CASE UNCHANGED coreVars
  BY <1>1 DEF coreVars, CoreInv, CoreTypeOK, LockHeld, RequestFits, Meets, ParamsMet,
              HalfApplied, Pending
<1>2. ASSUME NEW c \in Client, Serve(c) PROVE CoreInv'
  BY <1>2, DecorateInv, ApplyPatchInv, ApplyConfigInv, PatchSelectGroupInv, LockChangeInv,
     ChangeProxyInv, StuckInv DEF Serve
<1>3. ASSUME NEW c \in Client, NEW r \in Load \cup Change, Ask(c, r) PROVE CoreInv'
  BY <1>3, AskInv
<1> QED BY <1>1, <1>2, <1>3, ForgetInv, HealthInv, DieInv DEF CoreNext

\* For any clients, profiles and groups the variables keep their types, and no
\* step finds a request, a lock or parameters that do not belong to it.
THEOREM CoreTypeCorrect == CoreSpec => []CoreTypeOK
<1>1. CoreInv => CoreTypeOK
  BY DEF CoreInv
<1> QED BY CoreInitInv, CoreStepInv, <1>1, PTL DEF CoreSpec

-----------------------------------------------------------------------------

(* The refinement, step by step.                                           *)

\* CoreApi has the operators of CoreState that CoreConfig has.
LEMMA SameRequests == Api!Fresh = Fresh /\ Api!Load = Load /\ Api!Change = Change /\ Api!Readings = Readings
BY DEF Api!Fresh, Fresh, Api!NoPicks, NoPicks, Api!Selectors, Selectors, Api!Load, Load,
       Api!Modes, Modes, Api!Names, Names, Api!Change, Change, Api!Readings, Readings

LEMMA SameLoads ==
    ASSUME NEW k, NEW r, NEW reading
    PROVE  /\ Api!AfterPatch(k, r, reading) = AfterPatch(k, r, reading)
           /\ Api!AfterApply(r, reading) = AfterApply(r, reading)
BY DEF Api!AfterPatch, AfterPatch, Api!AfterApply, AfterApply, Api!ModeOf, ModeOf,
       Api!PxOf, PxOf, Api!NoPicks, NoPicks, Api!Selectors, Selectors

LEMMA SameMembers ==
    ASSUME NEW p, NEW g
    PROVE  Api!MembersOf(p, g) = MembersOf(p, g) /\ Api!CanSelect(p, g) = CanSelect(p, g)
BY DEF Api!MembersOf, MembersOf, Api!NodesOf, NodesOf, Api!GroupsOf, GroupsOf,
       Api!ElementsOf, ElementsOf, Api!ProxiesOf, ProxiesOf, Api!CanSelect, CanSelect

LEMMA SameSelect ==
    ASSUME NEW k, NEW picks
    PROVE  Api!AfterSelect(k, picks) = AfterSelect(k, picks)
BY SameMembers DEF Api!AfterSelect, AfterSelect, Api!Selectors, Selectors

LEMMA SameChange ==
    ASSUME NEW k, NEW r
    PROVE  Api!AfterChange(k, r) = AfterChange(k, r)
BY SameMembers DEF Api!AfterChange, AfterChange, Api!Accepts, Accepts

LEMMA SameMeets ==
    ASSUME NEW pending, NEW m, NEW c, NEW r
    PROVE  Api!MeetsAfter(pending, m, c, r) = MeetsAfter(pending, m, c, r)
BY SameRequests DEF Api!MeetsAfter, MeetsAfter

\* Nobody is halfway while somebody else, or nobody, holds the lock.
LEMMA WholeCore ==
    ASSUME CoreInv, \A c \in Client : handler[c] # "applied"
    PROVE  Effective = core
BY DEF Effective

LEMMA InitRefines == CoreInit => Api!Init
<1> SUFFICES ASSUME CoreInit PROVE Api!Init
  OBVIOUS
<1>1. \A c \in Client : handler[c] = "idle"
  BY DEF CoreInit, Idle
<1>2. Effective = Fresh
  BY <1>1 DEF CoreInit, Effective
<1>3. Pending = [c \in Client |-> NoRequest]
  BY <1>1 DEF Pending
<1> QED BY <1>2, <1>3, SameRequests DEF CoreInit, Api!Init

LEMMA DieRefines == Die => Api!Die
<1> SUFFICES ASSUME Die PROVE Api!Die
  OBVIOUS
<1>1. \A c \in Client : handler'[c] = "idle"
  BY DEF Die, Idle
<1>2. Effective' = Fresh
  BY <1>1 DEF Die, Effective
<1>3. Pending' = [c \in Client |-> NoRequest]
  BY <1>1 DEF Pending
<1> QED BY <1>2, <1>3, SameRequests DEF Die, Api!Die

LEMMA AskRefines ==
    ASSUME CoreInv, NEW c \in Client, NEW r \in Load \cup Change, Ask(c, r)
    PROVE  Api!Ask(c)
<1>1. /\ handler[c] = "idle" /\ handler' = [handler EXCEPT ![c] = "sent"]
      /\ request' = [request EXCEPT ![c] = r]
      /\ met' = MeetsAfter(Pending, met, c, r)
      /\ UNCHANGED <<core, before>>
  BY DEF Ask, At
<1>2. /\ \A d \in Client \ {c} : handler'[d] = handler[d] /\ request'[d] = request[d]
      /\ handler'[c] = "sent" /\ request'[c] = r
  BY <1>1 DEF CoreInv, CoreTypeOK
<1>3. Pending[c] = NoRequest /\ Pending'[c] = r
  BY <1>1, <1>2 DEF Pending
<1>4. Pending' = [Pending EXCEPT ![c] = Pending'[c]]
  BY <1>2 DEF Pending
<1>5. Effective' = Effective
  <2>1. \A d \in Client : handler'[d] = "applied" <=> handler[d] = "applied"
    BY <1>1, <1>2
  <2> QED BY <1>1, <2>1 DEF Effective
<1> QED BY <1>1, <1>3, <1>4, <1>5, SameRequests, SameMeets DEF Api!Ask

\* Decorating, locking and applying the groups are not seen.
LEMMA InnerRefines ==
    ASSUME CoreInv, NEW c \in Client,
           \/ \E reading \in Readings : Decorate(c, reading)
           \/ LockChange(c) \/ ApplyConfig(c) \/ Forget(c)
    PROVE  UNCHANGED <<Effective, Pending, met>>
<1>1. CASE \E reading \in Readings : Decorate(c, reading)
  <2>1. /\ handler[c] = "sent" /\ handler' = [handler EXCEPT ![c] = "decorated"]
        /\ UNCHANGED <<core, request, before, met>>
    BY <1>1 DEF Decorate, At
  <2>2. \A d \in Client : \/ handler'[d] = handler[d]
                          \/ d = c /\ handler'[d] = "decorated"
    BY <2>1 DEF CoreInv, CoreTypeOK
  <2> QED BY <2>1, <2>2 DEF Effective, Pending
<1>2. CASE LockChange(c)
  <2>1. /\ handler[c] = "sent" /\ handler' = [handler EXCEPT ![c] = "changing"]
        /\ UNCHANGED <<core, request, before, met>>
    BY <1>2 DEF LockChange, At
  <2>2. \A d \in Client : \/ handler'[d] = handler[d]
                          \/ d = c /\ handler'[d] = "changing"
    BY <2>1 DEF CoreInv, CoreTypeOK
  <2> QED BY <2>1, <2>2 DEF Effective, Pending
<1>3. CASE ApplyConfig(c)
  <2>1. /\ handler[c] = "decorated" /\ handler' = [handler EXCEPT ![c] = "applied"]
        /\ runLock = NoClient /\ before' = core
        /\ UNCHANGED <<request, met>>
    BY <1>3 DEF ApplyConfig, At
  <2>2. \A d \in Client : handler'[d] = handler[d] \/ d = c
    BY <2>1 DEF CoreInv, CoreTypeOK
  <2>3. handler'[c] = "applied"
    BY <2>1 DEF CoreInv, CoreTypeOK
  <2>4. \A d \in Client : handler[d] # "applied"
    BY <2>1, ClientAssumption DEF CoreInv, LockHeld
  <2>5. Effective' = Effective
    BY <2>1, <2>3, <2>4 DEF Effective
  <2>6. Pending' = Pending
    BY <2>1, <2>2, <2>3 DEF Pending
  <2> QED BY <2>1, <2>5, <2>6
<1>4. CASE Forget(c)
  <2>1. /\ handler[c] = "answered" /\ handler' = [handler EXCEPT ![c] = "idle"]
        /\ request' = [request EXCEPT ![c] = NoRequest]
        /\ UNCHANGED <<core, before, met>>
    BY <1>4 DEF Forget, At
  <2>2. \A d \in Client : \/ handler'[d] = handler[d] /\ request'[d] = request[d]
                          \/ d = c /\ handler'[d] = "idle"
    BY <2>1 DEF CoreInv, CoreTypeOK
  <2> QED BY <2>1, <2>2 DEF Effective, Pending
<1> QED BY <1>1, <1>2, <1>3, <1>4

\* The client whose request has taken effect is no longer pending, the others are
\* as before.
LEMMA AnswerPending ==
    ASSUME CoreInv, NEW c \in Client, NEW to \in {"answered", "stuck"},
           handler' = [handler EXCEPT ![c] = to], request' = request
    PROVE  Pending' = [Pending EXCEPT ![c] = NoRequest]
<1>1. \A d \in Client : handler'[d] = IF d = c THEN to ELSE handler[d]
  BY DEF CoreInv, CoreTypeOK
<1> QED BY <1>1 DEF Pending

LEMMA ApplyPatchRefines ==
    ASSUME CoreInv, NEW c \in Client, ApplyPatch(c)
    PROVE  Api!Serve(c)
<1>1. /\ runLock = NoClient /\ configParams.patch
      /\ handler[c] = "decorated" /\ handler' = [handler EXCEPT ![c] = "answered"]
      /\ core' = AfterPatch(core, request[c], outcome[c])
      /\ met' = [met EXCEPT ![c] = {}]
      /\ request' = request
  BY DEF ApplyPatch, At
<1>2. request[c] \in Load /\ outcome[c] \in Readings /\ Pending[c] = request[c]
  BY <1>1 DEF CoreInv, RequestFits, Pending
<1>3. \E r \in met[c] : r.patch
  BY <1>1 DEF CoreInv, ParamsMet, ParamsOf
<1>4. \A d \in Client : handler[d] # "applied" /\ handler'[d] # "applied"
  BY <1>1, ClientAssumption DEF CoreInv, LockHeld, CoreTypeOK
<1>5. Effective' = AfterPatch(Effective, Pending[c], outcome[c])
  BY <1>1, <1>2, <1>4 DEF Effective
<1>6. Pending' = [Pending EXCEPT ![c] = NoRequest]
  BY <1>1, AnswerPending
<1> QED BY <1>1, <1>2, <1>3, <1>5, <1>6, SameRequests, SameLoads DEF Api!Serve

LEMMA PatchSelectGroupRefines ==
    ASSUME CoreInv, NEW c \in Client, PatchSelectGroup(c)
    PROVE  Api!Serve(c)
<1>1. /\ handler[c] = "applied" /\ handler' = [handler EXCEPT ![c] = "answered"]
      /\ core' = AfterSelect(core, configParams.picks)
      /\ met' = [met EXCEPT ![c] = {}]
      /\ request' = request
  BY DEF PatchSelectGroup, At
<1>2. request[c] \in Load /\ outcome[c] \in Readings /\ Pending[c] = request[c]
  BY <1>1 DEF CoreInv, RequestFits, Pending
<1>3. /\ core = AfterApply(request[c], outcome[c])
      /\ \E a \in met[c] : ~a.patch
  BY <1>1 DEF CoreInv, HalfApplied
<1>4. \E b \in met[c] : configParams.picks = b.picks
  BY <1>1 DEF CoreInv, ParamsMet, ParamsOf
<1>5. \A d \in Client : handler'[d] # "applied"
  BY <1>1 DEF CoreInv, LockHeld, CoreTypeOK
<1>6. Effective' = AfterSelect(AfterApply(Pending[c], outcome[c]), configParams.picks)
  BY <1>1, <1>2, <1>3, <1>5 DEF Effective
<1>7. Pending' = [Pending EXCEPT ![c] = NoRequest]
  BY <1>1, AnswerPending
<1> QED BY <1>1, <1>2, <1>3, <1>4, <1>6, <1>7, SameRequests, SameLoads, SameSelect DEF Api!Serve

LEMMA ChangeProxyRefines ==
    ASSUME CoreInv, NEW c \in Client, ChangeProxy(c) \/ ChangeProxyStuck(c)
    PROVE  Api!Serve(c)
<1> DEFINE Changed(to) == /\ handler[c] = "changing" /\ handler' = [handler EXCEPT ![c] = to]
                          /\ core' = AfterChange(core, request[c])
                          /\ met' = [met EXCEPT ![c] = {}]
                          /\ request' = request
<1>0. PICK to \in {"answered", "stuck"} : Changed(to)
  BY DEF ChangeProxy, ChangeProxyStuck, At
<1>1. Changed(to)
  BY <1>0
<1>2. request[c] \in Change /\ Pending[c] = request[c]
  BY <1>1 DEF CoreInv, RequestFits, Pending
<1>3. \A d \in Client : handler[d] # "applied" /\ handler'[d] # "applied"
  BY <1>1 DEF CoreInv, LockHeld, CoreTypeOK
<1>4. Effective' = AfterChange(Effective, Pending[c])
  BY <1>1, <1>2, <1>3 DEF Effective
<1>5. Pending' = [Pending EXCEPT ![c] = NoRequest]
  BY <1>1, AnswerPending
<1> QED BY <1>1, <1>2, <1>4, <1>5, SameRequests, SameChange DEF Api!Serve

LEMMA StepRefines == CoreInv /\ [CoreNext]_coreVars => [Api!Next]_(Api!apiVars)
<1> SUFFICES ASSUME CoreInv, [CoreNext]_coreVars PROVE [Api!Next]_(Api!apiVars)
  OBVIOUS
<1>1. CASE UNCHANGED coreVars
  BY <1>1 DEF coreVars, Effective, Pending, Api!apiVars
<1>2. CASE Die
  BY <1>2, DieRefines DEF Api!Next
<1>3. ASSUME NEW c \in Client, NEW r \in Load \cup Change, Ask(c, r)
      PROVE  [Api!Next]_(Api!apiVars)
  BY <1>3, AskRefines DEF Api!Next
<1>4. ASSUME NEW c \in Client, Serve(c) \/ Forget(c)
      PROVE  [Api!Next]_(Api!apiVars)
  <2>1. CASE \/ \E reading \in Readings : Decorate(c, reading)
             \/ LockChange(c) \/ ApplyConfig(c) \/ Forget(c)
    BY <2>1, InnerRefines DEF Api!apiVars
  <2>2. CASE ApplyPatch(c) \/ PatchSelectGroup(c) \/ ChangeProxy(c) \/ ChangeProxyStuck(c)
    BY <2>2, ApplyPatchRefines, PatchSelectGroupRefines, ChangeProxyRefines DEF Api!Next
  <2> QED BY <1>4, <2>1, <2>2 DEF Serve
<1>5. CASE (\E n \in Node : HealthCheck(n)) \/ (\E g \in Group : Look(g))
  <2>1. UNCHANGED <<core, handler, request, before, met>>
    BY <1>5 DEF HealthCheck, Look, DropSelection, FindFastest
  <2> QED BY <2>1 DEF Effective, Pending, Api!apiVars
<1> QED BY <1>1, <1>2, <1>3, <1>4, <1>5 DEF CoreNext

\* For any clients, profiles and groups: every request takes effect at one
\* moment between being asked and being answered, with its own parameters unless
\* another load is under way with it (hub.go:88-154, common.go:324-367).
THEOREM Refines == CoreSpec => RequestsTakeEffectAtOnce
<1>1. CoreSpec => []CoreInv
  BY CoreInitInv, CoreStepInv, PTL DEF CoreSpec
<1> QED BY <1>1, InitRefines, StepRefines, PTL DEF CoreSpec, RequestsTakeEffectAtOnce, Api!Spec

-----------------------------------------------------------------------------

(* The application: what the handlers have still to do, and what the core  *)
(* has come to.                                                            *)

Endpoint == saved.picks[active]["GLOBAL"]
Holder   == FirstGroup(active, Endpoint)
IsGlobal == saved.mode \in {"", "global"}
GroupChosen == IsGlobal /\ Endpoint \in GroupsOf(active)
NodeChosen  == IsGlobal /\ Endpoint \notin GroupsOf(active) \cup {"DIRECT"} /\ Holder # ""

\* Nothing is wrong but for requests that failed.
Orderly == upset \subseteq {"failure"}

\* The requests of a handler that have not taken effect: once it has timed out,
\* the one that is under way.
Rest(u) ==
    CASE handler[u] = "idle"     -> plan[u]
      [] handler[u] = "answered" -> IF plan[u] = <<>> \/ outcome[u] = "rejected" THEN <<>>
                                                                            ELSE Tail(plan[u])
      [] handler[u] = "stuck"    -> IF plan[u] = <<>> THEN <<>> ELSE Tail(plan[u])
      [] OTHER                   -> IF plan[u] = <<>> THEN <<request[u]>> ELSE plan[u]

\* The core has the endpoint as the selection of its group, or this one as that
\* of GLOBAL.
HolderSet ==
    /\ CanSelect(core.px, Holder)
    /\ Endpoint \in MembersOf(core.px, Holder)
    /\ core.sel[Holder] = Endpoint
GlobalSetTo(x) == x \in MembersOf(core.px, "GLOBAL") /\ core.sel["GLOBAL"] = x

\* What remains of an operation fits what it has saved and what the requests
\* before it have done to the core.
PatchFits(mode) ==
    CASE mode = "DIRECT" -> saved.mode = "direct" \/ (IsGlobal /\ Endpoint = "DIRECT")
      [] mode = "RULE"   -> saved.mode = "rule"
      [] mode = "GLOBAL" -> \/ NodeChosen /\ HolderSet /\ GlobalSetTo(Holder)
                            \/ GroupChosen /\ GlobalSetTo(Endpoint)

Fits(s) ==
    \/ s = <<>>
    \/ s = <<[kind |-> "endpoint"]>> /\ saved.mode = "global"
    \/ \E mode \in Modes : s = <<Patch(mode)>> /\ PatchFits(mode)
    \/ \E group \in Group : /\ s = <<Pick(group, saved.picks[active][group])>>
                            /\ saved.mode \in {"rule", "direct"}
    \/ /\ s \in {<<Pick(Holder, Endpoint), Pick("GLOBAL", Holder), Patch("GLOBAL")>>,
                 <<Pick(Holder, Endpoint)>>}
       /\ NodeChosen
    \/ /\ s \in {<<Pick("GLOBAL", Holder), Patch("GLOBAL")>>, <<Pick("GLOBAL", Holder)>>}
       /\ NodeChosen /\ HolderSet
    \/ /\ s \in {<<Pick("GLOBAL", Endpoint), Patch("GLOBAL")>>, <<Pick("GLOBAL", Endpoint)>>}
       /\ GroupChosen

\* One handler at a time has something to do, and it is what it should be.
HandlerFits(u) ==
    /\ Fits(Rest(u))
    /\ handler[u] # "idle" /\ plan[u] # <<>> =>
          request[u] \in Load \cup Change /\ request[u] = Head(plan[u])
    /\ handler[u] # "applied"
    /\ handler[u] = "decorated" => configParams.patch
    /\ handler[u] # "idle" => Displaces(u) \subseteq displaced

UpInv ==
    proc = "up" /\ Orderly =>
        /\ handler[Vpn] = "idle"
        /\ \A u, v \in UI : ~Ready(u) /\ ~Ready(v) => u = v
        /\ \A u \in UI : HandlerFits(u)

\* The load of a start is alone and is that of what is saved.
ActiveResolution == Resolve(saved.mode, saved.picks[active], active)
ActiveLoad == [kind |-> "load", profile |-> active, mode |-> ActiveResolution.mode,
               patch |-> FALSE, picks |-> ActiveResolution.picks]

LoadingInv ==
    proc = "loading" /\ Orderly =>
        /\ Calm
        /\ handler[Vpn] # "idle" /\ request[Vpn] = ActiveLoad
        /\ handler[Vpn] \in {"decorated", "applied"} => configParams = ParamsOf(ActiveLoad)
        /\ handler[Vpn] = "answered" /\ outcome[Vpn] = "good" => core = Restarted
        /\ displaced = IF ActiveResolution.mode = "GLOBAL" /\ Holder # "" THEN {Holder} ELSE {}

\* In the mode global the core has the endpoint, if the profile has it.
GlobalSettled ==
    CASE Endpoint = "DIRECT" -> core.mode = "DIRECT"
      [] Endpoint \in GroupsOf(active) -> core.mode = "GLOBAL" /\ core.sel["GLOBAL"] = Endpoint
      [] OTHER -> /\ core.mode = "GLOBAL" /\ core.sel["GLOBAL"] = Holder
                  /\ Holder # "" /\ CanSelect(active, Holder) => core.sel[Holder] = Endpoint

\* The core has what is saved, but for what the handlers have still to do.
Agreement ==
    /\ core.px = active
    /\ \A g \in Selectors : ~CanSelect(active, g) => core.sel[g] = ""
    /\ \A g \in GroupsOf(active) \ displaced :
          CanSelect(active, g) =>
              \/ core.sel[g] = saved.picks[active][g]
              \/ \E u \in UI : Rest(u) = <<Pick(g, saved.picks[active][g])>>
    /\ saved.mode = "rule" =>
          core.mode = "RULE" \/ \E u \in UI : Rest(u) = <<Patch("RULE")>>
    /\ IsGlobal => GlobalSettled \/ \E u \in UI : Rest(u) # <<>>

AllWell == \A u \in UI : handler[u] = "answered" => outcome[u] = "good"

\* Nothing is left to do after the last choice but to set the mode.
EndsInLoad(s) == s # <<>> => s[Len(s)] \notin Change

AgreeInv ==
    proc = "up" /\ upset = {} =>
        /\ \A u \in UI : plan[u] = <<>> => handler[u] = "idle"
        /\ \A u \in UI : IsGlobal => EndsInLoad(plan[u])
        /\ AllWell => Agreement

IInv == CoreInv /\ TypeOK /\ UpInv /\ LoadingInv /\ AgreeInv

-----------------------------------------------------------------------------

(* What the operators of GlobalMode make of a profile and an endpoint.     *)

LEMMA LeastElement ==
    ASSUME NEW S \in SUBSET Nat, S # {}
    PROVE  \E i \in S : \A j \in S : i <= j
<1> DEFINE Less == OpToRel(<, Nat)
<1>1. IsWellFoundedOn(Less, Nat)
  BY NatLessThanWellFounded, Zenon DEF Less
<1>2. Less = {pair \in Nat \X Nat : pair[1] < pair[2]}
  BY DEF Less, OpToRel
<1> HIDE DEF Less
<1>3. PICK x \in S : \A y \in S : <<y, x>> \notin Less
  BY <1>1, WFMin
<1>4. \A y \in S : ~(y < x)
  BY <1>2, <1>3
<1> QED BY <1>3, <1>4

\* Groups and nodes of a profile, which have no other names.
LEMMA ProfileNames ==
    ASSUME NEW p \in Profile \cup {NoProfile}
    PROVE  /\ GroupsOf(p) \subseteq Group /\ NodesOf(p) \subseteq Node
           /\ MembersOf(p, "GLOBAL") \subseteq Names
<1>1. \A e \in ElementsOf(Config[p]) : e.name \in Group /\ e.proxies \in Seq(Node)
  BY EntryType
<1>2. \A e \in ElementsOf(Config[p]) : ElementsOf(e.proxies) \subseteq Node
  BY <1>1 DEF ElementsOf
<1>3. GroupsOf(p) \subseteq Group
  BY <1>1 DEF GroupsOf
<1>4. NodesOf(p) \subseteq Node
  BY <1>2 DEF NodesOf
<1> QED BY <1>3, <1>4 DEF MembersOf, Names

\* The group that findGroupContaining returns has the node.
LEMMA FirstGroupHolds ==
    ASSUME NEW p \in Profile, NEW node
    PROVE  /\ FirstGroup(p, node) = "" \/ FirstGroup(p, node) \in GroupsOf(p)
           /\ FirstGroup(p, node) # "" =>
                /\ FirstGroup(p, node) \in Group /\ node \in Node
                /\ node \in MembersOf(p, FirstGroup(p, node))
                /\ node \in MembersOf(p, "GLOBAL")
           /\ node \in NodesOf(p) => FirstGroup(p, node) # ""
<1> DEFINE holding == {i \in DOMAIN Config[p] : node \in ElementsOf(Config[p][i].proxies)}
           first   == CHOOSE i \in holding : \A j \in holding : i <= j
<1>1. /\ DOMAIN Config[p] \subseteq Nat
      /\ \A i \in DOMAIN Config[p] :
            Config[p][i].name \in Group /\ Config[p][i].proxies \in Seq(Node)
  BY EntryType
<1>2. CASE holding = {}
  <2>1. FirstGroup(p, node) = ""
    BY <1>2 DEF FirstGroup
  <2>2. node \notin NodesOf(p)
    BY <1>1, <1>2 DEF NodesOf, ElementsOf
  <2> QED BY <2>1, <2>2
<1>3. CASE holding # {}
  <2>1. holding \in SUBSET Nat
    BY <1>1
  <2>2. first \in holding
    <3> HIDE DEF holding
    <3> QED BY <1>3, <2>1, LeastElement
  <2>3. FirstGroup(p, node) = Config[p][first].name
    BY <1>3 DEF FirstGroup
  <2> DEFINE e == Config[p][first]
  <2>4. first \in DOMAIN Config[p] /\ node \in ElementsOf(e.proxies)
    BY <2>2
  <2> HIDE DEF first, holding
  <2>5. e \in ElementsOf(Config[p]) /\ e.name \in Group /\ e.proxies \in Seq(Node)
    BY <1>1, <2>4 DEF ElementsOf
  <2>6. node \in Node
    BY <2>4, <2>5 DEF ElementsOf
  <2>7. e.name \in GroupsOf(p) /\ node \in NodesOf(p)
    BY <2>4, <2>5 DEF GroupsOf, NodesOf
  <2>8. \A other \in ElementsOf(Config[p]) : other.name = e.name => other = e
    BY <1>1, <2>4, NamesAssumption DEF ElementsOf
  <2>9. ProxiesOf(p, e.name) = e.proxies
    BY <2>5, <2>8 DEF ProxiesOf
  <2>10. e.name \notin {"", "GLOBAL"}
    BY <2>5, NamesAssumption
  <2> QED BY <2>3, <2>4, <2>5, <2>6, <2>7, <2>9, <2>10 DEF MembersOf
<1> QED BY <1>2, <1>3

LEMMA ResolveType ==
    ASSUME NEW p \in Profile, NEW mode, NEW picks \in [Selectors -> Names]
    PROVE  /\ Resolve(mode, picks, p).mode \in Modes
           /\ Resolve(mode, picks, p).picks \in [Selectors -> Names]
<1> DEFINE inGroups == [picks EXCEPT !["GLOBAL"] = ""]
           group    == FirstGroup(p, picks["GLOBAL"])
<1>1. inGroups \in [Selectors -> Names] /\ picks["GLOBAL"] \in Names
  BY DEF Selectors, Names
<1>2. GroupsOf(p) \subseteq Names
  BY ProfileNames DEF Names
<1>3. group # "" => group \in Names /\ group \in Selectors
  BY FirstGroupHolds DEF Names, Selectors
<1> QED BY <1>1, <1>2, <1>3 DEF Resolve, Modes

LEMMA StepType ==
    ASSUME TypeOK
    PROVE  /\ \A mode \in Modes : Patch(mode) \in Load
           /\ \A group \in Selectors, name \in Names : Pick(group, name) \in Change
           /\ \A name \in Names : ApplyEndpoint(name) \in Seq(Load \cup Change)
           /\ Endpoint \in Names
<1>1. \A mode \in Modes : Patch(mode) \in Load
  BY FreshType DEF TypeOK, Patch, Load
<1>2. \A group \in Selectors, name \in Names : Pick(group, name) \in Change
  BY DEF Pick, Change
<1>3. ASSUME NEW name \in Names PROVE ApplyEndpoint(name) \in Seq(Load \cup Change)
  <2>1. FirstGroup(active, name) # "" => FirstGroup(active, name) \in Names \cap Selectors
    BY FirstGroupHolds DEF TypeOK, Names, Selectors
  <2>2. "GLOBAL" \in Selectors /\ {"DIRECT", "GLOBAL"} \subseteq Modes
    BY DEF Selectors, Modes
  <2> DEFINE group == FirstGroup(active, name)
             steps == Load \cup Change
  <2>3. Patch("DIRECT") \in steps /\ Patch("GLOBAL") \in steps /\ Pick("GLOBAL", name) \in steps
    BY <1>1, <1>2, <2>2
  <2>4. group # "" => Pick(group, name) \in steps /\ Pick("GLOBAL", group) \in steps
    BY <1>2, <2>1, <2>2
  <2> HIDE DEF steps, group
  <2>5. \A a, b, c \in steps : /\ <<>> \in Seq(steps) /\ <<a>> \in Seq(steps)
                              /\ <<a, b>> \in Seq(steps) /\ <<a, b, c>> \in Seq(steps)
    OBVIOUS
  <2>6. /\ <<Patch("DIRECT")>> \in Seq(steps)
        /\ <<Pick("GLOBAL", name), Patch("GLOBAL")>> \in Seq(steps)
        /\ group # "" => <<Pick(group, name), Pick("GLOBAL", group), Patch("GLOBAL")>> \in Seq(steps)
        /\ <<>> \in Seq(steps)
    BY <2>3, <2>4, <2>5
  <2> QED BY <2>6 DEF ApplyEndpoint, steps, group
<1>4. Endpoint \in Names
  <2>1. saved.picks \in [Profile -> [Selectors -> Names]] /\ active \in Profile
    BY DEF TypeOK, Saved
  <2> QED BY <2>1 DEF Endpoint, Selectors
<1> QED BY <1>1, <1>2, <1>3, <1>4

-----------------------------------------------------------------------------

(* Types of the application, and its steps as steps of the core.           *)

Reasons  == {"overlap", "failure", "foreign", "unnoticed"}
PlanStep == Load \cup Change \cup {[kind |-> "endpoint"]}

LEMMA BoundedOps ==
    ASSUME Bounded, upset' \subseteq Reasons, ops' \in Nat
    PROVE  ops' \in 0..MaxOps
<1>1. Reasons = (({"overlap"} \cup {"failure"}) \cup {"foreign"}) \cup {"unnoticed"}
  BY DEF Reasons
<1>2. IsFiniteSet(Reasons)
  BY <1>1, FS_Singleton, FS_Union
<1>3. Cardinality(upset') \in Nat
  BY <1>2, FS_Subset, FS_CardinalityType
<1> QED BY <1>3, ClientsAssumption DEF Bounded

\* Choosing a proxy changes one choice of what is saved.
LEMMA SavedChoice ==
    ASSUME NEW p \in Profile, NEW g \in Selectors, NEW name \in Names, saved \in Saved,
           saved' = [saved EXCEPT !.picks[p][g] = name]
    PROVE  /\ saved' \in Saved /\ saved'.mode = saved.mode
           /\ saved'.picks[p][g] = name
           /\ \A q \in Profile, h \in Selectors :
                q # p \/ h # g => saved'.picks[q][h] = saved.picks[q][h]
<1>1. saved.picks \in [Profile -> [Selectors -> Names]]
  BY DEF Saved
<1> DEFINE choices == [saved.picks[p] EXCEPT ![g] = name]
           picks   == [saved.picks EXCEPT ![p] = choices]
<1>2. choices \in [Selectors -> Names]
  BY <1>1
<1>3. choices[g] = name /\ \A h \in Selectors : h # g => choices[h] = saved.picks[p][h]
  BY <1>1
<1>4. saved' = [saved EXCEPT !.picks = picks]
  OBVIOUS
<1> HIDE DEF choices
<1>5. /\ picks \in [Profile -> [Selectors -> Names]]
      /\ picks[p] = choices /\ \A q \in Profile : q # p => picks[q] = saved.picks[q]
  BY <1>1, <1>2
<1> HIDE DEF picks
<1>6. saved' \in Saved /\ saved'.mode = saved.mode /\ saved'.picks = picks
  BY <1>4, <1>5 DEF Saved
<1> QED BY <1>3, <1>5, <1>6

LEMMA SavedMode ==
    ASSUME NEW mode \in {"global", "rule", "direct"}, saved \in Saved,
           saved' = [saved EXCEPT !.mode = mode]
    PROVE  saved' \in Saved /\ saved'.mode = mode /\ saved'.picks = saved.picks
BY DEF Saved

\* The variables of the application have their types after an operation.
LEMMA BeginType ==
    ASSUME TypeOK, NEW u \in UI, NEW steps \in Seq(PlanStep), Begin(u, steps), Bounded,
           upset' \subseteq Reasons
    PROVE  plan' \in [UI -> Seq(PlanStep)] /\ ops' \in 0..MaxOps
<1>1. ops' \in Nat
  BY DEF Begin, TypeOK
<1>2. plan \in [UI -> Seq(PlanStep)]
  BY DEF TypeOK, PlanStep
<1>3. <<>> \in Seq(PlanStep)
  OBVIOUS
<1>4. plan' \in [UI -> Seq(PlanStep)]
  BY <1>2, <1>3 DEF Begin
<1> QED BY <1>1, <1>4, BoundedOps

LEMMA UntimelyReasons == Untimely \subseteq Reasons
BY DEF Untimely, Reasons

\* What an operation plans is a sequence of requests, or the endpoint to read.
LEMMA PlannedType ==
    ASSUME TypeOK
    PROVE  /\ \A mode \in Modes : <<Patch(mode)>> \in Seq(PlanStep)
           /\ \A group \in Selectors, name \in Names : <<Pick(group, name)>> \in Seq(PlanStep)
           /\ \A name \in Names : ApplyEndpoint(name) \in Seq(PlanStep)
           /\ <<[kind |-> "endpoint"]>> \in Seq(PlanStep)
<1>1. \A step \in PlanStep : <<step>> \in Seq(PlanStep)
  OBVIOUS
<1>2. Load \cup Change \subseteq PlanStep /\ [kind |-> "endpoint"] \in PlanStep
  BY DEF PlanStep
<1>3. \A s \in Seq(Load \cup Change) : s \in Seq(PlanStep)
  <2> DEFINE L == Load \cup Change
  <2>1. L \subseteq PlanStep
    BY <1>2
  <2> HIDE DEF L
  <2>2. \A s \in Seq(L) : s \in Seq(PlanStep)
    BY <2>1
  <2> QED BY <2>2 DEF L
<1> QED BY <1>1, <1>2, <1>3, StepType

LEMMA OperationType ==
    ASSUME TypeOK, CoreTypeOK', NEW u \in UI,
           \/ \E mode \in {"global", "rule", "direct"} : SetMode(u, mode)
           \/ \E endpoint \in Names : ChooseEndpoint(u, endpoint)
           \/ \E group \in Group, node \in Node : ChooseNode(u, group, node)
           \/ PatchSettings(u)
    PROVE  TypeOK'
<1> USE DEF TypeOK
<1>1. upset \subseteq Reasons
  BY DEF Reasons
<1>2. ASSUME NEW mode \in {"global", "rule", "direct"}, SetMode(u, mode) PROVE TypeOK'
  <2> DEFINE steps == CASE mode = "global" -> <<[kind |-> "endpoint"]>>
                        [] mode = "direct" -> <<Patch("DIRECT")>>
                        [] mode = "rule"   -> <<Patch("RULE")>>
  <2>1. steps \in Seq(PlanStep)
    BY PlannedType DEF Modes
  <2>2. upset' \subseteq Reasons
    BY <1>1, <1>2, UntimelyReasons DEF SetMode
  <2>3. plan' \in [UI -> Seq(PlanStep)] /\ ops' \in 0..MaxOps
    <3>1. Begin(u, steps) /\ Bounded
      BY <1>2 DEF SetMode
    <3> HIDE DEF steps
    <3> QED BY <2>1, <2>2, <3>1, BeginType
  <2>4. saved' \in Saved
    BY <1>2, SavedMode DEF SetMode
  <2> QED BY <1>2, <2>2, <2>3, <2>4 DEF SetMode, Reasons, PlanStep
<1>3. ASSUME NEW endpoint \in Names, ChooseEndpoint(u, endpoint) PROVE TypeOK'
  <2>1. upset' \subseteq Reasons
    BY <1>1, <1>3, UntimelyReasons DEF ChooseEndpoint
  <2>2. plan' \in [UI -> Seq(PlanStep)] /\ ops' \in 0..MaxOps
    BY <1>3, <2>1, PlannedType, BeginType DEF ChooseEndpoint
  <2>3. saved' \in Saved
    BY <1>3, SavedChoice DEF ChooseEndpoint, Selectors
  <2> QED BY <1>3, <2>1, <2>2, <2>3 DEF ChooseEndpoint, Reasons, PlanStep
<1>4. ASSUME NEW group \in Group, NEW node \in Node, ChooseNode(u, group, node) PROVE TypeOK'
  <2>1. upset' \subseteq Reasons
    BY <1>1, <1>4, UntimelyReasons DEF ChooseNode
  <2>2. group \in Selectors /\ node \in Names
    BY DEF Selectors, Names
  <2>3. plan' \in [UI -> Seq(PlanStep)] /\ ops' \in 0..MaxOps
    BY <1>4, <2>1, <2>2, PlannedType, BeginType DEF ChooseNode
  <2>4. saved' \in Saved
    BY <1>4, <2>2, SavedChoice DEF ChooseNode
  <2> QED BY <1>4, <2>1, <2>3, <2>4 DEF ChooseNode, Reasons, PlanStep
<1>5. ASSUME PatchSettings(u) PROVE TypeOK'
  <2>1. upset' \subseteq Reasons
    BY <1>1, <1>5, UntimelyReasons DEF PatchSettings, Reasons
  <2>2. <<Patch("GLOBAL")>> \in Seq(PlanStep) /\ plan \in [UI -> Seq(PlanStep)]
    BY PlannedType DEF Modes, PlanStep
  <2>3. plan' \in [UI -> Seq(PlanStep)] /\ ops' \in 0..MaxOps
    BY <1>5, <2>1, <2>2, BoundedOps DEF PatchSettings
  <2> QED BY <1>5, <2>1, <2>3 DEF PatchSettings, Reasons, PlanStep
<1> QED BY <1>2, <1>3, <1>4, <1>5

LEMMA HandlerType ==
    ASSUME TypeOK, CoreTypeOK', NEW u \in UI,
           ReadEndpoint(u) \/ SendRequest(u) \/ NotConnected(u) \/ Answered(u) \/ TimeOut(u)
    PROVE  TypeOK'
<1> USE DEF TypeOK
<1>1. upset \subseteq Reasons /\ plan \in [UI -> Seq(PlanStep)] /\ <<>> \in Seq(PlanStep)
  BY DEF Reasons, PlanStep
<1>2. CASE ReadEndpoint(u)
  <2>1. ApplyEndpoint(Endpoint) \in Seq(PlanStep)
    BY StepType, PlannedType
  <2>2. /\ plan' = [plan EXCEPT ![u] = ApplyEndpoint(Endpoint)]
        /\ upset' \in {upset, upset \cup {"failure"}}
        /\ UNCHANGED <<saved, active, vpnOn, proc, displaced, ops>>
    BY <1>2 DEF ReadEndpoint, Endpoint
  <2>3. plan' \in [UI -> Seq(PlanStep)]
    BY <1>1, <2>1, <2>2
  <2> QED BY <2>2, <2>3 DEF PlanStep
<1>3. CASE SendRequest(u)
  BY <1>3 DEF SendRequest, Displaces
<1>4. CASE NotConnected(u)
  BY <1>1, <1>4 DEF NotConnected, PlanStep
<1>5. CASE Answered(u)
  <2>1. plan[u] # <<>> /\ plan[u] \in Seq(PlanStep)
    BY <1>1, <1>5 DEF Answered
  <2>2. Tail(plan[u]) \in Seq(PlanStep)
    BY <2>1
  <2>3. plan' \in [UI -> Seq(PlanStep)]
    BY <1>1, <1>5, <2>2 DEF Answered
  <2> QED BY <1>5, <2>3 DEF Answered, PlanStep
<1>6. CASE TimeOut(u)
  BY <1>1, <1>6 DEF TimeOut, PlanStep
<1> QED BY <1>2, <1>3, <1>4, <1>5, <1>6

LEMMA ProcessType ==
    ASSUME TypeOK, CoreTypeOK',
           \/ \E p \in Profile : Activate(p)
           \/ TurnOn \/ LoadActiveConfig \/ Loaded \/ Noticed \/ ProcessEnds
           \/ (\E n \in Node : Test(n)) \/ UNCHANGED appVars
    PROVE  TypeOK'
<1> USE DEF TypeOK
<1>1. upset \subseteq Reasons /\ plan \in [UI -> Seq(PlanStep)] /\ <<>> \in Seq(PlanStep)
  BY DEF Reasons, PlanStep
<1>2. ASSUME NEW p \in Profile, Activate(p) PROVE TypeOK'
  <2>1. upset' \subseteq Reasons /\ ops' \in Nat
    BY <1>1, <1>2 DEF Activate, Reasons
  <2>2. ops' \in 0..MaxOps
    BY <1>2, <2>1, BoundedOps DEF Activate
  <2> QED BY <1>2, <2>1, <2>2 DEF Activate, Reasons
<1>3. CASE TurnOn
  <2>1. ops' \in 0..MaxOps
    BY <1>1, <1>3, BoundedOps DEF TurnOn
  <2> QED BY <1>3, <2>1 DEF TurnOn
<1>4. CASE LoadActiveConfig
  <2>1. displaced' \subseteq Group
    BY <1>4, FirstGroupHolds DEF LoadActiveConfig
  <2> QED BY <1>4, <2>1 DEF LoadActiveConfig
<1>5. CASE Loaded
  BY <1>5 DEF Loaded
<1>6. CASE Noticed
  BY <1>6 DEF Noticed
<1>7. CASE ProcessEnds
  <2>1. plan' \in [UI -> Seq(PlanStep)]
    BY <1>1, <1>7 DEF ProcessEnds
  <2> QED BY <1>7, <2>1 DEF ProcessEnds, PlanStep
<1>8. CASE UNCHANGED appVars
  BY <1>8 DEF appVars
<1>9. ASSUME NEW n \in Node, Test(n) PROVE TypeOK'
  <2>1. ops' \in 0..MaxOps
    BY <1>1, <1>9, BoundedOps DEF Test
  <2> QED BY <1>9, <2>1 DEF Test
<1> QED BY <1>2, <1>3, <1>4, <1>5, <1>6, <1>7, <1>8, <1>9

\* The application asks the core only for what CoreConfig knows.
LEMMA CoreStep ==
    ASSUME TypeOK, [Next]_vars
    PROVE  [CoreNext]_coreVars
<1> USE ClientsAssumption
<1>1. CASE LoadActiveConfig
  <2>1. saved.picks[active] \in [Selectors -> Names] /\ active \in Profile
    BY DEF TypeOK, Saved
  <2>2. ActiveLoad \in Load
    BY <2>1, ResolveType DEF ActiveLoad, ActiveResolution, Load
  <2>3. Ask(Vpn, ActiveLoad)
    BY <1>1 DEF LoadActiveConfig, ActiveLoad, ActiveResolution
  <2> QED BY <2>2, <2>3 DEF CoreNext
<1>2. ASSUME NEW u \in UI, SendRequest(u) PROVE [CoreNext]_coreVars
  BY <1>2 DEF SendRequest, CoreNext
<1>3. ASSUME NEW u \in UI, Answered(u) \/ Unheard(u) PROVE [CoreNext]_coreVars
  BY <1>3 DEF Answered, Unheard, CoreNext
<1>4. CASE Loaded
  BY <1>4 DEF Loaded, CoreNext
<1>5. CASE ProcessEnds
  BY <1>5 DEF ProcessEnds, CoreNext
<1>6. ASSUME NEW c \in Client, HandlerStep(c) PROVE [CoreNext]_coreVars
  BY <1>6 DEF HandlerStep, CoreNext
<1>9. CASE (\E n \in Node : Test(n)) \/ (\E g \in Group : LookAt(g))
  BY <1>9 DEF Test, LookAt, CoreNext
<1>7. ASSUME NEW u \in UI,
             \/ \E mode \in {"global", "rule", "direct"} : SetMode(u, mode)
             \/ \E endpoint \in Names : ChooseEndpoint(u, endpoint)
             \/ \E group \in Group, node \in Node : ChooseNode(u, group, node)
             \/ PatchSettings(u) \/ ReadEndpoint(u) \/ NotConnected(u) \/ TimeOut(u)
      PROVE  UNCHANGED coreVars
  BY <1>7 DEF SetMode, ChooseEndpoint, ChooseNode, PatchSettings, ReadEndpoint, NotConnected,
              TimeOut
<1>8. ASSUME (\E p \in Profile : Activate(p)) \/ TurnOn \/ Noticed \/ UNCHANGED vars
      PROVE  UNCHANGED coreVars
  BY <1>8 DEF Activate, TurnOn, Noticed, vars
<1> QED BY <1>1, <1>2, <1>3, <1>4, <1>5, <1>6, <1>7, <1>8, <1>9 DEF Next

\* The types and the invariant of the core, under the steps of the application.
LEMMA TypeStep ==
    ASSUME CoreInv, TypeOK, [Next]_vars
    PROVE  CoreInv' /\ TypeOK'
<1>1. CoreInv'
  BY CoreStep, CoreStepInv
<1>2. CoreTypeOK'
  BY <1>1 DEF CoreInv
<1>3. CASE UNCHANGED vars
  <2>1. UNCHANGED appVars
    BY <1>3 DEF vars
  <2> QED BY <1>1, <1>2, <2>1, ProcessType
<1>4. ASSUME NEW u \in UI, Unheard(u) PROVE TypeOK'
  BY <1>2, <1>4, ProcessType DEF Unheard
<1>5. ASSUME NEW c \in Client, HandlerStep(c) PROVE TypeOK'
  BY <1>2, <1>5, ProcessType DEF HandlerStep
<1>6. ASSUME NEW g \in Group, LookAt(g) PROVE TypeOK'
  BY <1>2, <1>6, ProcessType DEF LookAt
<1> QED BY <1>1, <1>2, <1>3, <1>4, <1>5, <1>6, OperationType, HandlerType, ProcessType DEF Next

LEMMA TypeInit == Init => CoreInv /\ TypeOK
<1> SUFFICES ASSUME Init PROVE CoreInv /\ TypeOK
  OBVIOUS
<1>1. CoreInv /\ CoreTypeOK
  BY CoreInitInv DEF Init, CoreInv
<1>2. plan \in [UI -> Seq(PlanStep)]
  BY DEF Init
<1>3. saved \in Saved /\ active \in Profile /\ ops \in 0..MaxOps
  BY ClientsAssumption DEF Init
<1>4. vpnOn \in BOOLEAN /\ proc = "off" /\ upset = {} /\ displaced = {}
  BY DEF Init
<1> QED BY <1>1, <1>2, <1>3, <1>4 DEF TypeOK, PlanStep

LEMMA Typed == Spec => [](CoreInv /\ TypeOK)
BY TypeInit, TypeStep, PTL DEF Spec

\* The choices that are saved, the requests that are planned and what the core
\* holds keep their types, whatever the user does and whichever request fails:
\* in particular a resolution only hands the core modes and names that it has.
THEOREM TypeCorrect == Spec => []TypeOK
BY Typed, PTL

\* Under the pages, a start and an end of the process, too, every request takes
\* effect at one moment (hub.go:88-154, AppService.ets:208-235).
THEOREM ModeUsesCore == Spec => RequestsTakeEffectAtOnce
<1>1. Init => CoreInit
  BY DEF Init
<1>2. Init => Api!Init
  BY <1>1, InitRefines
<1>3. CoreInv /\ TypeOK /\ [Next]_vars => [Api!Next]_(Api!apiVars)
  BY CoreStep, StepRefines
<1> QED BY <1>2, <1>3, Typed, PTL DEF Spec, RequestsTakeEffectAtOnce, Api!Spec

-----------------------------------------------------------------------------

(* What the next request of a handler can be.                              *)

LEMMA Kinds ==
    ASSUME TypeOK
    PROVE  /\ Load \cap Change = {} /\ [kind |-> "endpoint"] \notin Load \cup Change
           /\ \A mode \in Modes : Patch(mode) \in Load /\ Patch(mode).patch
           /\ \A mode, other \in Modes : Patch(mode) = Patch(other) => mode = other
           /\ \A group \in Selectors, name \in Names :
                 /\ Pick(group, name) \in Change
                 /\ Pick(group, name).group = group /\ Pick(group, name).name = name
<1>1. Load \cap Change = {} /\ [kind |-> "endpoint"] \notin Load \cup Change
  <2>1. (\A r \in Load : r.kind = "load") /\ (\A r \in Change : r.kind = "change")
    BY DEF Load, Change
  <2> QED BY <2>1
<1>2. \A mode \in Modes : Patch(mode).patch /\ Patch(mode).mode = mode
  BY DEF Patch
<1>3. \A group, name : Pick(group, name).group = group /\ Pick(group, name).name = name
  BY DEF Pick
<1> QED BY <1>1, <1>2, <1>3, StepType

\* The endpoint, its group and the names of the choices.
LEMMA EndpointNames ==
    ASSUME TypeOK
    PROVE  /\ Endpoint \in Names
           /\ Holder \in Group \cup {""}
           /\ Holder # "" => /\ Holder \in GroupsOf(active) /\ Endpoint \in Node
                             /\ Endpoint \in MembersOf(active, Holder)
                             /\ Endpoint \in MembersOf(active, "GLOBAL")
           /\ GroupsOf(active) \subseteq Group
           /\ \A g \in Group : g \in Selectors /\ g \in Names /\ g \notin {"GLOBAL", "", "DIRECT"}
           /\ "GLOBAL" \in Selectors
           /\ \A node \in Node : node \notin {"GLOBAL", "", "DIRECT"} /\ node \notin Group
           /\ \A g \in Selectors : saved.picks[active][g] \in Names
<1>1. active \in Profile /\ saved.picks \in [Profile -> [Selectors -> Names]]
  BY DEF TypeOK, Saved
<1>2. Endpoint \in Names
  BY StepType
<1>3. /\ Holder \in Group \cup {""}
      /\ Holder # "" => /\ Holder \in GroupsOf(active) /\ Endpoint \in Node
                        /\ Endpoint \in MembersOf(active, Holder)
                        /\ Endpoint \in MembersOf(active, "GLOBAL")
  BY <1>1, FirstGroupHolds DEF Holder
<1>4. GroupsOf(active) \subseteq Group
  BY <1>1, ProfileNames
<1>5. /\ \A g \in Group : g \in Selectors /\ g \in Names /\ g \notin {"GLOBAL", "", "DIRECT"}
      /\ "GLOBAL" \in Selectors
      /\ \A node \in Node : node \notin {"GLOBAL", "", "DIRECT"} /\ node \notin Group
  BY NamesAssumption DEF Selectors, Names
<1> QED BY <1>1, <1>2, <1>3, <1>4, <1>5

\* A handler whose next request is a load has only that left.
LEMMA NextLoad ==
    ASSUME TypeOK, NEW s, Fits(s), s # <<>>, Head(s) \in Load
    PROVE  \E mode \in Modes : s = <<Patch(mode)>> /\ PatchFits(mode)
<1>1. \A a, b, c : Head(<<a>>) = a /\ Head(<<a, b>>) = a /\ Head(<<a, b, c>>) = a
  OBVIOUS
<1>2. /\ \A group \in Group : Pick(group, saved.picks[active][group]) \in Change
      /\ NodeChosen => Pick(Holder, Endpoint) \in Change /\ Pick("GLOBAL", Holder) \in Change
      /\ Pick("GLOBAL", Endpoint) \in Change
  BY Kinds, EndpointNames DEF NodeChosen
<1>3. /\ ~(\E group \in Group : s = <<Pick(group, saved.picks[active][group])>>)
      /\ s # <<[kind |-> "endpoint"]>>
      /\ NodeChosen => /\ s # <<Pick(Holder, Endpoint), Pick("GLOBAL", Holder), Patch("GLOBAL")>>
                       /\ s # <<Pick(Holder, Endpoint)>>
                       /\ s # <<Pick("GLOBAL", Holder), Patch("GLOBAL")>>
                       /\ s # <<Pick("GLOBAL", Holder)>>
      /\ s # <<Pick("GLOBAL", Endpoint), Patch("GLOBAL")>>
      /\ s # <<Pick("GLOBAL", Endpoint)>>
  BY <1>1, <1>2, Kinds
<1> QED BY <1>3 DEF Fits

PickOfGroup(s) == \E group \in Group : /\ s = <<Pick(group, saved.picks[active][group])>>
                                       /\ saved.mode \in {"rule", "direct"}
PickOfHolder(s) ==
    /\ s \in {<<Pick(Holder, Endpoint), Pick("GLOBAL", Holder), Patch("GLOBAL")>>,
              <<Pick(Holder, Endpoint)>>}
    /\ NodeChosen
PickOfGlobal(s, name) ==
    /\ s \in {<<Pick("GLOBAL", name), Patch("GLOBAL")>>, <<Pick("GLOBAL", name)>>}
    /\ \/ name = Holder /\ NodeChosen /\ HolderSet
       \/ name = Endpoint /\ GroupChosen

LEMMA NextChange ==
    ASSUME TypeOK, NEW s, Fits(s), s # <<>>, Head(s) \in Change
    PROVE  PickOfGroup(s) \/ PickOfHolder(s) \/ \E name \in Group : PickOfGlobal(s, name)
<1>1. \A a, b, c : Head(<<a>>) = a /\ Head(<<a, b>>) = a /\ Head(<<a, b, c>>) = a
  OBVIOUS
<1>2. NodeChosen => Holder \in Group
  BY EndpointNames DEF NodeChosen
<1>3. GroupChosen => Endpoint \in Group
  BY EndpointNames DEF GroupChosen
<1> QED BY <1>1, <1>2, <1>3, Kinds DEF Fits, PickOfGroup, PickOfHolder, PickOfGlobal

\* What a handler that has timed out has left is its request.
LEMMA FitsHead ==
    ASSUME TypeOK, NEW s, Fits(s), s # <<>>, Head(s) \in Load \cup Change
    PROVE  Fits(<<Head(s)>>)
<1>1. \A a, b, c : Head(<<a>>) = a /\ Head(<<a, b>>) = a /\ Head(<<a, b, c>>) = a
  OBVIOUS
<1>2. CASE Head(s) \in Load
  BY <1>1, <1>2, NextLoad DEF Fits
<1>3. CASE Head(s) \in Change
  BY <1>1, <1>3, NextChange DEF PickOfGroup, PickOfHolder, PickOfGlobal, Fits
<1> QED BY <1>2, <1>3

LEMMA Endings ==
    /\ EndsInLoad(<<>>)
    /\ \A a, b, c : /\ a \notin Change => EndsInLoad(<<a>>)
                    /\ b \notin Change => EndsInLoad(<<a, b>>)
                    /\ c \notin Change => EndsInLoad(<<a, b, c>>)
BY DEF EndsInLoad

\* applyGlobalEndpoint plans what the saved endpoint calls for.
LEMMA EndpointFits ==
    TypeOK /\ IsGlobal =>
        LET steps == ApplyEndpoint(Endpoint)
        IN  /\ Fits(steps)
            /\ EndsInLoad(steps)
            /\ Endpoint \in MembersOf(active, "GLOBAL") => steps # <<>>
<1> SUFFICES ASSUME TypeOK, IsGlobal
             PROVE  LET steps == ApplyEndpoint(Endpoint)
                    IN  /\ Fits(steps)
                        /\ EndsInLoad(steps)
                        /\ Endpoint \in MembersOf(active, "GLOBAL") => steps # <<>>
              OBVIOUS
<1> DEFINE steps == ApplyEndpoint(Endpoint)
<1>1. {"DIRECT", "GLOBAL"} \subseteq Modes /\ active \in Profile
  BY DEF Modes, TypeOK
<1>2. \A a, b, c : /\ <<a>> # <<>> /\ <<a, b>> # <<>> /\ <<a, b, c>> # <<>>
  OBVIOUS
<1>7. Patch("GLOBAL") \notin Change /\ Patch("DIRECT") \notin Change
  BY Kinds DEF Modes
<1>3. CASE Endpoint = "DIRECT"
  <2>1. steps = <<Patch("DIRECT")>>
    <3>1. Endpoint \notin GroupsOf(active) /\ Holder = ""
      BY <1>3, EndpointNames
    <3> QED BY <1>3, <3>1 DEF ApplyEndpoint, Holder
  <2>2. PatchFits("DIRECT")
    BY <1>3 DEF PatchFits
  <2>3. Fits(steps)
    BY <1>1, <2>1, <2>2 DEF Fits
  <2> QED BY <1>2, <1>7, <2>1, <2>3, Endings
<1>4. CASE Endpoint \in GroupsOf(active)
  <2>1. Endpoint # "DIRECT" /\ Holder = ""
    BY <1>4, EndpointNames
  <2>2. steps = <<Pick("GLOBAL", Endpoint), Patch("GLOBAL")>>
    BY <1>4, <2>1 DEF ApplyEndpoint, Holder
  <2>3. Fits(steps)
    BY <1>4, <2>2 DEF Fits, GroupChosen
  <2> QED BY <1>2, <1>7, <2>2, <2>3, Endings
<1>5. CASE Endpoint \notin GroupsOf(active) \cup {"DIRECT"} /\ Holder # ""
  <2>1. steps = <<Pick(Holder, Endpoint), Pick("GLOBAL", Holder), Patch("GLOBAL")>>
    BY <1>5 DEF ApplyEndpoint, Holder
  <2>2. NodeChosen
    BY <1>5 DEF NodeChosen
  <2>3. Fits(steps)
    BY <2>1, <2>2 DEF Fits
  <2> DEFINE three == <<Pick(Holder, Endpoint), Pick("GLOBAL", Holder), Patch("GLOBAL")>>
  <2>4. EndsInLoad(three) /\ three # <<>>
    BY <1>2, <1>7, Endings
  <2> HIDE DEF three
  <2>5. steps = three
    BY <2>1 DEF three
  <2> QED BY <2>3, <2>4, <2>5
<1>6. CASE Endpoint \notin GroupsOf(active) \cup {"DIRECT"} /\ Holder = ""
  <2>1. steps = <<>>
    BY <1>6 DEF ApplyEndpoint, Holder
  <2>2. Endpoint \notin NodesOf(active)
    BY <1>1, <1>6, FirstGroupHolds DEF Holder
  <2>3. Endpoint \notin MembersOf(active, "GLOBAL")
    BY <1>6, <2>2 DEF MembersOf
  <2>4. Fits(steps)
    BY <2>1 DEF Fits
  <2> QED BY <1>2, <2>1, <2>3, <2>4, Endings
<1> QED BY <1>3, <1>4, <1>5, <1>6

-----------------------------------------------------------------------------

(* The invariant of the application, step by step.                         *)

AppInv == UpInv /\ LoadingInv /\ AgreeInv

\* What fits depends on what is saved and on what the core has.
LEMMA FitsKept ==
    ASSUME UNCHANGED <<core, saved, active>>
    PROVE  /\ Endpoint' = Endpoint /\ Holder' = Holder /\ IsGlobal' = IsGlobal
           /\ \A s : Fits(s)' <=> Fits(s)
           /\ \A mode : Patch(mode)' = Patch(mode)
           /\ GlobalSettled' <=> GlobalSettled
           /\ ActiveLoad' = ActiveLoad /\ ActiveResolution' = ActiveResolution
           /\ Restarted' = Restarted
<1>1. Endpoint' = Endpoint /\ Holder' = Holder /\ IsGlobal' = IsGlobal
  BY DEF Endpoint, Holder, IsGlobal
<1>2. \A mode : Patch(mode)' = Patch(mode)
  BY DEF Patch
<1>3. /\ NodeChosen' = NodeChosen /\ GroupChosen' = GroupChosen /\ HolderSet' = HolderSet
      /\ \A x : GlobalSetTo(x)' = GlobalSetTo(x)
  BY <1>1 DEF NodeChosen, GroupChosen, HolderSet, GlobalSetTo
<1>4. \A mode : PatchFits(mode)' <=> PatchFits(mode)
  BY <1>1, <1>3 DEF PatchFits
<1>5. \A s : Fits(s)' <=> Fits(s)
  BY <1>1, <1>2, <1>3, <1>4 DEF Fits
<1>6. GlobalSettled' <=> GlobalSettled
  BY <1>1 DEF GlobalSettled
<1>7. /\ ActiveLoad' = ActiveLoad /\ ActiveResolution' = ActiveResolution
      /\ Restarted' = Restarted
  BY DEF ActiveLoad, ActiveResolution, Restarted
<1> QED BY <1>1, <1>2, <1>5, <1>6, <1>7

LEMMA AppKept ==
    ASSUME AppInv,
           UNCHANGED <<core, configParams, handler, request, outcome,
                       saved, active, proc, plan, upset, displaced>>
    PROVE  AppInv'
<1>1. UNCHANGED <<core, configParams, handler, request, outcome>>
  OBVIOUS
<1>2. /\ Endpoint' = Endpoint /\ Holder' = Holder /\ IsGlobal' = IsGlobal
      /\ \A s : Fits(s)' <=> Fits(s)
      /\ \A mode : Patch(mode)' = Patch(mode)
      /\ GlobalSettled' <=> GlobalSettled
      /\ ActiveLoad' = ActiveLoad /\ ActiveResolution' = ActiveResolution
      /\ Restarted' = Restarted
  BY <1>1, FitsKept
<1>3. \A u \in UI : Rest(u)' = Rest(u) /\ Ready(u)' = Ready(u) /\ Displaces(u)' = Displaces(u)
  BY <1>1 DEF Rest, Ready, Displaces
<1>4. \A u \in UI : HandlerFits(u)' <=> HandlerFits(u)
  BY <1>1, <1>2, <1>3 DEF HandlerFits
<1>5. UpInv'
  BY <1>1, <1>3, <1>4 DEF AppInv, UpInv, Orderly
<1>6. LoadingInv'
  BY <1>1, <1>2, <1>3 DEF AppInv, LoadingInv, Orderly, Calm
<1>7. Agreement' <=> Agreement
  BY <1>1, <1>2, <1>3 DEF Agreement
<1>8. AgreeInv'
  BY <1>1, <1>2, <1>7 DEF AppInv, AgreeInv, AllWell
<1> QED BY <1>5, <1>6, <1>8 DEF AppInv

\* The steps before a load and after the end, those that set the core against
\* what is saved, and those of the nodes.
LEMMA OutsideInv ==
    ASSUME IInv,
           \/ \E u \in UI : PatchSettings(u) \/ NotConnected(u)
           \/ \E p \in Profile : Activate(p)
           \/ TurnOn \/ Noticed \/ ProcessEnds \/ UNCHANGED vars
           \/ (\E n \in Node : Test(n)) \/ (\E g \in Group : LookAt(g))
    PROVE  AppInv'
<1>1. ASSUME NEW u \in UI, PatchSettings(u) PROVE "foreign" \in upset'
  BY <1>1 DEF PatchSettings
<1>2. ASSUME NEW p \in Profile, Activate(p) PROVE "foreign" \in upset'
  BY <1>2 DEF Activate
<1>3. ASSUME "foreign" \in upset' PROVE AppInv'
  BY <1>3 DEF AppInv, UpInv, LoadingInv, AgreeInv, Orderly
<1>4. ASSUME \/ \E u \in UI : NotConnected(u)
             \/ TurnOn \/ ProcessEnds
      PROVE  proc' \in {"off", "starting"}
  BY <1>4 DEF NotConnected, TurnOn, ProcessEnds
<1>5. ASSUME proc' \in {"off", "starting"} PROVE AppInv'
  BY <1>5 DEF AppInv, UpInv, LoadingInv, AgreeInv
<1>6. ASSUME \/ Noticed \/ UNCHANGED vars
             \/ (\E n \in Node : Test(n)) \/ (\E g \in Group : LookAt(g))
      PROVE  AppInv'
  <2>1. UNCHANGED <<core, configParams, handler, request, outcome,
                    saved, active, proc, plan, upset, displaced>>
    BY <1>6 DEF Noticed, Test, HealthCheck, LookAt, Look, DropSelection, FindFastest,
                vars, appVars, coreVars
  <2> QED BY <2>1, AppKept DEF IInv, AppInv
<1> QED BY <1>1, <1>2, <1>3, <1>4, <1>5, <1>6

\* A handler that has something to do is the only one.
LEMMA OnlyOne ==
    ASSUME UpInv, proc = "up", Orderly, NEW w \in UI, plan[w] # <<>> \/ handler[w] # "idle"
    PROVE  /\ \A u \in UI \ {w} : Ready(u) /\ Rest(u) = <<>>
           /\ HandlerFits(w) /\ handler[Vpn] = "idle"
<1>1. ~Ready(w)
  BY DEF Ready
<1>2. \A u \in UI \ {w} : Ready(u)
  BY <1>1 DEF UpInv
<1>3. \A u \in UI \ {w} : Rest(u) = <<>>
  BY <1>2 DEF Ready, Rest
<1> QED BY <1>2, <1>3 DEF UpInv

LEMMA UpByHandler ==
    ASSUME NEW w \in UI,
           \A u \in UI \ {w} : Ready(u) /\ handler'[u] = handler[u] /\ plan'[u] = plan[u],
           handler'[Vpn] = "idle",
           HandlerFits(w)'
    PROVE  UpInv'
<1>1. \A u \in UI \ {w} : handler'[u] = "idle" /\ plan'[u] = <<>>
  BY DEF Ready
<1>2. \A u \in UI \ {w} : Rest(u)' = <<>> /\ Ready(u)'
  BY <1>1 DEF Ready, Rest
<1>3. \A u \in UI \ {w} : HandlerFits(u)'
  BY <1>1, <1>2 DEF HandlerFits, Fits
<1> QED BY <1>2, <1>3 DEF UpInv

\* A step after which a handler has as much left leaves the agreement.
LEMMA AgreementKept ==
    ASSUME NEW w \in UI, \A u \in UI \ {w} : Rest(u) = <<>>,
           UNCHANGED <<core, saved, active>>, displaced \subseteq displaced',
           Rest(w)' = Rest(w), Agreement
    PROVE  Agreement'
<1>1. /\ IsGlobal' = IsGlobal /\ (GlobalSettled' <=> GlobalSettled)
      /\ \A mode : Patch(mode)' = Patch(mode)
  BY FitsKept
<1>2. \A x : (\E u \in UI : Rest(u) = <<x>>) => Rest(w) = <<x>>
  <2>1. \A x : <<>> # <<x>>
    OBVIOUS
  <2> QED BY <2>1
<1>3. (\E u \in UI : Rest(u) # <<>>) => Rest(w) # <<>>
  OBVIOUS
<1> QED BY <1>1, <1>2, <1>3 DEF Agreement

LEMMA LoadingIdle ==
    ASSUME LoadingInv, proc = "loading", Orderly, NEW u \in UI
    PROVE  plan[u] = <<>> /\ handler[u] = "idle"
BY DEF LoadingInv, Calm, Ready

LEMMA SendRequestInv ==
    ASSUME IInv, NEW w \in UI, SendRequest(w)
    PROVE  AppInv'
<1> USE DEF IInv
<1>1. /\ plan[w] # <<>> /\ Head(plan[w]) \in Load \cup Change
      /\ handler[w] = "idle" /\ handler' = [handler EXCEPT ![w] = "sent"]
      /\ request' = [request EXCEPT ![w] = Head(plan[w])]
      /\ displaced' = displaced \cup Displaces(w)
      /\ UNCHANGED <<core, configParams, outcome, saved, active, proc, plan, upset>>
  BY DEF SendRequest, Ask, At
<1>2. w \in Client /\ w # Vpn
  BY ClientsAssumption
<1>3. /\ handler'[w] = "sent" /\ \A c \in Client \ {w} : handler'[c] = handler[c]
      /\ request'[w] = Head(plan[w])
  BY <1>1, <1>2 DEF TypeOK, CoreTypeOK
<1>4. LoadingInv'
  BY <1>1, LoadingIdle DEF LoadingInv, Orderly
<1>5. Rest(w)' = Rest(w)
  BY <1>1, <1>3 DEF Rest
<1>6. CASE ~(proc = "up" /\ Orderly)
  BY <1>1, <1>4, <1>6 DEF AppInv, UpInv, AgreeInv, Orderly
<1>7. CASE proc = "up" /\ Orderly
  <2>1. /\ \A u \in UI \ {w} : Ready(u) /\ Rest(u) = <<>>
        /\ HandlerFits(w) /\ handler[Vpn] = "idle"
    BY <1>1, <1>7, OnlyOne
  <2>2. \A u \in UI \ {w} : handler'[u] = handler[u] /\ plan'[u] = plan[u]
    BY <1>1, <1>3, ClientsAssumption
  <2>3. HandlerFits(w)'
    <3>1. Fits(Rest(w))'
      BY <1>1, <1>5, <2>1, FitsKept DEF HandlerFits
    <3>2. Displaces(w)' = Displaces(w)
      BY <1>1 DEF Displaces
    <3> QED BY <1>1, <1>3, <3>1, <3>2 DEF HandlerFits
  <2>4. UpInv'
    BY <1>2, <1>3, <2>1, <2>2, <2>3, UpByHandler, ClientsAssumption
  <2>5. AgreeInv'
    <3>1. AllWell' => AllWell
      BY <1>1, <1>3, <2>1, <2>2 DEF AllWell, Ready
    <3>2. Agreement => Agreement'
      BY <1>1, <1>5, <2>1, AgreementKept
    <3>3. IsGlobal' = IsGlobal
      BY <1>1, FitsKept
    <3> QED BY <1>1, <1>3, <2>1, <2>2, <3>1, <3>2, <3>3 DEF AgreeInv, Ready
  <2> QED BY <1>4, <2>4, <2>5 DEF AppInv
<1> QED BY <1>6, <1>7

LEMMA ReadEndpointInv ==
    ASSUME IInv, NEW w \in UI, ReadEndpoint(w)
    PROVE  AppInv'
<1> USE DEF IInv
<1> DEFINE steps == ApplyEndpoint(Endpoint)
<1>1. /\ plan[w] = <<[kind |-> "endpoint"]>>
      /\ plan' = [plan EXCEPT ![w] = steps]
      /\ upset' = IF steps = <<>> THEN upset \cup {"failure"} ELSE upset
      /\ UNCHANGED <<core, configParams, handler, request, outcome,
                     saved, active, proc, displaced>>
  BY DEF ReadEndpoint, coreVars, Endpoint
<1>2. /\ plan'[w] = steps /\ \A u \in UI \ {w} : plan'[u] = plan[u]
      /\ plan[w] # <<>> /\ Head(plan[w]) = [kind |-> "endpoint"]
  BY <1>1 DEF TypeOK
<1> HIDE DEF steps
<1>3. Orderly' => Orderly
  BY <1>1 DEF Orderly
<1>4. LoadingInv'
  BY <1>1, <1>2, <1>3, LoadingIdle DEF LoadingInv
<1>5. CASE ~(proc = "up" /\ Orderly)
  BY <1>1, <1>3, <1>4, <1>5 DEF AppInv, UpInv, AgreeInv, Orderly
<1>6. CASE proc = "up" /\ Orderly
  <2>1. /\ \A u \in UI \ {w} : Ready(u) /\ Rest(u) = <<>>
        /\ HandlerFits(w) /\ handler[Vpn] = "idle"
    BY <1>2, <1>6, OnlyOne
  <2>2. handler[w] = "idle"
    BY <1>2, <2>1, Kinds DEF HandlerFits
  <2>3. saved.mode = "global"
    <3>1. Rest(w) = <<[kind |-> "endpoint"]>>
      BY <1>1, <2>2 DEF Rest
    <3>2. Fits(<<[kind |-> "endpoint"]>>)
      BY <2>1, <3>1 DEF HandlerFits
    <3>3. \A a, b, c : /\ <<a>> # <<>> /\ <<a, b>> # <<c>> /\ <<a, b, c>> # <<a>>
                       /\ <<a>> = <<b>> => a = b
      OBVIOUS
    <3>4. \A x, y, z : <<x, y, z>> # <<[kind |-> "endpoint"]>>
      OBVIOUS
    <3>5. /\ \A mode \in Modes : Patch(mode) # [kind |-> "endpoint"]
          /\ \A group, name : Pick(group, name) # [kind |-> "endpoint"]
      <4>1. \A group, name : Pick(group, name).kind = "change"
        BY DEF Pick
      <4> QED BY <4>1, Kinds
    <3> QED BY <3>2, <3>3, <3>4, <3>5 DEF Fits
  <2>4. IsGlobal
    BY <2>3 DEF IsGlobal
  <2>5. Fits(steps) /\ EndsInLoad(steps)
    BY <2>4, EndpointFits DEF steps
  <2>6. Rest(w)' = steps
    BY <1>1, <1>2, <2>2 DEF Rest
  <2>7. HandlerFits(w)'
    <3>1. Fits(Rest(w))'
      BY <1>1, <2>5, <2>6, FitsKept
    <3> QED BY <1>1, <2>2, <3>1 DEF HandlerFits
  <2>8. UpInv'
    BY <1>1, <1>2, <2>1, <2>7, UpByHandler
  <2>9. AgreeInv'
    <3> SUFFICES ASSUME upset' = {} PROVE /\ \A u \in UI : plan'[u] = <<>> => handler'[u] = "idle"
                                          /\ \A u \in UI : IsGlobal' => EndsInLoad(plan'[u])
                                          /\ AllWell' => Agreement'
      BY <1>6 DEF AgreeInv
    <3>1. steps # <<>> /\ upset = {}
      BY <1>1
    <3>2. \A u \in UI : plan'[u] = <<>> => handler'[u] = "idle"
      BY <1>1, <1>2, <2>1 DEF Ready
    <3>3. \A u \in UI : IsGlobal' => EndsInLoad(plan'[u])
      BY <1>1, <1>2, <1>6, <2>5, <2>4, <3>1 DEF AgreeInv
    <3>4. AllWell' => Agreement
      BY <1>1, <1>6, <3>1 DEF AgreeInv, AllWell
    <3>5. ASSUME Agreement PROVE Agreement'
      <4>1. \A u \in UI, g \in Group :
               Rest(u) # <<Pick(g, saved.picks[active][g])>>
        <5>1. Rest(w) = <<[kind |-> "endpoint"]>>
          BY <1>1, <2>2 DEF Rest
        <5>2. \A group, name : Pick(group, name).kind = "change"
          BY DEF Pick
        <5>3. \A x : <<[kind |-> "endpoint"]>> = <<x>> => x = [kind |-> "endpoint"]
          OBVIOUS
        <5>4. \A x : <<>> # <<x>>
          OBVIOUS
        <5> QED BY <2>1, <5>1, <5>2, <5>3, <5>4
      <4>2. GroupsOf(active) \subseteq Group
        BY EndpointNames
      <4>3. \A g \in GroupsOf(active) \ displaced :
               CanSelect(active, g) => core.sel[g] = saved.picks[active][g]
        BY <3>5, <4>1, <4>2 DEF Agreement
      <4>4. saved'.mode # "rule" /\ Rest(w)' # <<>>
        BY <1>1, <2>3, <2>6, <3>1
      <4> QED BY <1>1, <3>5, <4>3, <4>4 DEF Agreement
    <3> QED BY <3>2, <3>3, <3>4, <3>5
  <2> QED BY <1>4, <2>8, <2>9 DEF AppInv
<1> QED BY <1>5, <1>6

LEMMA AnsweredInv ==
    ASSUME IInv, NEW w \in UI, Answered(w)
    PROVE  AppInv'
<1> USE DEF IInv
<1>1. /\ plan[w] # <<>> /\ handler[w] = "answered"
      /\ handler' = [handler EXCEPT ![w] = "idle"]
      /\ outcome' = [outcome EXCEPT ![w] = "none"]
      /\ plan' = [plan EXCEPT ![w] = IF outcome[w] = "rejected" THEN <<>> ELSE Tail(plan[w])]
      /\ upset' = IF outcome[w] = "good" THEN upset ELSE upset \cup {"failure"}
      /\ UNCHANGED <<core, configParams, saved, active, proc, displaced>>
  BY DEF Answered, Forget, At
<1>2. w \in Client /\ w # Vpn
  BY ClientsAssumption
<1>3. /\ handler'[w] = "idle" /\ \A c \in Client \ {w} : handler'[c] = handler[c]
      /\ \A c \in Client \ {w} : outcome'[c] = outcome[c]
      /\ plan'[w] = IF outcome[w] = "rejected" THEN <<>> ELSE Tail(plan[w])
      /\ \A u \in UI \ {w} : plan'[u] = plan[u]
  BY <1>1, <1>2 DEF TypeOK, CoreTypeOK
<1>4. Orderly' => Orderly
  BY <1>1 DEF Orderly
<1>5. LoadingInv'
  BY <1>1, <1>4, LoadingIdle DEF LoadingInv
<1>6. CASE ~(proc = "up" /\ Orderly)
  BY <1>1, <1>4, <1>5, <1>6 DEF AppInv, UpInv, AgreeInv, Orderly
<1>7. CASE proc = "up" /\ Orderly
  <2>1. /\ \A u \in UI \ {w} : Ready(u) /\ Rest(u) = <<>>
        /\ HandlerFits(w) /\ handler[Vpn] = "idle"
    BY <1>1, <1>7, OnlyOne
  <2>2. \A u \in UI \ {w} : handler'[u] = handler[u] /\ plan'[u] = plan[u]
    BY <1>1, <1>3, ClientsAssumption
  <2>3. Rest(w)' = Rest(w) /\ Rest(w) = plan'[w]
    BY <1>1, <1>3 DEF Rest
  <2>4. HandlerFits(w)'
    <3>1. Fits(Rest(w))'
      BY <1>1, <2>1, <2>3, FitsKept DEF HandlerFits
    <3> QED BY <1>1, <1>3, <3>1 DEF HandlerFits
  <2>5. UpInv'
    BY <1>2, <1>3, <2>1, <2>2, <2>4, UpByHandler, ClientsAssumption
  <2>6. AgreeInv'
    <3> SUFFICES ASSUME upset' = {} PROVE /\ \A u \in UI : plan'[u] = <<>> => handler'[u] = "idle"
                                          /\ \A u \in UI : IsGlobal' => EndsInLoad(plan'[u])
                                          /\ AllWell' => Agreement'
      BY <1>7 DEF AgreeInv
    <3>1. outcome[w] = "good" /\ upset = {} /\ plan'[w] = Tail(plan[w])
      BY <1>1, <1>3
    <3>2. \A u \in UI : plan'[u] = <<>> => handler'[u] = "idle"
      BY <1>3, <2>1, <2>2 DEF Ready
    <3>3. IsGlobal' = IsGlobal
      BY <1>1, FitsKept
    <3>4. ASSUME IsGlobal PROVE EndsInLoad(plan'[w])
      <4>1. plan[w] \in Seq(PlanStep) /\ EndsInLoad(plan[w])
        BY <1>7, <3>1, <3>4 DEF AgreeInv, TypeOK, PlanStep
      <4> HIDE DEF PlanStep
      <4>2. plan'[w] # <<>> => plan'[w][Len(plan'[w])] = plan[w][Len(plan[w])]
        BY <1>1, <3>1, <4>1
      <4> QED BY <1>1, <4>1, <4>2 DEF EndsInLoad
    <3>5. \A u \in UI : IsGlobal' => EndsInLoad(plan'[u])
      BY <1>7, <2>2, <3>1, <3>3, <3>4 DEF AgreeInv
    <3>6. AllWell' => AllWell
      BY <1>3, <2>1, <2>2, <3>1 DEF AllWell, Ready
    <3>7. Agreement => Agreement'
      BY <1>1, <2>1, <2>3, AgreementKept
    <3> QED BY <1>7, <3>1, <3>2, <3>5, <3>6, <3>7 DEF AgreeInv
  <2> QED BY <1>5, <2>5, <2>6 DEF AppInv
<1> QED BY <1>6, <1>7

LEMMA TimeOutInv ==
    ASSUME IInv, NEW w \in UI, TimeOut(w)
    PROVE  AppInv'
<1> USE DEF IInv
<1>1. /\ plan[w] # <<>> /\ handler[w] \notin {"idle", "answered"}
      /\ plan' = [plan EXCEPT ![w] = <<>>]
      /\ upset' = upset \cup {"failure"}
      /\ UNCHANGED <<core, configParams, handler, request, outcome,
                     saved, active, proc, displaced>>
  BY DEF TimeOut, coreVars
<1>2. plan'[w] = <<>> /\ \A u \in UI \ {w} : plan'[u] = plan[u]
  BY <1>1 DEF TypeOK
<1>3. (Orderly' => Orderly) /\ upset' # {}
  BY <1>1 DEF Orderly
<1>4. LoadingInv'
  BY <1>1, <1>3, LoadingIdle DEF LoadingInv
<1>5. AgreeInv'
  BY <1>3 DEF AgreeInv
<1>6. CASE ~(proc = "up" /\ Orderly)
  BY <1>1, <1>3, <1>4, <1>5, <1>6 DEF AppInv, UpInv
<1>7. CASE proc = "up" /\ Orderly
  <2>1. /\ \A u \in UI \ {w} : Ready(u) /\ Rest(u) = <<>>
        /\ HandlerFits(w) /\ handler[Vpn] = "idle"
    BY <1>1, <1>7, OnlyOne
  <2>2. /\ handler[w] # "stuck" => Rest(w) = plan[w] /\ Rest(w)' = <<request[w]>>
        /\ handler[w] = "stuck" => Rest(w)' = <<>>
    BY <1>1, <1>2 DEF Rest
  <2>3. handler[w] # "stuck" => Fits(<<request[w]>>)
    BY <1>1, <2>1, <2>2, FitsHead DEF HandlerFits
  <2>4. Displaces(w)' = {}
    <3>1. Len(<<>>) # 3
      OBVIOUS
    <3> QED BY <1>2, <3>1 DEF Displaces
  <2>5. HandlerFits(w)'
    <3>1. Fits(Rest(w))'
      <4>1. CASE handler[w] # "stuck"
        BY <1>1, <2>2, <2>3, <4>1, FitsKept
      <4>2. CASE handler[w] = "stuck"
        BY <2>2, <4>2 DEF Fits
      <4> QED BY <4>1, <4>2
    <3> QED BY <1>1, <1>2, <2>1, <2>4, <3>1 DEF HandlerFits
  <2>6. UpInv'
    BY <1>1, <1>2, <2>1, <2>5, UpByHandler
  <2> QED BY <1>4, <1>5, <2>6 DEF AppInv
<1> QED BY <1>6, <1>7

LEMMA UnheardInv ==
    ASSUME IInv, NEW w \in UI, Unheard(w)
    PROVE  AppInv'
<1> USE DEF IInv
<1>1. /\ plan[w] = <<>> /\ handler[w] = "answered"
      /\ handler' = [handler EXCEPT ![w] = "idle"]
      /\ UNCHANGED <<core, configParams, saved, active, proc, plan, upset, displaced>>
  BY DEF Unheard, Forget, At, appVars
<1>2. w \in Client /\ w # Vpn
  BY ClientsAssumption
<1>3. handler'[w] = "idle" /\ \A c \in Client \ {w} : handler'[c] = handler[c]
  BY <1>1, <1>2 DEF TypeOK, CoreTypeOK
<1>4. LoadingInv'
  BY <1>1, LoadingIdle DEF LoadingInv, Orderly
<1>5. AgreeInv'
  BY <1>1 DEF AgreeInv
<1>6. CASE ~(proc = "up" /\ Orderly)
  BY <1>1, <1>4, <1>5, <1>6 DEF AppInv, UpInv, Orderly
<1>7. CASE proc = "up" /\ Orderly
  <2>1. /\ \A u \in UI \ {w} : Ready(u) /\ Rest(u) = <<>>
        /\ HandlerFits(w) /\ handler[Vpn] = "idle"
    BY <1>1, <1>7, OnlyOne
  <2>2. Rest(w)' = <<>>
    BY <1>1, <1>3 DEF Rest
  <2>3. HandlerFits(w)'
    BY <1>1, <1>3, <2>2 DEF HandlerFits, Fits
  <2>4. UpInv'
    BY <1>1, <1>2, <1>3, <2>1, <2>3, UpByHandler, ClientsAssumption
  <2> QED BY <1>4, <1>5, <2>4 DEF AppInv
<1> QED BY <1>6, <1>7

-----------------------------------------------------------------------------

(* The steps of the core.                                                  *)

\* In the loading the only request is that of the start.
LEMMA ServeLoading ==
    ASSUME IInv, NEW c \in Client, HandlerStep(c), proc = "loading"
    PROVE  AppInv'
<1> USE DEF IInv
<1>1. UNCHANGED <<saved, active, proc, plan, upset, displaced>> /\ Serve(c)
  BY DEF HandlerStep, appVars
<1>2. UpInv' /\ AgreeInv'
  BY <1>1 DEF UpInv, AgreeInv
<1>3. CASE ~Orderly
  BY <1>1, <1>2, <1>3 DEF AppInv, LoadingInv, Orderly
<1>4. CASE Orderly
  <2>1. c = Vpn
    <3>1. \A u \in UI : handler[u] = "idle"
      BY <1>4, LoadingIdle
    <3>2. handler[c] # "idle"
      BY <1>1 DEF Serve, Decorate, ApplyPatch, ApplyConfig, PatchSelectGroup, LockChange,
                  ChangeProxy, ChangeProxyStuck, At
    <3> QED BY <3>1, <3>2, ClientsAssumption
  <2>2. /\ request[Vpn] = ActiveLoad /\ ActiveLoad \in Load
        /\ ~ActiveLoad.patch /\ ActiveLoad.profile = active
        /\ ActiveLoad.mode = ActiveResolution.mode /\ ActiveLoad.picks = ActiveResolution.picks
    <3>1. request[Vpn] = ActiveLoad
      BY <1>4 DEF LoadingInv
    <3>2. handler[Vpn] # "idle"
      BY <1>4 DEF LoadingInv
    <3>3. saved.picks[active] \in [Selectors -> Names] /\ active \in Profile
      BY DEF TypeOK, Saved
    <3>4. ActiveLoad \in Load
      BY <3>3, ResolveType DEF ActiveLoad, ActiveResolution, Load
    <3> QED BY <3>1, <3>4 DEF ActiveLoad
  <2>3. SUFFICES ASSUME UNCHANGED <<saved, active>>
                 PROVE  LoadingInv'
    BY <1>1, <1>2 DEF AppInv
  <2>4. ActiveLoad' = ActiveLoad /\ ActiveResolution' = ActiveResolution
        /\ Restarted' = Restarted /\ Holder' = Holder
    BY <2>3 DEF ActiveLoad, ActiveResolution, Restarted, Holder, Endpoint
  <2>5. Vpn \in Client
    BY ClientsAssumption
  <2>6. ASSUME request' = request, handler'[Vpn] # "idle",
               \A u \in UI : handler'[u] = handler[u],
               handler'[Vpn] \in {"decorated", "applied"} => configParams' = ParamsOf(ActiveLoad),
               handler'[Vpn] = "answered" /\ outcome'[Vpn] = "good" => core' = Restarted
        PROVE  LoadingInv'
    BY <1>1, <1>4, <2>4, <2>6 DEF LoadingInv, Calm, Ready
  <2>7. ASSUME NEW reading \in Readings, Decorate(Vpn, reading) PROVE LoadingInv'
    <3>1. handler' = [handler EXCEPT ![Vpn] = "decorated"] /\ request' = request
      BY <2>7 DEF Decorate, At
    <3>2. handler'[Vpn] = "decorated" /\ \A u \in UI : handler'[u] = handler[u]
      BY <3>1, ClientsAssumption DEF TypeOK, CoreTypeOK
    <3>3. configParams' = ParamsOf(ActiveLoad)
      BY <2>2, <2>7 DEF Decorate, ParamsOf
    <3> QED BY <2>6, <3>1, <3>2, <3>3
  <2>8. CASE ApplyPatch(Vpn)
    <3>1. configParams = ParamsOf(ActiveLoad) /\ configParams.patch
      BY <1>4, <2>8 DEF LoadingInv, ApplyPatch, At
    <3> QED BY <2>2, <3>1 DEF ParamsOf
  <2>9. CASE ApplyConfig(Vpn)
    <3>1. /\ handler[Vpn] = "decorated" /\ handler' = [handler EXCEPT ![Vpn] = "applied"]
          /\ request' = request /\ configParams' = configParams
      BY <2>9 DEF ApplyConfig, At
    <3>2. handler'[Vpn] = "applied" /\ \A u \in UI : handler'[u] = handler[u]
      BY <3>1, ClientsAssumption DEF TypeOK, CoreTypeOK
    <3>3. configParams' = ParamsOf(ActiveLoad)
      BY <1>4, <3>1 DEF LoadingInv
    <3> QED BY <2>6, <3>1, <3>2, <3>3
  <2>10. CASE PatchSelectGroup(Vpn)
    <3>1. /\ handler[Vpn] = "applied" /\ handler' = [handler EXCEPT ![Vpn] = "answered"]
          /\ request' = request /\ outcome' = outcome
          /\ core' = AfterSelect(core, configParams.picks)
      BY <2>10 DEF PatchSelectGroup, At
    <3>2. handler'[Vpn] = "answered" /\ \A u \in UI : handler'[u] = handler[u]
      BY <3>1, ClientsAssumption DEF TypeOK, CoreTypeOK
    <3>3. configParams.picks = ActiveResolution.picks
      <4>1. configParams = ParamsOf(ActiveLoad)
        BY <1>4, <3>1 DEF LoadingInv
      <4> QED BY <2>2, <4>1 DEF ParamsOf
    <3>4. core = AfterApply(ActiveLoad, outcome[Vpn])
      BY <2>2, <2>5, <3>1 DEF CoreInv, HalfApplied
    <3>5. outcome[Vpn] = "good" =>
            core = [px |-> active, mode |-> ActiveResolution.mode, sel |-> NoPicks]
      BY <2>2, <3>4 DEF AfterApply, PxOf, ModeOf
    <3>6. outcome[Vpn] = "good" => core' = Restarted
      BY <3>1, <3>3, <3>5 DEF Restarted, ActiveResolution
    <3> QED BY <2>6, <3>1, <3>2, <3>6
  <2>11. CASE LockChange(Vpn)
    BY <2>2, <2>11, Kinds DEF LockChange
  <2>12. CASE ChangeProxy(Vpn) \/ ChangeProxyStuck(Vpn)
    <3>1. request[Vpn] \in Change
      BY <2>5, <2>12 DEF ChangeProxy, ChangeProxyStuck, At, CoreInv, RequestFits
    <3> QED BY <2>2, <3>1, Kinds
  <2> QED BY <1>1, <2>1, <2>7, <2>8, <2>9, <2>10, <2>11, <2>12 DEF Serve
<1> QED BY <1>3, <1>4

\* In a core that is up the only request is that of the handler that has
\* something to do, and it is the next one.
LEMMA ServingHandler ==
    ASSUME IInv, proc = "up", Orderly, NEW c \in Client, Serve(c)
    PROVE  /\ c \in UI /\ handler[c] \in {"sent", "decorated", "changing"}
           /\ \A u \in UI \ {c} : Ready(u) /\ Rest(u) = <<>>
           /\ HandlerFits(c)
           /\ Rest(c) # <<>> /\ Head(Rest(c)) = request[c] /\ request[c] \in Load \cup Change
           /\ Rest(c) = IF plan[c] = <<>> THEN <<request[c]>> ELSE plan[c]
           /\ Fits(Rest(c))
           /\ ~ApplyConfig(c) /\ ~PatchSelectGroup(c)
<1> USE DEF IInv
<1>1. handler[c] \in {"sent", "decorated", "applied", "changing"}
  BY DEF Serve, Decorate, ApplyPatch, ApplyConfig, PatchSelectGroup, LockChange, ChangeProxy,
         ChangeProxyStuck, At
<1>2. c \in UI
  BY <1>1, ClientsAssumption DEF UpInv
<1>3. /\ \A u \in UI \ {c} : Ready(u) /\ Rest(u) = <<>>
      /\ HandlerFits(c)
  BY <1>1, <1>2, OnlyOne
<1>4. handler[c] # "applied" /\ (handler[c] = "decorated" => configParams.patch)
  BY <1>3 DEF HandlerFits
<1>5. request[c] \in Load \cup Change
  BY <1>1 DEF CoreInv, RequestFits
<1>6. Rest(c) = IF plan[c] = <<>> THEN <<request[c]>> ELSE plan[c]
  BY <1>1 DEF Rest
<1>7. Rest(c) # <<>> /\ Head(Rest(c)) = request[c]
  BY <1>1, <1>3, <1>6 DEF HandlerFits
<1>8. ~ApplyConfig(c) /\ ~PatchSelectGroup(c)
  BY <1>4 DEF ApplyConfig, PatchSelectGroup, At
<1> QED BY <1>1, <1>2, <1>3, <1>4, <1>5, <1>6, <1>7, <1>8 DEF HandlerFits

\* The steps of a request before it takes effect.
LEMMA ServeBefore ==
    ASSUME IInv, NEW w \in Client, HandlerStep(w), proc = "up", Orderly,
           (\E reading \in Readings : Decorate(w, reading)) \/ LockChange(w)
    PROVE  UpInv' /\ AgreeInv'
<1> USE DEF IInv
<1>1. UNCHANGED <<saved, active, proc, plan, upset, displaced>> /\ Serve(w)
  BY DEF HandlerStep, appVars
<1>2. /\ w \in UI /\ w # Vpn /\ handler[w] \in {"sent", "decorated", "changing"}
      /\ \A u \in UI \ {w} : Ready(u) /\ Rest(u) = <<>>
      /\ HandlerFits(w) /\ handler[Vpn] = "idle"
      /\ Rest(w) # <<>> /\ Head(Rest(w)) = request[w]
      /\ Fits(Rest(w))
  BY <1>1, ServingHandler, ClientsAssumption DEF UpInv
<1>3. /\ handler'[w] \in {"decorated", "changing"}
      /\ \A d \in Client \ {w} : handler'[d] = handler[d]
      /\ UNCHANGED <<core, request>>
      /\ handler'[w] = "decorated" => /\ request[w] \in Load
                                      /\ configParams'.patch = request[w].patch
  BY DEF Decorate, LockChange, At, TypeOK, CoreTypeOK
<1>4. Rest(w)' = Rest(w)
  BY <1>1, <1>2, <1>3 DEF Rest
<1>5. HandlerFits(w)'
  <2>1. Fits(Rest(w))'
    BY <1>1, <1>2, <1>3, <1>4, FitsKept
  <2>2. Displaces(w)' = Displaces(w)
    BY <1>1 DEF Displaces
  <2>3. ASSUME request[w] \in Load PROVE request[w].patch
    <3>1. PICK mode \in Modes : Rest(w) = <<Patch(mode)>>
      BY <1>2, <2>3, NextLoad
    <3>2. Head(<<Patch(mode)>>) = Patch(mode)
      OBVIOUS
    <3> QED BY <1>2, <3>1, <3>2, Kinds
  <2> QED BY <1>1, <1>2, <1>3, <2>1, <2>2, <2>3 DEF HandlerFits
<1>6. \A u \in UI \ {w} : handler'[u] = handler[u]
  BY <1>3, ClientsAssumption
<1>7. UpInv'
  BY <1>1, <1>2, <1>3, <1>5, <1>6, UpByHandler, ClientsAssumption
<1>8. AgreeInv'
  <2>1. AllWell' => AllWell
    BY <1>2, <1>3, <1>6 DEF AllWell, Ready
  <2>2. Agreement => Agreement'
    BY <1>1, <1>2, <1>3, <1>4, AgreementKept
  <2>3. IsGlobal' = IsGlobal
    BY <1>1, <1>3, FitsKept
  <2> QED BY <1>1, <1>2, <1>3, <1>6, <2>1, <2>2, <2>3 DEF AgreeInv, Ready
<1> QED BY <1>7, <1>8

\* A patch takes effect.
LEMMA ServePatch ==
    ASSUME IInv, NEW w \in Client, HandlerStep(w), proc = "up", Orderly, ApplyPatch(w)
    PROVE  UpInv' /\ AgreeInv'
<1> USE DEF IInv
<1>1. UNCHANGED <<saved, active, proc, plan, upset, displaced>> /\ Serve(w)
  BY DEF HandlerStep, appVars
<1>2. /\ w \in UI /\ w # Vpn /\ handler[w] = "decorated"
      /\ \A u \in UI \ {w} : Ready(u) /\ Rest(u) = <<>>
      /\ HandlerFits(w) /\ handler[Vpn] = "idle"
      /\ Rest(w) # <<>> /\ Head(Rest(w)) = request[w]
      /\ Rest(w) = IF plan[w] = <<>> THEN <<request[w]>> ELSE plan[w]
      /\ Fits(Rest(w))
  BY <1>1, ServingHandler, ClientsAssumption DEF UpInv, ApplyPatch, At
<1>3. /\ handler'[w] = "answered"
      /\ \A d \in Client \ {w} : handler'[d] = handler[d]
      /\ core' = AfterPatch(core, request[w], outcome[w])
      /\ UNCHANGED <<request, outcome, configParams>>
  BY DEF ApplyPatch, At, TypeOK, CoreTypeOK
<1>4. request[w] \in Load /\ outcome[w] \in Readings /\ outcome[w] # "rejected"
  BY <1>2 DEF CoreInv, RequestFits, Readings
<1>5. PICK mode \in Modes : Rest(w) = <<Patch(mode)>> /\ PatchFits(mode)
  BY <1>2, <1>4, NextLoad
<1>6. request[w] = Patch(mode) /\ Tail(Rest(w)) = <<>> /\ Patch(mode).mode = mode
  <2>1. \A x : Head(<<x>>) = x /\ Tail(<<x>>) = <<>>
    OBVIOUS
  <2>2. Patch(mode).mode = mode
    BY DEF Patch
  <2> QED BY <1>2, <1>5, <2>1, <2>2
<1>7. Rest(w)' = <<>>
  BY <1>1, <1>2, <1>3, <1>4, <1>6 DEF Rest
<1>8. HandlerFits(w)'
  <2>1. Displaces(w)' = Displaces(w)
    BY <1>1 DEF Displaces
  <2> QED BY <1>1, <1>2, <1>3, <1>7, <2>1 DEF HandlerFits, Fits
<1>9. \A u \in UI \ {w} : handler'[u] = handler[u] /\ plan'[u] = plan[u]
  BY <1>1, <1>3, ClientsAssumption
<1>10. UpInv'
  BY <1>2, <1>3, <1>8, <1>9, UpByHandler, ClientsAssumption
<1>11. ASSUME upset = {}, AllWell' PROVE Agreement'
  <2>1. outcome[w] = "good"
    BY <1>2, <1>3, <1>11 DEF AllWell
  <2>2. core'.mode = mode /\ core'.px = core.px /\ core'.sel = core.sel
    BY <1>3, <1>6, <2>1 DEF AfterPatch, ModeOf, TypeOK, CoreTypeOK, Core
  <2>3. Agreement
    BY <1>1, <1>2, <1>11 DEF AgreeInv, AllWell, Ready
  <2>4. \A g \in Group, name \in Names, u \in UI : Rest(u) # <<Pick(g, name)>>
    <3>1. \A x, y : <<x>> = <<y>> => x = y
      OBVIOUS
    <3>2. \A x : <<>> # <<x>>
      OBVIOUS
    <3>3. \A g \in Group, name \in Names : Pick(g, name) # Patch(mode)
      BY Kinds, EndpointNames
    <3> QED BY <1>2, <1>5, <3>1, <3>2, <3>3
  <2>5. \A g \in GroupsOf(active) \ displaced :
           CanSelect(active, g) => core.sel[g] = saved.picks[active][g]
    BY <2>3, <2>4, EndpointNames DEF Agreement
  <2>6. saved.mode = "rule" => mode = "RULE"
    BY <1>5 DEF PatchFits, Modes, IsGlobal, NodeChosen, GroupChosen
  <2>7. Endpoint' = Endpoint /\ Holder' = Holder /\ IsGlobal' = IsGlobal
    BY <1>1 DEF Endpoint, Holder, IsGlobal
  <2>8. IsGlobal => GlobalSettled'
    <3> SUFFICES ASSUME IsGlobal PROVE GlobalSettled'
      OBVIOUS
    <3>1. CASE mode = "DIRECT"
      <4>1. Endpoint = "DIRECT" /\ Endpoint \notin GroupsOf(active)
        BY <1>5, <3>1, EndpointNames DEF PatchFits, IsGlobal
      <4> QED BY <1>1, <2>2, <2>7, <3>1, <4>1 DEF GlobalSettled
    <3>2. CASE mode = "GLOBAL"
      <4>1. \/ NodeChosen /\ HolderSet /\ GlobalSetTo(Holder)
            \/ GroupChosen /\ GlobalSetTo(Endpoint)
        BY <1>5, <3>2 DEF PatchFits
      <4>2. ASSUME NodeChosen, HolderSet, GlobalSetTo(Holder) PROVE GlobalSettled'
        BY <1>1, <2>2, <2>7, <3>2, <4>2 DEF NodeChosen, HolderSet, GlobalSetTo, GlobalSettled
      <4>3. ASSUME GroupChosen, GlobalSetTo(Endpoint) PROVE GlobalSettled'
        <5>1. Endpoint \in GroupsOf(active) /\ Endpoint # "DIRECT"
          BY <4>3, EndpointNames DEF GroupChosen
        <5> QED BY <1>1, <2>2, <2>7, <3>2, <4>3, <5>1 DEF GlobalSetTo, GlobalSettled
      <4> QED BY <4>1, <4>2, <4>3
    <3>3. CASE mode = "RULE"
      BY <1>5, <3>3 DEF PatchFits, IsGlobal
    <3> QED BY <3>1, <3>2, <3>3 DEF Modes
  <2> QED BY <1>1, <2>2, <2>3, <2>5, <2>6, <2>7, <2>8 DEF Agreement
<1>12. AgreeInv'
  <2>1. IsGlobal' = IsGlobal
    BY <1>1 DEF IsGlobal
  <2> QED BY <1>1, <1>2, <1>3, <1>9, <1>11, <2>1 DEF AgreeInv, Ready
<1> QED BY <1>10, <1>12

\* What an accepted choice makes of the core.
LEMMA Accepted ==
    ASSUME TypeOK, NEW g \in Selectors, NEW name \in Names, Accepts(core, Pick(g, name)),
           core' = AfterChange(core, Pick(g, name))
    PROVE  /\ CanSelect(core.px, g) /\ name \in MembersOf(core.px, g) \cup {""}
           /\ core'.px = core.px /\ core'.mode = core.mode
           /\ core'.sel[g] = name
           /\ \A h \in Selectors : h # g => core'.sel[h] = core.sel[h]
<1>1. Pick(g, name).group = g /\ Pick(g, name).name = name
  BY Kinds
<1>2. core \in Core
  BY DEF TypeOK, CoreTypeOK
<1>3. core.sel \in [Selectors -> Names]
  BY <1>2 DEF Core
<1>4. core' = [core EXCEPT !.sel = [core.sel EXCEPT ![g] = name]]
  BY <1>1 DEF AfterChange
<1>5. core'.px = core.px /\ core'.mode = core.mode /\ core'.sel = [core.sel EXCEPT ![g] = name]
  BY <1>2, <1>4 DEF Core
<1> QED BY <1>1, <1>3, <1>5 DEF Accepts

LEMMA HolderPicked ==
    ASSUME TypeOK, NodeChosen, Accepts(core, Pick(Holder, Endpoint)),
           core' = AfterChange(core, Pick(Holder, Endpoint)), UNCHANGED <<saved, active>>
    PROVE  HolderSet'
<1>1. Holder \in Selectors /\ Endpoint \in Names /\ Endpoint # ""
  BY EndpointNames DEF NodeChosen
<1>2. Holder' = Holder /\ Endpoint' = Endpoint
  BY DEF Holder, Endpoint
<1> QED BY <1>1, <1>2, Accepted DEF HolderSet

LEMMA GlobalPicked ==
    ASSUME TypeOK, NEW name \in Group, Accepts(core, Pick("GLOBAL", name)),
           core' = AfterChange(core, Pick("GLOBAL", name)), UNCHANGED <<saved, active>>
    PROVE  GlobalSetTo(name)' /\ (NodeChosen /\ HolderSet => HolderSet')
<1>1. name \in Names /\ name # "" /\ "GLOBAL" \in Selectors
  BY EndpointNames
<1>2. Holder' = Holder /\ Endpoint' = Endpoint
  BY DEF Holder, Endpoint
<1>3. NodeChosen => Holder \in Selectors /\ Holder # "GLOBAL"
  BY EndpointNames DEF NodeChosen
<1>4. /\ name \in MembersOf(core.px, "GLOBAL")
      /\ core'.px = core.px /\ core'.sel["GLOBAL"] = name
      /\ \A h \in Selectors : h # "GLOBAL" => core'.sel[h] = core.sel[h]
  BY <1>1, Accepted
<1>5. GlobalSetTo(name)'
  BY <1>4 DEF GlobalSetTo
<1> QED BY <1>2, <1>3, <1>4, <1>5 DEF HolderSet

\* A choice takes effect, or is refused.
LEMMA ServeChange ==
    ASSUME IInv, NEW w \in Client, HandlerStep(w), proc = "up", Orderly,
           ChangeProxy(w) \/ ChangeProxyStuck(w)
    PROVE  UpInv' /\ AgreeInv'
<1> USE DEF IInv
<1> DEFINE accepted == Accepts(core, request[w])
<1>1. UNCHANGED <<saved, active, proc, plan, upset, displaced>> /\ Serve(w)
  BY DEF HandlerStep, appVars
<1>2. /\ w \in UI /\ w # Vpn /\ handler[w] = "changing"
      /\ \A u \in UI \ {w} : Ready(u) /\ Rest(u) = <<>>
      /\ HandlerFits(w) /\ handler[Vpn] = "idle"
      /\ Rest(w) # <<>> /\ Head(Rest(w)) = request[w]
      /\ Rest(w) = IF plan[w] = <<>> THEN <<request[w]>> ELSE plan[w]
      /\ Fits(Rest(w))
  BY <1>1, ServingHandler, ClientsAssumption DEF UpInv, ChangeProxy, ChangeProxyStuck, At
<1>3. /\ handler'[w] \in {"answered", "stuck"}
      /\ \A d \in Client \ {w} : handler'[d] = handler[d] /\ outcome'[d] = outcome[d]
      /\ core' = AfterChange(core, request[w])
      /\ handler'[w] = "answered" =>
            outcome'[w] = IF accepted THEN "good" ELSE "rejected"
      /\ handler'[w] = "stuck" => accepted
      /\ UNCHANGED <<request, configParams>>
  <2>1. CASE ChangeProxy(w)
    BY <2>1 DEF ChangeProxy, At, TypeOK, CoreTypeOK
  <2>2. CASE ChangeProxyStuck(w)
    BY <2>2 DEF ChangeProxyStuck, TestsChosen, At, TypeOK, CoreTypeOK
  <2> QED BY <2>1, <2>2
<1>4. request[w] \in Change
  BY <1>2 DEF CoreInv, RequestFits
<1>5. \/ PickOfGroup(Rest(w)) \/ PickOfHolder(Rest(w))
      \/ \E name \in Group : PickOfGlobal(Rest(w), name)
  BY <1>2, <1>4, NextChange
<1>6. Rest(w)' = IF plan[w] = <<>> \/ ~accepted THEN <<>> ELSE Tail(plan[w])
  <2> HIDE DEF accepted
  <2>1. CASE handler'[w] = "answered"
    <3>1. outcome'[w] = "rejected" <=> ~accepted
      BY <1>3, <2>1
    <3> QED BY <1>1, <2>1, <3>1 DEF Rest
  <2>2. CASE handler'[w] = "stuck"
    BY <1>1, <1>3, <2>2 DEF Rest
  <2> QED BY <1>3, <2>1, <2>2
<1>7. /\ Endpoint' = Endpoint /\ Holder' = Holder /\ IsGlobal' = IsGlobal
      /\ NodeChosen' = NodeChosen /\ GroupChosen' = GroupChosen
      /\ \A mode : Patch(mode)' = Patch(mode)
  BY <1>1 DEF Endpoint, Holder, IsGlobal, NodeChosen, GroupChosen, Patch
<1>8. \A a, b, c : /\ Head(<<a>>) = a /\ Head(<<a, b>>) = a /\ Head(<<a, b, c>>) = a
                   /\ Tail(<<a>>) = <<>> /\ Tail(<<a, b>>) = <<b>> /\ Tail(<<a, b, c>>) = <<b, c>>
                   /\ <<b, c>> # <<>> /\ <<b>> # <<>>
  OBVIOUS
<1> HIDE DEF accepted
<1>9. Fits(Rest(w))'
  <2>1. CASE plan[w] = <<>> \/ ~accepted
    BY <1>6, <2>1 DEF Fits
  <2>2. CASE plan[w] # <<>> /\ accepted
    <3>1. Rest(w)' = Tail(Rest(w))
      BY <1>2, <1>6, <2>2
    <3>2. ASSUME PickOfGroup(Rest(w)) PROVE Fits(Rest(w))'
      BY <1>8, <3>1, <3>2 DEF PickOfGroup, Fits
    <3>3. ASSUME PickOfHolder(Rest(w)) PROVE Fits(Rest(w))'
      <4>1. request[w] = Pick(Holder, Endpoint) /\ NodeChosen
        BY <1>2, <1>8, <3>3 DEF PickOfHolder
      <4>2. HolderSet'
        BY <1>1, <1>3, <2>2, <4>1, HolderPicked DEF accepted
      <4>3. Rest(w)' \in {<<Pick("GLOBAL", Holder), Patch("GLOBAL")>>, <<>>}
        <5> DEFINE a == Pick(Holder, Endpoint)
                   b == Pick("GLOBAL", Holder)
                   c == Patch("GLOBAL")
        <5>1. Rest(w) = <<a, b, c>> \/ Rest(w) = <<a>>
          BY <3>3 DEF PickOfHolder
        <5> HIDE DEF a, b, c
        <5>2. Tail(<<a, b, c>>) = <<b, c>> /\ Tail(<<a>>) = <<>>
          BY <1>8
        <5>3. Tail(Rest(w)) = <<b, c>> \/ Tail(Rest(w)) = <<>>
          BY <5>1, <5>2, Zenon
        <5> QED BY <3>1, <5>3 DEF b, c
      <4> QED BY <1>7, <4>1, <4>2, <4>3 DEF Fits
    <3>4. ASSUME NEW name \in Group, PickOfGlobal(Rest(w), name) PROVE Fits(Rest(w))'
      <4>1. request[w] = Pick("GLOBAL", name)
        BY <1>2, <1>8, <3>4 DEF PickOfGlobal
      <4>2. GlobalSetTo(name)' /\ (NodeChosen /\ HolderSet => HolderSet')
        BY <1>1, <1>3, <2>2, <4>1, GlobalPicked DEF accepted
      <4>3. Rest(w)' \in {<<Patch("GLOBAL")>>, <<>>}
        BY <1>8, <3>1, <3>4 DEF PickOfGlobal
      <4>4. PatchFits("GLOBAL")'
        BY <1>7, <3>4, <4>2 DEF PickOfGlobal, PatchFits
      <4>5. "GLOBAL" \in Modes
        BY DEF Modes
      <4> QED BY <1>7, <4>3, <4>4, <4>5 DEF Fits
    <3> QED BY <1>5, <3>2, <3>3, <3>4
  <2> QED BY <2>1, <2>2
<1>10. HandlerFits(w)'
  <2>1. Displaces(w)' = Displaces(w)
    BY <1>1 DEF Displaces
  <2> QED BY <1>1, <1>2, <1>3, <1>9, <2>1 DEF HandlerFits
<1>11. \A u \in UI \ {w} : handler'[u] = handler[u] /\ plan'[u] = plan[u]
  BY <1>1, <1>3, ClientsAssumption
<1>12. UpInv'
  BY <1>2, <1>3, <1>10, <1>11, UpByHandler, ClientsAssumption
<1>13. ASSUME upset = {}, AllWell' PROVE Agreement'
  <2>1. accepted /\ plan[w] # <<>> /\ Rest(w) = plan[w] /\ Rest(w)' = Tail(Rest(w))
    BY <1>1, <1>2, <1>3, <1>6, <1>13 DEF AllWell, AgreeInv
  <2>2. Agreement
    BY <1>1, <1>2, <1>13 DEF AgreeInv, AllWell, Ready
  <2>3. PICK g \in Selectors, name \in Names : request[w] = Pick(g, name)
    <3>1. ASSUME PickOfGroup(Rest(w))
          PROVE  \E g \in Selectors, name \in Names : request[w] = Pick(g, name)
      <4>1. PICK group \in Group : Rest(w) = <<Pick(group, saved.picks[active][group])>>
        BY <3>1 DEF PickOfGroup
      <4>2. request[w] = Pick(group, saved.picks[active][group])
        BY <1>2, <1>8, <4>1
      <4> QED BY <4>2, EndpointNames
    <3>2. ASSUME PickOfHolder(Rest(w))
          PROVE  \E g \in Selectors, name \in Names : request[w] = Pick(g, name)
      <4>1. request[w] = Pick(Holder, Endpoint) /\ NodeChosen
        BY <1>2, <1>8, <3>2 DEF PickOfHolder
      <4> QED BY <4>1, EndpointNames DEF NodeChosen
    <3>3. ASSUME NEW other \in Group, PickOfGlobal(Rest(w), other)
          PROVE  \E g \in Selectors, name \in Names : request[w] = Pick(g, name)
      <4>1. request[w] = Pick("GLOBAL", other)
        BY <1>2, <1>8, <3>3 DEF PickOfGlobal
      <4> QED BY <4>1, EndpointNames
    <3> QED BY <1>5, <3>1, <3>2, <3>3
  <2>4. /\ CanSelect(active, g)
        /\ core'.px = active /\ core'.mode = core.mode /\ core'.sel[g] = name
        /\ \A h \in Selectors : h # g => core'.sel[h] = core.sel[h]
    BY <1>3, <2>1, <2>2, <2>3, Accepted DEF accepted, Agreement
  <2>5. \A x, h \in Selectors : \A u \in UI :
           Rest(u) = <<Pick(h, saved.picks[active][h])>> =>
              u = w /\ h = g /\ name = saved.picks[active][h]
    <3>1. \A x : <<>> # <<x>>
      OBVIOUS
    <3>2. ASSUME NEW h \in Selectors, Rest(w) = <<Pick(h, saved.picks[active][h])>>
          PROVE  h = g /\ name = saved.picks[active][h]
      <4>1. Pick(h, saved.picks[active][h]) = Pick(g, name)
        BY <1>2, <1>8, <2>3, <3>2
      <4> QED BY <4>1 DEF Pick
    <3> QED BY <1>2, <3>1, <3>2
  <2>6. ASSUME NEW h \in GroupsOf(active) \ displaced, CanSelect(active, h)
        PROVE  core'.sel[h] = saved.picks[active][h]
    <3>1. h \in Selectors /\ h # "GLOBAL" /\ h \in Group
      BY EndpointNames
    <3>2. CASE h # g
      BY <2>2, <2>4, <2>5, <2>6, <3>1, <3>2 DEF Agreement
    <3>3. CASE h = g /\ PickOfGroup(Rest(w))
      <4>1. PICK group \in Group : Rest(w) = <<Pick(group, saved.picks[active][group])>>
        BY <3>3 DEF PickOfGroup
      <4> QED BY <1>2, <2>4, <2>5, <3>1, <3>3, <4>1, EndpointNames
    <3>4. CASE h = g /\ PickOfHolder(Rest(w))
      <4>1. request[w] = Pick(Holder, Endpoint) /\ NodeChosen
        BY <1>2, <1>8, <3>4 DEF PickOfHolder
      <4>2. Holder = h
        BY <2>3, <3>4, <4>1 DEF Pick
      <4>3. plan[w] = <<Pick(Holder, Endpoint), Pick("GLOBAL", Holder), Patch("GLOBAL")>>
        <5>1. EndsInLoad(plan[w])
          BY <1>1, <1>2, <1>13, <4>1 DEF AgreeInv, NodeChosen
        <5>2. ~EndsInLoad(<<Pick(Holder, Endpoint)>>)
          BY <1>4, <4>1 DEF EndsInLoad
        <5> QED BY <2>1, <3>4, <5>1, <5>2 DEF PickOfHolder
      <4>4. h \in Displaces(w)
        <5>1. Len(plan[w]) = 3 /\ Pick(Holder, Endpoint) \in ElementsOf(plan[w])
          BY <4>3 DEF ElementsOf
        <5>2. Pick(Holder, Endpoint).group = h
          BY <4>2 DEF Pick
        <5> QED BY <1>4, <3>1, <4>1, <5>1, <5>2 DEF Displaces
      <4> QED BY <1>2, <4>4 DEF HandlerFits
    <3>5. ASSUME NEW other \in Group, PickOfGlobal(Rest(w), other), h = g PROVE FALSE
      <4>1. request[w] = Pick("GLOBAL", other)
        BY <1>2, <1>8, <3>5 DEF PickOfGlobal
      <4> QED BY <2>3, <3>1, <3>5, <4>1 DEF Pick
    <3> QED BY <1>5, <3>2, <3>3, <3>4, <3>5
  <2>7. ASSUME saved.mode = "rule" PROVE core.mode = "RULE"
    <3>1. \A u \in UI : Rest(u) # <<Patch("RULE")>>
      <4>1. Patch("RULE") \notin Change /\ \A x : <<>> # <<x>>
        BY Kinds DEF Modes
      <4> QED BY <1>2, <1>4, <1>8, <4>1
    <3> QED BY <2>2, <2>7, <3>1 DEF Agreement
  <2>8. ASSUME IsGlobal PROVE Rest(w)' # <<>>
    <3>1. EndsInLoad(plan[w])
      BY <1>1, <1>2, <1>13, <2>8 DEF AgreeInv
    <3>2. \A x \in Change : ~EndsInLoad(<<x>>)
      BY DEF EndsInLoad
    <3>3. ~PickOfGroup(Rest(w))
      BY <2>8 DEF PickOfGroup, IsGlobal
    <3>4. ASSUME PickOfHolder(Rest(w)) PROVE Rest(w)' # <<>>
      <4>1. Rest(w) = <<Pick(Holder, Endpoint), Pick("GLOBAL", Holder), Patch("GLOBAL")>>
        BY <1>2, <1>4, <1>8, <2>1, <3>1, <3>2, <3>4 DEF PickOfHolder
      <4> QED BY <1>8, <2>1, <4>1
    <3>5. ASSUME NEW other \in Group, PickOfGlobal(Rest(w), other) PROVE Rest(w)' # <<>>
      <4>1. Rest(w) = <<Pick("GLOBAL", other), Patch("GLOBAL")>>
        BY <1>2, <1>4, <1>8, <2>1, <3>1, <3>2, <3>5 DEF PickOfGlobal
      <4> QED BY <1>8, <2>1, <4>1
    <3> QED BY <1>5, <3>3, <3>4, <3>5
  <2> QED BY <1>1, <1>2, <1>7, <2>2, <2>4, <2>6, <2>7, <2>8 DEF Agreement
<1>14. AgreeInv'
  BY <1>1, <1>2, <1>3, <1>7, <1>11, <1>13 DEF AgreeInv, Ready
<1> QED BY <1>12, <1>14

LEMMA ServeInv ==
    ASSUME IInv, NEW c \in Client, HandlerStep(c)
    PROVE  AppInv'
<1> USE DEF IInv
<1>1. UNCHANGED <<saved, active, proc, plan, upset, displaced>> /\ Serve(c)
  BY DEF HandlerStep, appVars
<1>2. CASE proc = "loading"
  BY <1>2, ServeLoading
<1>3. CASE proc = "up" /\ Orderly
  <2>1. LoadingInv'
    BY <1>1, <1>3 DEF LoadingInv
  <2>2. \/ \E reading \in Readings : Decorate(c, reading)
        \/ LockChange(c) \/ ApplyPatch(c) \/ ChangeProxy(c) \/ ChangeProxyStuck(c)
    BY <1>1, <1>3, ServingHandler DEF Serve
  <2> QED BY <1>3, <2>1, <2>2, ServeBefore, ServePatch, ServeChange DEF AppInv
<1>4. CASE proc # "loading" /\ ~(proc = "up" /\ Orderly)
  BY <1>1, <1>4 DEF AppInv, UpInv, LoadingInv, AgreeInv, Orderly
<1> QED BY <1>2, <1>3, <1>4

-----------------------------------------------------------------------------

(* The operations of the user, the start and the end of the load.          *)

\* An operation that comes in time finds no other under way, and the pages know
\* that the core is up.
LEMMA Timely ==
    ASSUME IInv, NEW w \in UI, NEW steps, Begin(w, steps), upset' = upset \cup Untimely,
           UNCHANGED <<coreVars, active, vpnOn, proc>>, Orderly'
    PROVE  /\ proc # "loading" /\ Orderly /\ upset' = upset
           /\ \A u \in UI : Ready(u) /\ Rest(u) = <<>>
           /\ proc = "up" => /\ vpnOn
                             /\ plan'[w] = steps /\ Rest(w)' = steps
                             /\ \A u \in UI \ {w} : plan'[u] = plan[u]
<1> USE DEF IInv
<1>1. Untimely \subseteq {"failure"} /\ Orderly
  BY DEF Orderly
<1>2. "overlap" \notin Untimely /\ "unnoticed" \notin Untimely
  BY <1>1
<1>3. Calm
  BY <1>2 DEF Untimely
<1>4. proc # "loading" /\ (proc = "up" => vpnOn)
  BY <1>2 DEF Untimely
<1>5. Untimely = {}
  BY <1>3, <1>4 DEF Untimely
<1>6. \A u \in UI : Ready(u) /\ Rest(u) = <<>>
  BY <1>3 DEF Calm, Ready, Rest
<1>7. plan' = [plan EXCEPT ![w] = IF vpnOn THEN steps ELSE <<>>] /\ plan \in [UI -> Seq(PlanStep)]
  BY DEF Begin, TypeOK, PlanStep
<1>8. ASSUME proc = "up"
      PROVE  plan'[w] = steps /\ \A u \in UI \ {w} : plan'[u] = plan[u]
  BY <1>4, <1>7, <1>8
<1>9. ASSUME proc = "up" PROVE Rest(w)' = steps
  BY <1>6, <1>8, <1>9 DEF Rest, Ready, coreVars
<1> QED BY <1>1, <1>4, <1>5, <1>6, <1>8, <1>9

LEMMA OperationInv ==
    ASSUME IInv, NEW w \in UI, NEW steps, Begin(w, steps), upset' = upset \cup Untimely,
           UNCHANGED <<coreVars, active, vpnOn, proc>>,
           Orderly' /\ proc = "up" => Fits(steps)',
           Orderly' /\ proc = "up" /\ IsGlobal' => EndsInLoad(steps),
           proc = "up" /\ upset = {} /\ vpnOn /\ Agreement /\ Rest(w)' = steps
               /\ (\A u \in UI : Rest(u) = <<>>) => Agreement'
    PROVE  AppInv'
<1> USE DEF IInv
<1>1. UNCHANGED <<core, handler, request, outcome, configParams>>
  BY DEF coreVars
<1>2. CASE ~Orderly'
  BY <1>2 DEF AppInv, UpInv, LoadingInv, AgreeInv, Orderly
<1>3. CASE Orderly' /\ proc # "up"
  <2>1. proc # "loading"
    BY <1>3, Timely
  <2> QED BY <1>3, <2>1 DEF AppInv, UpInv, LoadingInv, AgreeInv
<1>4. CASE Orderly' /\ proc = "up"
  <2>1. /\ Orderly /\ upset' = upset /\ vpnOn
        /\ \A u \in UI : Ready(u) /\ Rest(u) = <<>>
        /\ plan'[w] = steps /\ Rest(w)' = steps
        /\ \A u \in UI \ {w} : plan'[u] = plan[u]
    BY <1>4, Timely
  <2>2. handler[w] = "idle" /\ handler[Vpn] = "idle"
    BY <1>4, <2>1 DEF Ready, UpInv
  <2>3. HandlerFits(w)'
    BY <1>1, <1>4, <2>1, <2>2 DEF HandlerFits
  <2>4. UpInv'
    BY <1>1, <2>1, <2>2, <2>3, UpByHandler
  <2>5. LoadingInv'
    BY <1>4 DEF LoadingInv
  <2>6. ASSUME upset' = {} PROVE Agreement'
    <3>1. AllWell
      BY <2>1 DEF AllWell, Ready
    <3>2. Agreement
      BY <1>4, <2>1, <2>6, <3>1 DEF AgreeInv
    <3> QED BY <1>4, <2>1, <2>6, <3>2
  <2>7. \A u \in UI : IsGlobal' => EndsInLoad(plan'[u])
    <3>1. \A u \in UI \ {w} : plan'[u] = <<>>
      BY <2>1 DEF Ready
    <3> QED BY <1>4, <2>1, <3>1, Endings
  <2>8. AgreeInv'
    BY <1>1, <2>1, <2>6, <2>7 DEF AgreeInv, Ready
  <2> QED BY <2>4, <2>5, <2>8 DEF AppInv
<1> QED BY <1>2, <1>3, <1>4

LEMMA SetModeInv ==
    ASSUME IInv, NEW w \in UI, NEW mode \in {"global", "rule", "direct"}, SetMode(w, mode)
    PROVE  AppInv'
<1> USE DEF IInv
<1> DEFINE planned == CASE mode = "global" -> <<[kind |-> "endpoint"]>>
                        [] mode = "direct" -> <<Patch("DIRECT")>>
                        [] mode = "rule"   -> <<Patch("RULE")>>
<1>0. PICK steps : steps = planned
  OBVIOUS
<1>1. /\ Begin(w, steps) /\ upset' = upset \cup Untimely
      /\ UNCHANGED <<coreVars, active, vpnOn, proc>> /\ displaced' = displaced
  BY <1>0 DEF SetMode
<1>2. saved'.mode = mode /\ saved'.picks = saved.picks
  BY SavedMode DEF SetMode, TypeOK
<1>3. UNCHANGED core
  BY <1>1 DEF coreVars
<1>4. \A other : Patch(other)' = Patch(other)
  BY <1>1 DEF Patch
<1>5. Fits(steps)'
  <2>1. CASE mode = "global"
    BY <1>0, <1>2, <2>1 DEF Fits
  <2>2. CASE mode = "direct"
    <3>1. PatchFits("DIRECT")' /\ "DIRECT" \in Modes
      BY <1>2, <2>2 DEF PatchFits, Modes
    <3> QED BY <1>0, <1>4, <2>2, <3>1 DEF Fits
  <2>3. CASE mode = "rule"
    <3>1. PatchFits("RULE")' /\ "RULE" \in Modes
      BY <1>2, <2>3 DEF PatchFits, Modes
    <3> QED BY <1>0, <1>4, <2>3, <3>1 DEF Fits
  <2> QED BY <2>1, <2>2, <2>3
<1>6. IsGlobal' => mode = "global"
  BY <1>2 DEF IsGlobal
<1>7. mode = "global" => EndsInLoad(steps) /\ steps # <<>>
  BY <1>0, Kinds, Endings
<1>8. ASSUME Agreement, Rest(w)' = steps, \A u \in UI : Rest(u) = <<>> PROVE Agreement'
  <2>1. \A x : <<>> # <<x>>
    OBVIOUS
  <2>2. \A g \in GroupsOf(active) \ displaced :
           CanSelect(active, g) => core.sel[g] = saved.picks[active][g]
    BY <1>8, <2>1 DEF Agreement
  <2>3. saved'.mode = "rule" => Rest(w)' = <<Patch("RULE")>>
    BY <1>0, <1>2, <1>8
  <2> QED BY <1>1, <1>2, <1>3, <1>4, <1>6, <1>7, <1>8, <2>2, <2>3 DEF Agreement
<1>9. /\ Orderly' /\ proc = "up" => Fits(steps)'
      /\ Orderly' /\ proc = "up" /\ IsGlobal' => EndsInLoad(steps)
      /\ proc = "up" /\ upset = {} /\ vpnOn /\ Agreement /\ Rest(w)' = steps
           /\ (\A u \in UI : Rest(u) = <<>>) => Agreement'
  BY <1>5, <1>6, <1>7, <1>8
<1> QED BY <1>1, <1>9, OperationInv

LEMMA ChooseEndpointInv ==
    ASSUME IInv, NEW w \in UI, NEW endpoint \in Names, ChooseEndpoint(w, endpoint)
    PROVE  AppInv'
<1> USE DEF IInv
<1> DEFINE planned == ApplyEndpoint(endpoint)
<1>0. PICK steps : steps = planned
  OBVIOUS
<1>1. /\ Begin(w, steps) /\ upset' = upset \cup Untimely
      /\ UNCHANGED <<coreVars, active, vpnOn, proc>> /\ displaced' = displaced
      /\ IsGlobal /\ endpoint \in MembersOf(active, "GLOBAL")
  BY <1>0 DEF ChooseEndpoint, IsGlobal
<1>2. /\ saved'.mode = saved.mode /\ Endpoint' = endpoint
      /\ \A g \in Group : saved'.picks[active][g] = saved.picks[active][g]
  <2>1. "GLOBAL" \in Selectors /\ \A g \in Group : g \in Selectors /\ g # "GLOBAL"
    BY EndpointNames
  <2>2. saved \in Saved /\ active \in Profile
    BY DEF TypeOK
  <2>3. saved' = [saved EXCEPT !.picks[active]["GLOBAL"] = endpoint]
    BY DEF ChooseEndpoint
  <2>4. /\ saved'.mode = saved.mode /\ saved'.picks[active]["GLOBAL"] = endpoint
        /\ \A h \in Selectors : h # "GLOBAL" => saved'.picks[active][h] = saved.picks[active][h]
    BY <2>1, <2>2, <2>3, SavedChoice
  <2> QED BY <1>1, <2>1, <2>4 DEF Endpoint
<1>3. UNCHANGED core /\ IsGlobal'
  BY <1>1, <1>2 DEF coreVars, IsGlobal
<1>4. TypeOK'
  BY TypeStep DEF Next
<1>5. (LET s == ApplyEndpoint(Endpoint)
       IN  /\ Fits(s)
           /\ EndsInLoad(s)
           /\ Endpoint \in MembersOf(active, "GLOBAL") => s # <<>>)'
  BY <1>3, <1>4, EndpointFits, PTL
<1>6. ApplyEndpoint(Endpoint)' = steps
  BY <1>0, <1>1, <1>2 DEF ApplyEndpoint, Patch
<1>7. Fits(steps)' /\ EndsInLoad(steps) /\ steps # <<>>
  BY <1>1, <1>2, <1>5, <1>6
<1>8. ASSUME Agreement, Rest(w)' = steps, \A u \in UI : Rest(u) = <<>> PROVE Agreement'
  <2>1. \A x : <<>> # <<x>>
    OBVIOUS
  <2>2. \A g \in GroupsOf(active) \ displaced :
           CanSelect(active, g) => core.sel[g] = saved.picks[active][g]
    BY <1>8, <2>1 DEF Agreement
  <2>3. \A g \in GroupsOf(active) : saved'.picks[active][g] = saved.picks[active][g]
    BY <1>2, EndpointNames
  <2>4. saved'.mode # "rule"
    BY <1>1, <1>2 DEF IsGlobal
  <2> QED BY <1>1, <1>3, <1>7, <1>8, <2>2, <2>3, <2>4 DEF Agreement
<1>9. /\ Orderly' /\ proc = "up" => Fits(steps)'
      /\ Orderly' /\ proc = "up" /\ IsGlobal' => EndsInLoad(steps)
      /\ proc = "up" /\ upset = {} /\ vpnOn /\ Agreement /\ Rest(w)' = steps
           /\ (\A u \in UI : Rest(u) = <<>>) => Agreement'
  BY <1>7, <1>8
<1> QED BY <1>1, <1>9, OperationInv

LEMMA ChooseNodeInv ==
    ASSUME IInv, NEW w \in UI, NEW group \in Group, NEW node \in Node, ChooseNode(w, group, node)
    PROVE  AppInv'
<1> USE DEF IInv
<1> DEFINE steps == <<Pick(group, node)>>
<1>1. /\ Begin(w, steps) /\ upset' = upset \cup Untimely
      /\ UNCHANGED <<coreVars, active, vpnOn, proc>>
      /\ saved.mode \in {"rule", "direct"}
      /\ vpnOn => displaced' = displaced \ {group}
  BY DEF ChooseNode
<1>2. /\ saved'.mode = saved.mode
      /\ saved'.picks[active][group] = node
      /\ \A g \in Group \ {group} : saved'.picks[active][g] = saved.picks[active][g]
  <2>1. saved \in Saved /\ active \in Profile
    BY DEF TypeOK
  <2>2. saved' = [saved EXCEPT !.picks[active][group] = node] /\ group \in Selectors /\ node \in Names
    BY EndpointNames DEF ChooseNode, Names
  <2>3. /\ saved'.mode = saved.mode /\ saved'.picks[active][group] = node
        /\ \A h \in Selectors : h # group => saved'.picks[active][h] = saved.picks[active][h]
    BY <2>1, <2>2, SavedChoice
  <2> QED BY <2>3, EndpointNames
<1>3. UNCHANGED core /\ ~IsGlobal'
  BY <1>1, <1>2 DEF coreVars, IsGlobal
<1>4. Fits(steps)'
  <2>1. steps = <<Pick(group, saved'.picks[active'][group])>>
    BY <1>1, <1>2
  <2> QED BY <1>1, <1>2, <2>1 DEF Fits
<1>5. ASSUME vpnOn, Agreement, Rest(w)' = steps, \A u \in UI : Rest(u) = <<>> PROVE Agreement'
  <2>1. \A x : <<>> # <<x>>
    OBVIOUS
  <2>2. \A g \in GroupsOf(active) \ displaced :
           CanSelect(active, g) => core.sel[g] = saved.picks[active][g]
    BY <1>5, <2>1 DEF Agreement
  <2>3. ASSUME NEW g \in GroupsOf(active) \ displaced', CanSelect(active, g)
        PROVE  \/ core.sel[g] = saved'.picks[active][g]
               \/ \E u \in UI : Rest(u)' = <<Pick(g, saved'.picks[active][g])>>
    <3>1. CASE g = group
      BY <1>2, <1>5, <3>1
    <3>2. CASE g # group
      BY <1>1, <1>2, <1>5, <2>2, <2>3, <3>2, EndpointNames
    <3> QED BY <3>1, <3>2
  <2>4. saved.mode = "rule" => core.mode = "RULE"
    BY <1>5, <2>1 DEF Agreement
  <2> QED BY <1>1, <1>2, <1>3, <1>5, <2>3, <2>4 DEF Agreement
<1> HIDE DEF steps
<1> QED BY <1>1, <1>3, <1>4, <1>5, OperationInv

LEMMA LoadActiveConfigInv ==
    ASSUME IInv, LoadActiveConfig
    PROVE  AppInv'
<1> USE DEF IInv
<1>1. /\ proc' = "loading"
      /\ Ask(Vpn, ActiveLoad)
      /\ displaced' = IF ActiveResolution.mode = "GLOBAL" /\ Holder # "" THEN {Holder} ELSE {}
      /\ upset' = IF Calm THEN {} ELSE {"overlap"}
      /\ UNCHANGED <<saved, active, vpnOn, plan, ops>>
  BY DEF LoadActiveConfig, ActiveLoad, ActiveResolution, Holder, Endpoint
<1>2. Vpn \in Client /\ \A u \in UI : u \in Client /\ u # Vpn
  BY ClientsAssumption
<1>3. /\ handler'[Vpn] = "sent" /\ request'[Vpn] = ActiveLoad
      /\ \A u \in UI : handler'[u] = handler[u]
  BY <1>1, <1>2 DEF Ask, At, TypeOK, CoreTypeOK
<1>4. /\ ActiveLoad' = ActiveLoad /\ ActiveResolution' = ActiveResolution
      /\ Holder' = Holder
  BY <1>1 DEF ActiveLoad, ActiveResolution, Holder, Endpoint
<1>5. Orderly' => Calm
  BY <1>1 DEF Orderly
<1>6. Calm => Calm'
  BY <1>1, <1>3 DEF Calm, Ready
<1>7. LoadingInv'
  BY <1>1, <1>3, <1>4, <1>5, <1>6 DEF LoadingInv
<1> QED BY <1>1, <1>7 DEF AppInv, UpInv, AgreeInv

\* A load that goes well leaves the core as it is to be.
LEMMA RestartedAgrees ==
    ASSUME TypeOK, core = Restarted,
           displaced = IF ActiveResolution.mode = "GLOBAL" /\ Holder # "" THEN {Holder} ELSE {}
    PROVE  Agreement
<1> DEFINE picks    == saved.picks[active]
           inGroups == [picks EXCEPT !["GLOBAL"] = ""]
           r        == ActiveResolution
<1>1. active \in Profile /\ picks \in [Selectors -> Names] /\ Endpoint = picks["GLOBAL"]
  BY DEF TypeOK, Saved, Endpoint
<1>2. /\ core.px = active /\ core.mode = r.mode
      /\ core.sel = [g \in Selectors |-> IF CanSelect(active, g) THEN r.picks[g] ELSE ""]
  BY DEF Restarted, ActiveResolution, AfterSelect, NoPicks
<1>3. \A g \in Selectors : ~CanSelect(active, g) => core.sel[g] = ""
  BY <1>2
<1>4. /\ "GLOBAL" \in Selectors /\ CanSelect(active, "GLOBAL")
      /\ Holder # "" => Holder \in Selectors /\ Holder # "GLOBAL" /\ Endpoint # "DIRECT"
                        /\ Endpoint \notin GroupsOf(active)
      /\ \A g \in GroupsOf(active) : g \in Selectors /\ g # "GLOBAL" /\ g # "DIRECT"
  BY EndpointNames DEF CanSelect
<1>5. inGroups \in [Selectors -> Names] /\ inGroups["GLOBAL"] = ""
      /\ \A g \in Selectors : g # "GLOBAL" => inGroups[g] = picks[g]
  BY <1>1, <1>4 DEF Names
<1>6. ASSUME \A g \in GroupsOf(active) \ displaced : CanSelect(active, g) => core.sel[g] = picks[g],
              saved.mode = "rule" => core.mode = "RULE",
              saved.mode # "rule" => GlobalSettled
       PROVE  Agreement
  BY <1>2, <1>3, <1>6 DEF Agreement, IsGlobal
<1>7. \A g \in GroupsOf(active) : CanSelect(active, g) => core.sel[g] = r.picks[g]
  BY <1>2, <1>4
<1> HIDE DEF inGroups, picks, r
<1>8. CASE saved.mode = "rule"
  <2>1. r.mode = "RULE" /\ r.picks = inGroups
    BY <1>8 DEF ActiveResolution, Resolve, r, inGroups, picks
  <2> QED BY <1>2, <1>4, <1>5, <1>8, <1>6, <1>7, <2>1
<1>9. CASE saved.mode # "rule" /\ Endpoint = "DIRECT"
  <2>1. r.mode = "DIRECT" /\ r.picks = inGroups
    BY <1>9 DEF ActiveResolution, Resolve, Endpoint, r, inGroups, picks
  <2>2. GlobalSettled
    BY <1>2, <1>4, <1>9, <2>1 DEF GlobalSettled
  <2> QED BY <1>4, <1>5, <1>9, <1>6, <1>7, <2>1, <2>2
<1>10. CASE saved.mode # "rule" /\ Endpoint \in GroupsOf(active)
  <2>1. r.mode = "GLOBAL" /\ r.picks = [inGroups EXCEPT !["GLOBAL"] = Endpoint]
    BY <1>4, <1>10 DEF ActiveResolution, Resolve, Endpoint, r, inGroups, picks
  <2>2. r.picks["GLOBAL"] = Endpoint /\ \A g \in Selectors : g # "GLOBAL" => r.picks[g] = picks[g]
    BY <1>4, <1>5, <2>1
  <2>3. GlobalSettled
    BY <1>2, <1>4, <1>10, <2>1, <2>2 DEF GlobalSettled
  <2> QED BY <1>4, <1>10, <1>6, <1>7, <2>2, <2>3
<1>11. CASE saved.mode # "rule" /\ Endpoint \notin GroupsOf(active) \cup {"DIRECT"} /\ Holder # ""
  <2>1. /\ r.mode = "GLOBAL"
        /\ r.picks = [inGroups EXCEPT !["GLOBAL"] = Holder, ![Holder] = Endpoint]
    BY <1>11 DEF ActiveResolution, Resolve, Endpoint, Holder, r, inGroups, picks
  <2>2. /\ r.picks["GLOBAL"] = Holder /\ r.picks[Holder] = Endpoint
        /\ \A g \in Selectors \ {"GLOBAL", Holder} : r.picks[g] = picks[g]
    BY <1>4, <1>5, <1>11, <2>1
  <2>3. displaced = {Holder}
    BY <1>11, <2>1 DEF r
  <2>4. GlobalSettled
    BY <1>2, <1>4, <1>11, <2>1, <2>2 DEF GlobalSettled
  <2>5. \A g \in GroupsOf(active) \ displaced : r.picks[g] = picks[g]
    BY <1>4, <2>2, <2>3
  <2> QED BY <1>11, <1>6, <1>7, <2>4, <2>5
<1>12. CASE saved.mode # "rule" /\ Endpoint \notin GroupsOf(active) \cup {"DIRECT"} /\ Holder = ""
  <2>1. r.mode = "GLOBAL" /\ r.picks = inGroups
    BY <1>12 DEF ActiveResolution, Resolve, Endpoint, Holder, r, inGroups, picks
  <2>2. GlobalSettled
    BY <1>2, <1>4, <1>5, <1>12, <2>1 DEF GlobalSettled
  <2> QED BY <1>4, <1>5, <1>12, <1>6, <1>7, <2>1, <2>2
<1> QED BY <1>8, <1>9, <1>10, <1>11, <1>12

LEMMA LoadedInv ==
    ASSUME IInv, Loaded
    PROVE  AppInv'
<1> USE DEF IInv
<1>1. /\ proc = "loading" /\ proc' = "up"
      /\ handler[Vpn] = "answered" /\ handler' = [handler EXCEPT ![Vpn] = "idle"]
      /\ upset' = IF outcome[Vpn] = "good" THEN upset ELSE upset \cup {"failure"}
      /\ UNCHANGED <<core, saved, active, plan, displaced>>
  BY DEF Loaded, Forget, At
<1>2. Vpn \in Client /\ \A u \in UI : u \in Client /\ u # Vpn
  BY ClientsAssumption
<1>3. handler'[Vpn] = "idle" /\ \A u \in UI : handler'[u] = handler[u]
  BY <1>1, <1>2 DEF TypeOK, CoreTypeOK
<1>4. Orderly' => Orderly
  BY <1>1 DEF Orderly
<1>5. Orderly => \A u \in UI : handler'[u] = "idle" /\ plan'[u] = <<>>
  BY <1>1, <1>3, LoadingIdle
<1>6. Orderly => \A u \in UI : Ready(u)' /\ Rest(u)' = <<>> /\ HandlerFits(u)'
  BY <1>5 DEF Ready, Rest, HandlerFits, Fits
<1>7. UpInv'
  BY <1>3, <1>4, <1>6 DEF UpInv
<1>8. AgreeInv'
  <2> SUFFICES ASSUME upset' = {} PROVE /\ \A u \in UI : plan'[u] = <<>> => handler'[u] = "idle"
                                        /\ \A u \in UI : IsGlobal' => EndsInLoad(plan'[u])
                                        /\ Agreement'
    BY DEF AgreeInv
  <2>1. outcome[Vpn] = "good" /\ Orderly
    BY <1>1 DEF Orderly
  <2>2. /\ core = Restarted
        /\ displaced = IF ActiveResolution.mode = "GLOBAL" /\ Holder # "" THEN {Holder} ELSE {}
    BY <1>1, <2>1 DEF LoadingInv
  <2>3. Agreement
    BY <2>2, RestartedAgrees
  <2>4. \A u \in UI : Rest(u) = <<>>
    BY <1>1, <2>1, LoadingIdle DEF Rest
  <2>5. Agreement'
    <3>1. IsGlobal' = IsGlobal /\ (GlobalSettled' <=> GlobalSettled)
      BY <1>1, FitsKept
    <3>2. \A x : <<>> # <<x>>
      OBVIOUS
    <3> QED BY <1>1, <2>3, <2>4, <3>1, <3>2 DEF Agreement
  <2> QED BY <1>5, <2>1, <2>5, Endings
<1> QED BY <1>1, <1>7, <1>8 DEF AppInv, LoadingInv

LEMMA AppStep ==
    ASSUME IInv, [Next]_vars
    PROVE  AppInv'
<1>1. ASSUME NEW u \in UI,
             \/ \E mode \in {"global", "rule", "direct"} : SetMode(u, mode)
             \/ \E endpoint \in Names : ChooseEndpoint(u, endpoint)
             \/ \E group \in Group, node \in Node : ChooseNode(u, group, node)
             \/ PatchSettings(u)
      PROVE  AppInv'
  BY <1>1, SetModeInv, ChooseEndpointInv, ChooseNodeInv, OutsideInv
<1>2. ASSUME NEW u \in UI,
             \/ ReadEndpoint(u) \/ SendRequest(u) \/ NotConnected(u)
             \/ Answered(u) \/ TimeOut(u) \/ Unheard(u)
      PROVE  AppInv'
  BY <1>2, ReadEndpointInv, SendRequestInv, AnsweredInv, TimeOutInv, UnheardInv, OutsideInv
<1>3. ASSUME NEW c \in Client, HandlerStep(c) PROVE AppInv'
  BY <1>3, ServeInv
<1>4. ASSUME \/ \E p \in Profile : Activate(p)
             \/ TurnOn \/ LoadActiveConfig \/ Loaded \/ Noticed \/ ProcessEnds
             \/ (\E n \in Node : Test(n)) \/ (\E g \in Group : LookAt(g))
             \/ UNCHANGED vars
      PROVE  AppInv'
  BY <1>4, LoadActiveConfigInv, LoadedInv, OutsideInv
<1> QED BY <1>1, <1>2, <1>3, <1>4 DEF Next

LEMMA Invariant == Spec => []IInv
<1>1. Init => IInv
  <2> SUFFICES ASSUME Init PROVE IInv
    OBVIOUS
  <2>1. proc = "off"
    BY DEF Init
  <2> QED BY <2>1, TypeInit DEF IInv, UpInv, LoadingInv, AgreeInv
<1>2. IInv /\ [Next]_vars => IInv'
  <2> SUFFICES ASSUME IInv, [Next]_vars PROVE IInv'
    OBVIOUS
  <2> QED BY AppStep, TypeStep DEF IInv, AppInv
<1> QED BY <1>1, <1>2, PTL DEF Spec

-----------------------------------------------------------------------------

(* What follows for the pages and for connections.                         *)

\* A group that goes by its selection goes by it after a restart, too.
LEMMA SameTaken ==
    ASSUME NEW k, NEW m, m.px = k.px, NEW h, NEW l, l.dead = h.dead, l.forgot = {},
           NEW g, k.sel[g] = m.sel[g], ~Unsettled(k, h, g),
           g \in URLTest => l.fast[g] = h.fast[g]
    PROVE  Now(k, h, g) = Now(m, l, g)
<1>1. g \notin h.forgot /\ g \notin l.forgot
  BY DEF Unsettled
<1>2. AliveOne(k, h, g) = AliveOne(m, l, g)
  BY <1>1 DEF AliveOne
<1>3. Selected(k, g) = Selected(m, g)
  BY DEF Selected
<1> QED BY <1>2, <1>3 DEF Now

LEMMA TakenAgain ==
    ASSUME TypeOK, core.px = active
    PROVE  \E h \in FoundAgain : \A g \in GroupsOf(active) :
              core.sel[g] = Restarted.sel[g] /\ ~Unsettled(core, health, g)
                 => Now(core, health, g) = Now(Restarted, h, g)
<1> DEFINE found(g) == Fastest(Restarted, health.dead, g)
           fast == [g \in URLTest |->
                      IF g \in GroupsOf(active) /\ health.fast[g] \notin found(g)
                        THEN CHOOSE n \in found(g) : TRUE ELSE health.fast[g]]
           h    == [dead |-> health.dead, forgot |-> {}, fast |-> fast]
<1>1. Restarted.px = active /\ Restarted \in Core
  <2>1. active \in Profile /\ saved.picks[active] \in [Selectors -> Names]
    BY DEF TypeOK, Saved
  <2>2. ActiveResolution.mode \in Modes /\ ActiveResolution.picks \in [Selectors -> Names]
    BY <2>1, ResolveType DEF ActiveResolution
  <2>3. [px |-> active, mode |-> ActiveResolution.mode, sel |-> NoPicks] \in Core
    BY <2>1, <2>2, FreshType DEF Core
  <2> QED BY <2>2, <2>3, AfterSelectType DEF Restarted, ActiveResolution, AfterSelect
<1>2. \A g \in GroupsOf(active) : found(g) \subseteq Node /\ found(g) # {}
  BY <1>1, FastestType
<1>3. health.fast \in [URLTest -> Node \cup {""}]
  BY DEF TypeOK, CoreTypeOK, Health
<1> HIDE DEF found
<1>4. /\ fast \in [URLTest -> Node \cup {""}]
      /\ \A g \in GroupsOf(active) \cap URLTest :
            fast[g] \in found(g) /\ (health.fast[g] \in found(g) => fast[g] = health.fast[g])
  BY <1>2, <1>3
<1> HIDE DEF fast
<1>5. h \in FoundAgain
  BY <1>4 DEF FoundAgain, found
<1>6. ASSUME NEW g \in GroupsOf(active), core.sel[g] = Restarted.sel[g],
             ~Unsettled(core, health, g)
      PROVE  Now(core, health, g) = Now(Restarted, h, g)
  <2>1. ASSUME g \in URLTest PROVE fast[g] = health.fast[g]
    <3>1. health.fast[g] \in Fastest(core, health.dead, g)
      BY <1>6, <2>1 DEF Unsettled
    <3>2. Fastest(core, health.dead, g) = found(g)
      BY <1>1, <1>6 DEF Fastest, found
    <3> QED BY <1>4, <1>6, <2>1, <3>1, <3>2
  <2>2. h.dead = health.dead /\ h.forgot = {} /\ h.fast = fast
    OBVIOUS
  <2> HIDE DEF h
  <2> QED BY <1>1, <1>6, <2>1, <2>2, SameTaken
<1> QED BY <1>5, <1>6

LEMMA SettledAgrees ==
    ASSUME IInv, Quiet, upset = {}, saved.mode # "direct"
    PROVE  RestartAgrees
<1> USE DEF IInv
<1> DEFINE picks    == saved.picks[active]
           inGroups == [picks EXCEPT !["GLOBAL"] = ""]
           r        == ActiveResolution
<1>1. proc = "up" /\ \A u \in UI : handler[u] = "idle" /\ Rest(u) = <<>>
  BY DEF Quiet, Calm, Ready, Rest
<1>2. Agreement
  BY <1>1 DEF AgreeInv, AllWell
<1>3. \A x : <<>> # <<x>>
  OBVIOUS
<1>4. /\ core.px = active
      /\ \A g \in Selectors : ~CanSelect(active, g) => core.sel[g] = ""
      /\ \A g \in GroupsOf(active) \ displaced :
            CanSelect(active, g) => core.sel[g] = picks[g]
      /\ saved.mode = "rule" => core.mode = "RULE"
      /\ IsGlobal => GlobalSettled
  BY <1>1, <1>2, <1>3 DEF Agreement
<1>5. active \in Profile /\ picks \in [Selectors -> Names] /\ Endpoint = picks["GLOBAL"]
  BY DEF TypeOK, Saved, Endpoint
<1>6. /\ "GLOBAL" \in Selectors /\ CanSelect(active, "GLOBAL")
      /\ Holder # "" => Holder \in Selectors /\ Holder # "GLOBAL" /\ Endpoint # "DIRECT"
                        /\ Endpoint \notin GroupsOf(active) /\ Holder \in GroupsOf(active)
      /\ \A g \in GroupsOf(active) : g \in Selectors /\ g # "GLOBAL" /\ g # "DIRECT" /\ g \in Group
  BY EndpointNames DEF CanSelect
<1>7. inGroups \in [Selectors -> Names] /\ inGroups["GLOBAL"] = ""
      /\ \A g \in Selectors : g # "GLOBAL" => inGroups[g] = picks[g]
  BY <1>5, <1>6 DEF Names
<1>8. /\ Restarted.px = active /\ Restarted.mode = r.mode
      /\ \A g \in Selectors : Restarted.sel[g] = IF CanSelect(active, g) THEN r.picks[g] ELSE ""
  BY DEF Restarted, ActiveResolution, AfterSelect, NoPicks
<1>9. PICK h \in FoundAgain : \A g \in GroupsOf(active) :
         core.sel[g] = Restarted.sel[g] /\ ~Unsettled(core, health, g)
            => Now(core, health, g) = Now(Restarted, h, g)
  BY <1>4, TakenAgain
<1> HIDE DEF inGroups, picks, r
<1> DEFINE astray == {g \in GroupsOf(core.px) : Unsettled(core, health, g)}
           left   == IF core.mode = "RULE" THEN displaced \cup astray ELSE {}
<1>17. ASSUME core.mode = r.mode,
              \A g \in GroupsOf(active) \ left : Exit(core, health, g) = Exit(Restarted, h, g)
       PROVE  RestartAgrees
  BY <1>4, <1>8, <1>17 DEF RestartAgrees
<1>10. CASE saved.mode = "rule"
  <2>1. r.mode = "RULE" /\ r.picks = inGroups
    BY <1>10 DEF ActiveResolution, Resolve, inGroups, picks, r
  <2>2. ASSUME NEW g \in GroupsOf(active) \ left
        PROVE  Exit(core, health, g) = Exit(Restarted, h, g)
    <3>1. g \notin displaced /\ ~Unsettled(core, health, g)
      BY <1>4, <1>10, <2>2
    <3>2. core.sel[g] = Restarted.sel[g]
      BY <1>4, <1>6, <1>7, <1>8, <2>1, <2>2, <3>1
    <3> QED BY <1>4, <1>8, <1>9, <1>10, <2>1, <2>2, <3>1, <3>2 DEF Exit
  <2> HIDE DEF left
  <2> QED BY <1>4, <1>10, <1>17, <2>1, <2>2
<1>11. CASE IsGlobal /\ Endpoint = "DIRECT"
  <2>1. r.mode = "DIRECT"
    BY <1>11 DEF ActiveResolution, Resolve, r, Endpoint, IsGlobal
  <2>2. core.mode = "DIRECT"
    BY <1>4, <1>6, <1>11 DEF GlobalSettled
  <2>3. \A g : Exit(core, health, g) = Exit(Restarted, h, g)
    BY <1>8, <2>1, <2>2 DEF Exit
  <2> HIDE DEF left
  <2> QED BY <1>17, <2>1, <2>2, <2>3
<1>12. ASSUME IsGlobal, Endpoint # "DIRECT", core.mode = "GLOBAL", r.mode = "GLOBAL",
              \/ GlobalExit(core, health) = GlobalExit(Restarted, h)
              \/ Selected(core, "GLOBAL") \in displaced /\ Endpoint \in Group
              \/ Selected(core, "GLOBAL") \in astray
       PROVE  RestartAgrees
  <2>1. CASE GlobalExit(core, health) = GlobalExit(Restarted, h)
    <3>1. \A g : Exit(core, health, g) = Exit(Restarted, h, g)
      BY <1>8, <1>12, <2>1 DEF Exit
    <3> HIDE DEF left
    <3> QED BY <1>12, <1>17, <3>1
  <2>2. CASE \/ Selected(core, "GLOBAL") \in displaced /\ Endpoint \in Group
             \/ Selected(core, "GLOBAL") \in astray
    BY <1>8, <1>12, <2>2 DEF RestartAgrees, Endpoint
  <2> QED BY <1>12, <2>1, <2>2
<1>13. CASE IsGlobal /\ Endpoint \in GroupsOf(active)
  <2>1. r.mode = "GLOBAL" /\ r.picks = [inGroups EXCEPT !["GLOBAL"] = Endpoint]
    BY <1>6, <1>13 DEF ActiveResolution, Resolve, Endpoint, IsGlobal, inGroups, picks, r
  <2>2. r.picks["GLOBAL"] = Endpoint /\ \A g \in Selectors : g # "GLOBAL" => r.picks[g] = picks[g]
    BY <1>6, <1>7, <2>1
  <2>3. core.mode = "GLOBAL" /\ core.sel["GLOBAL"] = Endpoint
    BY <1>4, <1>6, <1>13 DEF GlobalSettled
  <2>4. Selected(core, "GLOBAL") = Endpoint /\ Selected(Restarted, "GLOBAL") = Endpoint
    BY <1>4, <1>6, <1>8, <1>13, <2>2, <2>3 DEF Selected, MembersOf
  <2>5. Endpoint \notin displaced => core.sel[Endpoint] = Restarted.sel[Endpoint]
    BY <1>4, <1>6, <1>8, <1>13, <2>2
  <2>6. Endpoint \notin displaced \cup astray =>
          GlobalExit(core, health) = GlobalExit(Restarted, h)
    BY <1>4, <1>9, <1>13, <2>4, <2>5 DEF GlobalExit
  <2> HIDE DEF astray
  <2> QED BY <1>6, <1>12, <1>13, <2>1, <2>3, <2>4, <2>6
<1>14. CASE IsGlobal /\ Endpoint \notin GroupsOf(active) \cup {"DIRECT"} /\ Holder # ""
  <2>1. r.mode = "GLOBAL" /\ r.picks = [inGroups EXCEPT !["GLOBAL"] = Holder, ![Holder] = Endpoint]
    BY <1>14 DEF ActiveResolution, Resolve, Endpoint, Holder, IsGlobal, inGroups, picks, r
  <2>2. r.picks["GLOBAL"] = Holder /\ r.picks[Holder] = Endpoint
    BY <1>6, <1>7, <1>14, <2>1
  <2>3. /\ core.mode = "GLOBAL" /\ core.sel["GLOBAL"] = Holder
        /\ CanSelect(active, Holder) => core.sel[Holder] = Endpoint
    BY <1>4, <1>14 DEF GlobalSettled
  <2>4. core.sel["GLOBAL"] = Restarted.sel["GLOBAL"] /\ core.sel[Holder] = Restarted.sel[Holder]
    BY <1>4, <1>6, <1>8, <1>14, <2>2, <2>3
  <2>5. Selected(core, "GLOBAL") = Holder /\ Selected(Restarted, "GLOBAL") = Holder
    BY <1>4, <1>6, <1>8, <1>14, <2>3, <2>4 DEF Selected, MembersOf
  <2>6. Holder \notin astray => GlobalExit(core, health) = GlobalExit(Restarted, h)
    BY <1>4, <1>6, <1>9, <1>14, <2>4, <2>5 DEF GlobalExit
  <2> HIDE DEF astray
  <2> QED BY <1>12, <1>14, <2>1, <2>3, <2>5, <2>6
<1>15. CASE IsGlobal /\ Endpoint \notin GroupsOf(active) \cup {"DIRECT"} /\ Holder = ""
  <2>1. r.mode = "GLOBAL" /\ r.picks = inGroups
    BY <1>15 DEF ActiveResolution, Resolve, Endpoint, Holder, IsGlobal, inGroups, picks, r
  <2>2. core.mode = "GLOBAL" /\ core.sel["GLOBAL"] = ""
    BY <1>4, <1>15 DEF GlobalSettled
  <2>3. Restarted.sel["GLOBAL"] = ""
    BY <1>6, <1>7, <1>8, <2>1
  <2>4. "" \notin MembersOf(active, "GLOBAL")
    <3>1. NodesOf(active) \subseteq Node /\ GroupsOf(active) \subseteq Group
      BY <1>5, ProfileNames
    <3> QED BY <3>1, NamesAssumption DEF MembersOf
  <2>5. Selected(core, "GLOBAL") = "DIRECT" /\ Selected(Restarted, "GLOBAL") = "DIRECT"
    BY <1>4, <1>8, <2>2, <2>3, <2>4 DEF Selected
  <2>6. GlobalExit(core, health) = GlobalExit(Restarted, h)
    BY <2>5, NamesAssumption DEF GlobalExit
  <2> QED BY <1>12, <1>15, <2>1, <2>2, <2>6
<1>16. saved.mode \in {"", "global", "rule", "direct"}
  BY DEF TypeOK, Saved
<1> QED BY <1>10, <1>11, <1>13, <1>14, <1>15, <1>16 DEF IsGlobal

\* For any profiles, groups, nodes and handlers: the requests that the pages send
\* to a running core leave it where a load of what they saved puts it
\* (AppService.ets:208-235 against ConfigReader.ts:110-150), unless something
\* failed, overlapped, or came from elsewhere, or a fallback or url-test group has
\* gone its own way, whichever nodes stop and resume answering in the meantime
\* (fallback.go:104-123, urltest.go:109-154).
THEOREM PagesAgreeWithRestart == Spec => []RestartAgrees
<1>1. IInv => RestartAgrees
  BY SettledAgrees DEF RestartAgrees
<1> QED BY <1>1, Invariant, PTL

\* Where everything is to leave in the global mode.
Chosen(k, h) == IF Endpoint \in GroupsOf(k.px) THEN Now(k, h, Endpoint) ELSE Endpoint

\* The group of the endpoint has it as its selection and takes another node.
PassedOver(k, h) ==
    /\ Selected(k, "GLOBAL") = Holder /\ k.sel[Holder] = Endpoint
    /\ Holder \in URLTest \cup Fallback
    /\ Endpoint \in h.dead \/ Unsettled(k, h, Holder)

AtChosen(k, h) == GlobalExit(k, h) = Chosen(k, h) \/ PassedOver(k, h)

\* The requests of an endpoint have done their work.
Arrived == \/ NodeChosen /\ HolderSet /\ GlobalSetTo(Holder)
           \/ GroupChosen /\ GlobalSetTo(Endpoint)

ExitChosen == AtChosen(core, health)

\* findAliveProxy finds a selection that answers.
LEMMA AliveFound ==
    ASSUME NEW nodes \in Seq(Node), NEW dead, NEW m \in DOMAIN nodes, nodes[m] \notin dead
    PROVE  AliveFrom(nodes, dead, nodes[m]) = nodes[m]
<1> DEFINE chosen == nodes[m]
           good   == {i \in DOMAIN nodes :
                         /\ nodes[i] \notin dead
                         /\ chosen = "" \/ \E j \in 1..i : nodes[j] = chosen}
           first  == CHOOSE i \in good : \A j \in good : i <= j
<1>1. AliveFrom(nodes, dead, chosen) = IF good = {} THEN nodes[1] ELSE nodes[first]
  BY DEF AliveFrom
<1>2. chosen # ""
  <2>1. chosen \in Node
    OBVIOUS
  <2> QED BY <2>1, NamesAssumption
<1>3. DOMAIN nodes \subseteq Nat /\ \A i \in DOMAIN nodes : \A j \in 1..i : j \in DOMAIN nodes
  OBVIOUS
<1> HIDE DEF chosen
<1>4. ASSUME NEW i \in DOMAIN nodes, nodes[i] = chosen PROVE i \in good
  <2>1. i \in 1..i
    OBVIOUS
  <2>2. nodes[i] \notin dead
    BY <1>4 DEF chosen
  <2> QED BY <1>4, <2>1, <2>2
<1>5. good \in SUBSET Nat /\ good # {}
  BY <1>3, <1>4 DEF chosen
<1> HIDE DEF good
<1>6. first \in good /\ \A j \in good : first <= j
  BY <1>5, LeastElement
<1> HIDE DEF first
<1>7. first \in DOMAIN nodes /\ \E j \in 1..first : nodes[j] = chosen
  BY <1>2, <1>6 DEF good
<1>8. nodes[first] = chosen
  BY <1>3, <1>4, <1>6, <1>7
<1> QED BY <1>1, <1>5, <1>8 DEF chosen

\* A selection that answers is taken by a group of any kind that has looked.
LEMMA TakesSelection ==
    ASSUME NEW k \in Core, NEW h, NEW g \in GroupsOf(k.px),
           k.sel[g] \in MembersOf(k.px, g) \ h.dead, ~Unsettled(k, h, g)
    PROVE  Now(k, h, g) = k.sel[g]
<1> DEFINE nodes == ProxiesOf(k.px, g)
<1>1. k.px \in Profile \cup {NoProfile}
  BY DEF Core
<1>2. g # "GLOBAL" /\ nodes \in Seq(Node)
  BY <1>1, MembersType, NamesAssumption
<1>3. PICK m \in DOMAIN nodes : nodes[m] = k.sel[g] /\ nodes[m] \notin h.dead
  BY <1>2 DEF MembersOf, ElementsOf
<1>4. CASE g \in URLTest
  BY <1>4 DEF Now, Unsettled, Fastest
<1>5. CASE g \in Fallback /\ g \notin URLTest
  <2>1. AliveFrom(nodes, h.dead, nodes[m]) = nodes[m]
    BY <1>2, <1>3, AliveFound
  <2> QED BY <1>3, <1>5, <2>1 DEF Now, AliveOne, Unsettled
<1>6. CASE g \notin URLTest \cup Fallback
  BY <1>6 DEF Now, Selected
<1> QED BY <1>4, <1>5, <1>6

\* With the group of the endpoint as the selection of GLOBAL, everything leaves by
\* the endpoint, unless the group passes it over.
LEMMA HolderTaken ==
    ASSUME TypeOK, Selected(core, "GLOBAL") = Holder, Holder \in Group,
           CanSelect(core.px, Holder), Endpoint \in MembersOf(core.px, Holder),
           core.sel[Holder] = Endpoint
    PROVE  GlobalExit(core, health) = Endpoint \/ PassedOver(core, health)
<1>1. core \in Core /\ Holder # "GLOBAL"
  BY NamesAssumption DEF TypeOK, CoreTypeOK
<1>2. Holder \in GroupsOf(core.px)
  BY <1>1 DEF CanSelect
<1>3. GlobalExit(core, health) = Now(core, health, Holder)
  BY DEF GlobalExit
<1>4. CASE Endpoint \notin health.dead /\ ~Unsettled(core, health, Holder)
  BY <1>1, <1>2, <1>3, <1>4, TakesSelection
<1>5. CASE Holder \notin URLTest \cup Fallback
  BY <1>3, <1>5 DEF Now, Selected
<1> QED BY <1>4, <1>5 DEF PassedOver

HolderThere == TypeOK /\ HolderSet /\ Selected(core, "GLOBAL") = Holder /\ Holder \in Group
HolderExit  == GlobalExit(core, health) = Endpoint \/ PassedOver(core, health)

LEMMA HolderReached == HolderThere => HolderExit
BY HolderTaken DEF HolderThere, HolderExit, HolderSet

\* A change of one group leaves what the others take.
LEMMA OthersTaken ==
    ASSUME health \in Health, NEW group, Settle({group}), core'.px = core.px,
           NEW g, g # group, core'.sel[g] = core.sel[g]
    PROVE  Now(core', health', g) = Now(core, health, g)
<1>1. /\ health'.dead = health.dead
      /\ g \in health'.forgot <=> g \in health.forgot
      /\ g \in URLTest => health'.fast[g] = health.fast[g]
  BY DEF Settle, Health
<1>2. AliveOne(core', health', g) = AliveOne(core, health, g)
  <2>1. (IF g \in health'.forgot THEN "" ELSE core'.sel[g])
          = IF g \in health.forgot THEN "" ELSE core.sel[g]
    BY <1>1
  <2> QED BY <1>1, <2>1 DEF AliveOne
<1>3. Selected(core', g) = Selected(core, g)
  BY DEF Selected
<1> QED BY <1>1, <1>2, <1>3 DEF Now

LEMMA ArrivedExit == TypeOK /\ Arrived => ExitChosen
<1> SUFFICES ASSUME TypeOK, Arrived PROVE AtChosen(core, health)
  BY DEF ExitChosen
<1>1. core.px \in Profile \cup {NoProfile}
  BY DEF TypeOK, CoreTypeOK, Core
<1>2. GroupsOf(core.px) \subseteq Group /\ NodesOf(core.px) \subseteq Node
  BY <1>1, ProfileNames
<1>3. CASE NodeChosen /\ HolderSet /\ GlobalSetTo(Holder)
  <2>1. Holder \in Group /\ Endpoint \notin GroupsOf(core.px)
    BY <1>2, <1>3, EndpointNames DEF NodeChosen
  <2>2. Selected(core, "GLOBAL") = Holder
    BY <1>3 DEF GlobalSetTo, Selected
  <2> QED BY <1>3, <2>1, <2>2, HolderTaken DEF HolderSet, AtChosen, Chosen
<1>4. CASE GroupChosen /\ GlobalSetTo(Endpoint)
  <2>1. Endpoint \in Group
    BY <1>4, EndpointNames DEF GroupChosen
  <2>2. Selected(core, "GLOBAL") = Endpoint
    BY <1>4 DEF GlobalSetTo, Selected
  <2>3. Endpoint \in GroupsOf(core.px)
    BY <1>2, <1>4, <2>1, EndpointNames DEF GlobalSetTo, MembersOf
  <2> QED BY <2>1, <2>2, <2>3 DEF GlobalExit, Chosen, AtChosen
<1> QED BY <1>3, <1>4 DEF Arrived

\* Only a request that takes effect changes the core of a process that stays up.
LEMMA CoreChangedByHandler ==
    ASSUME [Next]_vars, core # core', proc' = "up"
    PROVE  \E c \in Client : HandlerStep(c)
<1>1. ~UNCHANGED vars
  BY DEF vars, coreVars
<1>2. ASSUME NEW u \in UI,
             \/ \E mode \in {"global", "rule", "direct"} : SetMode(u, mode)
             \/ \E endpoint \in Names : ChooseEndpoint(u, endpoint)
             \/ \E group \in Group, node \in Node : ChooseNode(u, group, node)
             \/ PatchSettings(u)
             \/ ReadEndpoint(u) \/ SendRequest(u) \/ NotConnected(u)
             \/ Answered(u) \/ TimeOut(u) \/ Unheard(u)
      PROVE  FALSE
  BY <1>2 DEF SetMode, ChooseEndpoint, ChooseNode, PatchSettings, ReadEndpoint, SendRequest,
              NotConnected, Answered, TimeOut, Unheard, Ask, Forget, coreVars
<1>3. ASSUME \/ \E p \in Profile : Activate(p)
             \/ TurnOn \/ LoadActiveConfig \/ Loaded \/ Noticed \/ ProcessEnds
             \/ (\E n \in Node : Test(n)) \/ (\E g \in Group : LookAt(g))
      PROVE  FALSE
  BY <1>3 DEF Activate, TurnOn, LoadActiveConfig, Loaded, Noticed, ProcessEnds, Ask, Forget,
              Test, HealthCheck, LookAt, Look, DropSelection, FindFastest, coreVars
<1> QED BY <1>1, <1>2, <1>3 DEF Next

\* The exit moves to the chosen one, or not at all.
Straight == \/ AtChosen(core', health')
            \/ core.mode = "GLOBAL" /\ GlobalExit(core', health') = GlobalExit(core, health)

LEMMA PatchStraight ==
    ASSUME IInv, TypeOK', NEW c \in Client, HandlerStep(c), ApplyPatch(c), GlobalStep
    PROVE  AtChosen(core', health')
<1> USE DEF IInv
<1>1. UNCHANGED <<saved, active>> /\ Serve(c) /\ Orderly /\ proc = "up"
  BY DEF HandlerStep, appVars, GlobalStep, Orderly
<1>2. /\ handler[c] = "decorated" /\ request[c] \in Load \cup Change
      /\ Rest(c) # <<>> /\ Head(Rest(c)) = request[c] /\ Fits(Rest(c))
  BY <1>1, ServingHandler DEF ApplyPatch, At
<1>3. request[c] \in Load
  BY <1>2 DEF CoreInv, RequestFits
<1>4. PICK mode \in Modes : Rest(c) = <<Patch(mode)>> /\ PatchFits(mode)
  BY <1>2, <1>3, NextLoad
<1>5. request[c].mode = mode
  <2>1. Head(<<Patch(mode)>>) = Patch(mode)
    OBVIOUS
  <2> QED BY <1>2, <1>4, <2>1 DEF Patch
<1>6. core' = [core EXCEPT !.mode = ModeOf(request[c], outcome[c])] /\ core \in Core
  BY DEF ApplyPatch, AfterPatch, TypeOK, CoreTypeOK
<1>7. /\ core'.px = core.px /\ core'.sel = core.sel
      /\ core'.mode = ModeOf(request[c], outcome[c])
  BY <1>6 DEF Core
<1>8. mode = "GLOBAL"
  BY <1>5, <1>7 DEF GlobalStep, ModeOf
<1>9. Arrived
  BY <1>4, <1>8 DEF PatchFits, Arrived
<1>10. Endpoint' = Endpoint /\ Holder' = Holder /\ IsGlobal' = IsGlobal
  BY <1>1 DEF Endpoint, Holder, IsGlobal
<1>11. Arrived'
  BY <1>1, <1>7, <1>9, <1>10 DEF Arrived, NodeChosen, GroupChosen, HolderSet, GlobalSetTo
<1>12. (TypeOK /\ Arrived => ExitChosen)'
  BY ArrivedExit, PTL
<1>13. AtChosen(core, health)' <=> AtChosen(core', health')
  BY <1>10 DEF AtChosen, Chosen, PassedOver
<1> QED BY <1>11, <1>12, <1>13 DEF ExitChosen

LEMMA ChangeStraight ==
    ASSUME IInv, TypeOK', NEW c \in Client, HandlerStep(c),
           ChangeProxy(c) \/ ChangeProxyStuck(c), GlobalStep
    PROVE  Straight
<1> USE DEF IInv
<1>1. UNCHANGED <<saved, active>> /\ Serve(c) /\ Orderly /\ proc = "up"
  BY DEF HandlerStep, appVars, GlobalStep, Orderly
<1>2. /\ handler[c] = "changing" /\ request[c] \in Load \cup Change
      /\ Rest(c) # <<>> /\ Head(Rest(c)) = request[c] /\ Fits(Rest(c))
  BY <1>1, ServingHandler DEF ChangeProxy, ChangeProxyStuck, At
<1>3. request[c] \in Change
  BY <1>2 DEF CoreInv, RequestFits
<1>4. core' = AfterChange(core, request[c]) /\ Accepts(core, request[c])
  BY DEF ChangeProxy, ChangeProxyStuck, AfterChange, GlobalStep
<1>11. Settle({request[c].group})
  BY <1>4 DEF ChangeProxy, ChangeProxyStuck
<1>5. \/ PickOfGroup(Rest(c)) \/ PickOfHolder(Rest(c))
      \/ \E name \in Group : PickOfGlobal(Rest(c), name)
  BY <1>2, <1>3, NextChange
<1>6. \A a, b, d : Head(<<a>>) = a /\ Head(<<a, b>>) = a /\ Head(<<a, b, d>>) = a
  OBVIOUS
<1>7. /\ Endpoint' = Endpoint /\ Holder' = Holder
      /\ NodeChosen' = NodeChosen /\ GroupChosen' = GroupChosen
  BY <1>1 DEF Endpoint, Holder, NodeChosen, GroupChosen, IsGlobal
<1>8. ~PickOfGroup(Rest(c))
  BY DEF PickOfGroup, GlobalStep
<1>9. ASSUME PickOfHolder(Rest(c)) PROVE Straight
  <2>1. request[c] = Pick(Holder, Endpoint) /\ NodeChosen
    BY <1>2, <1>6, <1>9 DEF PickOfHolder
  <2>2. Holder \in Group /\ Holder # "GLOBAL" /\ Endpoint \in Node /\ Endpoint \in Names
    BY <2>1, EndpointNames DEF NodeChosen
  <2>3. /\ core'.px = core.px /\ core'.mode = core.mode
        /\ core'.sel[Holder] = Endpoint
        /\ \A h \in Selectors : h # Holder => core'.sel[h] = core.sel[h]
        /\ Endpoint \in MembersOf(core'.px, Holder)
    <3>1. HolderSet'
      BY <1>1, <1>4, <2>1, HolderPicked
    <3>2. Holder \in Selectors
      BY <2>2, EndpointNames
    <3>3. core' = AfterChange(core, Pick(Holder, Endpoint)) /\ Accepts(core, Pick(Holder, Endpoint))
      BY <1>4, <2>1
    <3>4. /\ core'.px = core.px /\ core'.mode = core.mode
          /\ core'.sel[Holder] = Endpoint
          /\ \A h \in Selectors : h # Holder => core'.sel[h] = core.sel[h]
      BY <2>2, <3>2, <3>3, Accepted
    <3> QED BY <1>7, <3>1, <3>4 DEF HolderSet
  <2>4. Selected(core', "GLOBAL") = Selected(core, "GLOBAL")
    BY <2>2, <2>3 DEF Selected, Selectors
  <2>5. ASSUME NEW g \in Group, g # Holder
        PROVE  Now(core', health', g) = Now(core, health, g)
    <3>1. PICK group : group = Holder
      OBVIOUS
    <3>4. Settle({group})
      BY <1>11, <2>1, <3>1 DEF Pick
    <3>2. core'.sel[g] = core.sel[g] /\ core'.px = core.px
      BY <2>3, <2>5 DEF Selectors
    <3>3. health \in Health
      BY DEF TypeOK, CoreTypeOK
    <3> QED BY <2>5, <3>1, <3>2, <3>3, <3>4, OthersTaken
  <2>6. CASE Selected(core', "GLOBAL") = Holder
    <3>1. HolderSet'
      BY <1>1, <1>4, <2>1, HolderPicked
    <3>2. (HolderThere => HolderExit)'
      BY HolderReached, PTL
    <3>3. HolderThere'
      BY <1>7, <2>2, <2>6, <3>1 DEF HolderThere
    <3>4. GlobalExit(core', health') = Endpoint \/ PassedOver(core', health')
      BY <1>7, <3>2, <3>3 DEF HolderExit, PassedOver
    <3>5. core'.px \in Profile \cup {NoProfile}
      BY DEF TypeOK, CoreTypeOK, Core
    <3>6. Endpoint \notin GroupsOf(core'.px)
      BY <2>2, <3>5, ProfileNames, NamesAssumption
    <3> QED BY <3>4, <3>6 DEF Straight, AtChosen, Chosen
  <2>7. CASE Selected(core', "GLOBAL") # Holder
    <3>1. GlobalExit(core', health') = GlobalExit(core, health)
      BY <2>4, <2>5, <2>7 DEF GlobalExit
    <3> QED BY <2>3, <3>1 DEF Straight, GlobalStep
  <2> QED BY <2>6, <2>7
<1>10. ASSUME NEW name \in Group, PickOfGlobal(Rest(c), name) PROVE Straight
  <2>1. request[c] = Pick("GLOBAL", name)
    BY <1>2, <1>6, <1>10 DEF PickOfGlobal
  <2>2. GlobalSetTo(name)' /\ (NodeChosen /\ HolderSet => HolderSet')
    BY <1>1, <1>4, <2>1, GlobalPicked
  <2>3. Arrived'
    BY <1>7, <1>10, <2>2 DEF PickOfGlobal, Arrived
  <2>4. (TypeOK /\ Arrived => ExitChosen)'
    BY ArrivedExit, PTL
  <2>5. AtChosen(core, health)' <=> AtChosen(core', health')
    BY <1>7 DEF AtChosen, Chosen, PassedOver
  <2> QED BY <2>3, <2>4, <2>5 DEF Straight, ExitChosen
<1> QED BY <1>5, <1>8, <1>9, <1>10

\* In the global mode everything goes from the old exit, or the rules, to the
\* chosen one without a third in between, for any profile and whichever of the
\* two or three requests is refused, late or lost (AppService.ets:216-230); a
\* third exit is only due to a group that passes the chosen node over
\* (urltest.go:109-154, fallback.go:104-123).
THEOREM NothingLeavesByAThirdExit == Spec => NoDetour
<1>1. ASSUME IInv, TypeOK', [Next]_vars, GlobalStep PROVE Straight
  <2>1. PICK c \in Client : HandlerStep(c)
    BY <1>1, CoreChangedByHandler DEF GlobalStep
  <2>2. Orderly /\ proc = "up" /\ Serve(c)
    BY <1>1, <2>1 DEF HandlerStep, appVars, GlobalStep, Orderly
  <2>3. ~ApplyConfig(c) /\ ~PatchSelectGroup(c)
    BY <1>1, <2>2, ServingHandler
  <2>4. ~LockChange(c) /\ ~\E reading \in Readings : Decorate(c, reading)
    BY <1>1 DEF LockChange, Decorate, GlobalStep
  <2>5. ApplyPatch(c) \/ ChangeProxy(c) \/ ChangeProxyStuck(c)
    BY <2>2, <2>3, <2>4 DEF Serve
  <2> QED BY <1>1, <2>1, <2>5, PatchStraight, ChangeStraight DEF Straight
<1>2. IInv => TypeOK
  BY DEF IInv
<1>3. IInv /\ IInv' /\ [Next]_vars =>
        [GlobalStep =>
            LET endpoint == saved.picks[active]["GLOBAL"]
                holder   == FirstGroup(active, endpoint)
                chosen   == IF endpoint \in GroupsOf(core'.px) THEN Now(core', health', endpoint)
                                                               ELSE endpoint
            IN  \/ GlobalExit(core', health') = chosen
                \/ core.mode = "GLOBAL" /\ GlobalExit(core', health') = GlobalExit(core, health)
                \/ /\ Selected(core', "GLOBAL") = holder /\ core'.sel[holder] = endpoint
                   /\ holder \in URLTest \cup Fallback
                   /\ endpoint \in health'.dead \/ Unsettled(core', health', holder)]_vars
  BY <1>1 DEF Straight, AtChosen, Chosen, PassedOver, Holder, Endpoint, IInv
<1> QED BY <1>3, Invariant, PTL DEF Spec, NoDetour

=============================================================================
