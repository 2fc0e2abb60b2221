----------------------------- MODULE CoreState -----------------------------
(***************************************************************************)
(* What the Go core runs, as far as the application steers it: the proxies *)
(* of one profile, the mode, and the selection of every group; what a      *)
(* load, a patch and a change of a selection make of it; and which node    *)
(* each kind of group takes. Groups hold nodes only (a group inside a      *)
(* group adds a level, no case), a group is of one kind in all profiles,   *)
(* and all groups test their nodes with the same URL.                      *)
(***************************************************************************)
EXTENDS Naturals, Sequences

CONSTANTS
    Profile,
    NoProfile,     \* the default configuration, without groups
    Node,
    Group,
    Selectable,    \* the groups that are not load balancers,
    URLTest,       \* those of them that take the fastest node,
    Fallback,      \* and those that take the first one that answers
    Config         \* per profile, its groups in the order of the file

ASSUME ConfigAssumption ==
    /\ NoProfile \notin Profile
    /\ Selectable \subseteq Group
    /\ URLTest \subseteq Selectable /\ Fallback \subseteq Selectable
    /\ URLTest \cap Fallback = {}
    /\ Config \in [Profile \cup {NoProfile} ->
                      Seq([name : Group, proxies : Seq(Node) \ {<<>>}])]
    /\ Config[NoProfile] = <<>>

\* parseProxies refuses a file where two proxies or groups have one name, and
\* where one has the name of a builtin proxy. A file with a group GLOBAL of its
\* own is left out.
ASSUME NamesAssumption ==
    /\ Group \cap Node = {}
    /\ (Group \cup Node) \cap {"", "DIRECT", "GLOBAL"} = {}
    /\ \A p \in Profile : \A i, j \in DOMAIN Config[p] :
          Config[p][i].name = Config[p][j].name => i = j

Modes     == {"RULE", "GLOBAL", "DIRECT"}
Selectors == Group \cup {"GLOBAL"}
Names     == Group \cup Node \cup {"DIRECT", ""}
NoPicks   == [g \in Selectors |-> ""]
Core      == [px : Profile \cup {NoProfile}, mode : Modes, sel : [Selectors -> Names]]
Fresh     == [px |-> NoProfile, mode |-> "RULE", sel |-> NoPicks]

ElementsOf(s) == {s[i] : i \in DOMAIN s}
GroupsOf(p)   == {e.name : e \in ElementsOf(Config[p])}
ProxiesOf(p, g) == (CHOOSE e \in ElementsOf(Config[p]) : e.name = g).proxies
NodesOf(p)    == UNION {ElementsOf(e.proxies) : e \in ElementsOf(Config[p])}

\* Every core has GLOBAL: DIRECT, then all nodes and all groups.
MembersOf(p, g) == IF g = "GLOBAL" THEN {"DIRECT"} \cup NodesOf(p) \cup GroupsOf(p)
                                   ELSE ElementsOf(ProxiesOf(p, g))

\* tunnel.ProxiesWithProviders() has the group and it is a SelectAble.
CanSelect(p, g) == g = "GLOBAL" \/ g \in GroupsOf(p) \cap Selectable

-----------------------------------------------------------------------------
(* Which member a group takes.                                             *)

\* What the groups go by besides their selections: the nodes that do not answer
\* the test, the fallback groups that have dropped their selection, and the node
\* that each url-test group takes for the fastest.
Health    == [dead : SUBSET Node, forgot : SUBSET Fallback, fast : [URLTest -> Node \cup {""}]]

\* New proxies answer and have no delays: the first one is the fastest.
AllAlive(p) ==
    [dead |-> {}, forgot |-> {},
     fast |-> [g \in URLTest |-> IF g \in GroupsOf(p) THEN ProxiesOf(p, g)[1] ELSE ""]]

\* Selector.selectedProxy: an unknown selection is the first member.
Selected(core, g) ==
    IF core.sel[g] \in MembersOf(core.px, g) THEN core.sel[g]
    ELSE IF g = "GLOBAL" THEN "DIRECT" ELSE ProxiesOf(core.px, g)[1]

\* What URLTest.fast may find: the selection if it answers, or else the fastest
\* that does, and the first one while no delay is known.
Fastest(core, dead, g) ==
    LET members == MembersOf(core.px, g)
    IN  IF core.sel[g] \in members \ dead THEN {core.sel[g]}
                                          ELSE (members \ dead) \cup {ProxiesOf(core.px, g)[1]}

\* Fallback.findAliveProxy looks for the selection, and from there, or from the
\* start if there is none, for the first node that answers.
AliveFrom(nodes, dead, chosen) ==
    LET good == {i \in DOMAIN nodes :
                    /\ nodes[i] \notin dead
                    /\ chosen = "" \/ \E j \in 1..i : nodes[j] = chosen}
    IN  IF good = {} THEN nodes[1] ELSE nodes[CHOOSE i \in good : \A j \in good : i <= j]

AliveOne(core, health, g) ==
    AliveFrom(ProxiesOf(core.px, g), health.dead,
              IF g \in health.forgot THEN "" ELSE core.sel[g])

Now(core, health, g) ==
    IF g \in URLTest THEN health.fast[g]
    ELSE IF g \in Fallback THEN AliveOne(core, health, g)
    ELSE Selected(core, g)

\* The group does not go by its selection and by the nodes that answer now: it has
\* dropped its selection, or what it found is from before a node stopped or resumed.
Unsettled(core, health, g) ==
    \/ g \in health.forgot
    \/ g \in URLTest /\ health.fast[g] \notin Fastest(core, health.dead, g)

\* Where everything leaves in the mode GLOBAL.
GlobalExit(core, health) ==
    LET x == Selected(core, "GLOBAL") IN IF x \in Group THEN Now(core, health, x) ELSE x

\* Where a connection leaves that the rules send to group g.
Exit(core, health, g) == CASE core.mode = "DIRECT" -> "DIRECT"
                           [] core.mode = "RULE"   -> Now(core, health, g)
                           [] core.mode = "GLOBAL" -> GlobalExit(core, health)

-----------------------------------------------------------------------------
(* Requests.                                                               *)

Load   == [kind : {"load"}, profile : Profile, mode : Modes, patch : BOOLEAN,
           picks : [Selectors -> Names]]
Change == [kind : {"change"}, group : Selectors, name : Names]

\* What comes of the file of the profile: it parses, it is missing or no YAML
\* (the default configuration, overwritten like any other), or its content is
\* refused (the plain default configuration).
Readings == {"good", "missing", "refused"}
PxOf(r, reading)   == IF reading = "good" THEN r.profile ELSE NoProfile
ModeOf(r, reading) == IF reading = "refused" THEN "RULE" ELSE r.mode

AfterPatch(core, r, reading) == [core EXCEPT !.mode = ModeOf(r, reading)]

\* hub.ApplyConfig: new groups, nothing selected.
AfterApply(r, reading) ==
    [px |-> PxOf(r, reading), mode |-> ModeOf(r, reading), sel |-> NoPicks]

\* patchSelectGroup: ForceSet, whether or not the group has such a member.
AfterSelect(core, picks) ==
    [core EXCEPT !.sel = [g \in Selectors |-> IF CanSelect(core.px, g) THEN picks[g]
                                                                       ELSE core.sel[g]]]

\* handleChangeProxy refuses unknown groups, load balancers and strangers.
Accepts(core, r) ==
    /\ CanSelect(core.px, r.group)
    /\ r.name \in MembersOf(core.px, r.group) \cup {""}

AfterChange(core, r) ==
    IF Accepts(core, r) THEN [core EXCEPT !.sel = [core.sel EXCEPT ![r.group] = r.name]]
                        ELSE core

\* Fallback.Set of a node that does not answer tests it before it returns.
TestsChosen(core, health, r) ==
    r.group \in Fallback /\ Accepts(core, r) /\ r.name \in health.dead


\* Which loads each load is under way with, once client c asks for r.
MeetsAfter(pending, met, c, r) ==
    LET loading == {d \in DOMAIN pending : pending[d] \in Load}
    IN  [d \in DOMAIN pending |->
            IF r \notin Load THEN met[d]
            ELSE IF d = c THEN {r} \cup {pending[e] : e \in loading}
            ELSE IF d \in loading THEN met[d] \cup {r} ELSE met[d]]
=============================================================================
