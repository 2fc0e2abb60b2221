-------------------------- MODULE ActivationProofs --------------------------
(***************************************************************************)
(* The copies of the active profile agree, and the VPN process that starts *)
(* at rest runs it, for any profiles, operations and versions.             *)
(***************************************************************************)
EXTENDS Activation, TLAPS

\* What holds of the copies before an operation that is alone, and after it.
Agree ==
    /\ prefDisk = prefMem /\ idFile = prefMem
    /\ cached \in {None, prefMem}
    /\ page \in {NoPage, prefMem}
    /\ prefMem \in rows \cup {None}

\* How far operation j, alone, has come with the copies: one that only reads
\* finds them as they were, one that sets the profile moves them one by one.
Progress(j) ==
    LET at == job[j].at
        id == job[j].id IN
    /\ at \in {"load", "get", "query", "row", "file"} =>
          prefDisk = prefMem /\ idFile = prefMem /\ cached \in {None, prefMem}
    /\ at \in {"load", "get", "query", "row"} => prefMem \in rows \cup {None}
    /\ at \in {"get", "query"} => id = prefMem
    /\ at = "query" => page \in {NoPage, prefMem}
    /\ at \in {"row", "file"} => page = prefMem
    /\ at = "file" => prefMem \in rows \cup {None, id}
    /\ at \in {"put", "flush", "resume", "truncated", "exists", "copying"} =>
          page = id /\ id \in rows \cup {None}
    /\ at \in {"flush", "resume", "truncated", "exists", "copying"} => prefMem = id
    /\ at \in {"resume", "truncated", "exists", "copying"} => prefDisk = id
    /\ at \in {"truncated", "exists", "copying"} => cached = id
    /\ at \in {"exists", "copying"} => idFile = id

CopyInv ==
    clean =>
        /\ \A j, k \in Jobs : job[j].at # "idle" /\ job[k].at # "idle" => j = k
        /\ (\A j \in Jobs : job[j].at = "idle") => Agree
        /\ \A j \in Jobs : Progress(j)

IInv == TypeOK /\ CopyInv

----------------------------------------------------------------------------
(* Types *)

\* The step of an operation and what the type says of its id.
LEMMA JobType ==
    ASSUME TypeOK, NEW j \in Jobs
    PROVE  /\ job[j].id \in Ids
           /\ job[j].at \in {"row", "file", "exists", "copying"} => job[j].id \in Profiles
           /\ job[j].at = "copying" => job[j].data \in 1..MaxVersion
BY DEF TypeOK, JobStates, Ids

LEMMA VpnType ==
    ASSUME TypeOK
    PROVE  /\ vpn.at \in {"ensure", "load", "copying"} => vpn.id \in Profiles
           /\ vpn.at = "copying" => vpn.data \in 1..MaxVersion
BY DEF TypeOK, VpnStates

\* The functions of versions stay what they are.
LEMMA Versions == Contents = {0, -1} \cup 1..MaxVersion /\ 1 \in 1..MaxVersion
BY ActivationAssumption DEF Contents, Missing, Torn

LEMMA GotoType ==
    ASSUME TypeOK, NEW j \in Jobs, NEW s, NEW i, Goto(j, s, i),
           \/ s \in {"idle", "load"} /\ i = None
           \/ s \in {"get", "query", "put", "flush", "resume", "truncated"} /\ i \in Ids
           \/ s \in {"row", "file", "exists"} /\ i \in Profiles
    PROVE  job' \in [Jobs -> JobStates]
<1>1. [at |-> s, id |-> i, data |-> Missing] \in JobStates
  BY DEF JobStates
<1> QED BY <1>1 DEF TypeOK, Goto

LEMMA VpnGotoType ==
    ASSUME NEW s, NEW i, VpnGoto(s, i),
           \/ s \in {"off", "read", "up"} /\ i = None
           \/ s \in {"ensure", "load"} /\ i \in Profiles
    PROVE  vpn' \in VpnStates
BY DEF VpnGoto, VpnStates

LEMMA PageType ==
    ASSUME TypeOK, NEW j \in Jobs,
           \/ Open(j) \/ Load(j) \/ Got(j) \/ Query(j) \/ Queried(j) \/ RowDeleted(j) \/ Deleted(j)
           \/ \E p \in Profiles : Activate(j, p) \/ Delete(j, p)
    PROVE  TypeOK'
<1> USE JobType, GotoType DEF Done, uiVars, fileVars, vpnVars
<1>1. job' \in [Jobs -> JobStates]
  <2>1. CASE Open(j) \/ Got(j) \/ Queried(j)
    BY <2>1 DEF Open, Got, Queried
  <2>2. CASE Load(j) \/ Query(j)
    BY <2>2 DEF Load, Query, TypeOK
  <2>3. CASE \E p \in Profiles : Activate(j, p) \/ Delete(j, p)
    BY <2>3 DEF Activate, Delete, Ids
  <2>4. CASE RowDeleted(j) \/ Deleted(j)
    BY <2>4 DEF RowDeleted, Deleted, Ids
  <2> QED BY <2>1, <2>2, <2>3, <2>4
<1>2. /\ cached' \in Ids /\ page' \in Ids \cup {NoPage} /\ rows' \subseteq Profiles
      /\ conf' \in [Profiles -> Contents]
  BY Versions DEF TypeOK, Open, Load, Got, Query, Queried, Activate, Delete, RowDeleted, Deleted, Ids, Missing
<1>3. clean' \in BOOLEAN /\ calm' \in BOOLEAN
  BY Zenon DEF TypeOK, Open, Load, Got, Query, Queried, Activate, Delete, RowDeleted, Deleted, Begin, AtRest
<1>4. UNCHANGED <<prefMem, prefDisk, saving, idFile, saved, yaml, vpnVars>>
  BY DEF Open, Load, Got, Query, Queried, Activate, Delete, RowDeleted, Deleted
<1> QED BY <1>1, <1>2, <1>3, <1>4 DEF TypeOK

LEMMA StoreType ==
    ASSUME TypeOK, NEW j \in Jobs,
           Put(j) \/ Flush(j) \/ FlushFails(j) \/ Truncate(j) \/ TruncateFails(j) \/ WriteId(j)
              \/ SyncRead(j) \/ SyncWrite(j)
    PROVE  TypeOK'
<1> USE JobType, GotoType DEF Done, uiVars, fileVars, vpnVars
<1>1. job' \in [Jobs -> JobStates] /\ yaml' \in [Profiles -> Contents]
  <2>1. CASE Put(j) \/ Flush(j) \/ FlushFails(j) \/ Truncate(j)
    BY <2>1 DEF Put, Flush, FlushFails, Truncate, TypeOK
  <2>2. CASE TruncateFails(j) \/ WriteId(j)
    BY <2>2 DEF TruncateFails, WriteId, AfterWrite, TypeOK, Ids
  <2>3. CASE SyncRead(j)
    <3>1. CASE conf[job[j].id] \in {Missing, Torn}
      BY <2>3, <3>1 DEF SyncRead, TypeOK
    <3>2. CASE conf[job[j].id] \notin {Missing, Torn}
      <4>1. job[j].id \in Profiles /\ conf[job[j].id] \in 1..MaxVersion
        BY <2>3, <3>2 DEF SyncRead, TypeOK, Contents
      <4>2. [at |-> "copying", id |-> job[j].id, data |-> conf[job[j].id]] \in JobStates
        BY <4>1 DEF JobStates
      <4> QED BY <2>3, <3>2, <4>1, <4>2 DEF SyncRead, TypeOK, Contents
    <3> QED BY <3>1, <3>2
  <2>4. CASE SyncWrite(j)
    BY <2>4 DEF SyncWrite, TypeOK, Written, Contents
  <2> QED BY <2>1, <2>2, <2>3, <2>4
<1>2. prefMem' \in Ids /\ prefDisk' \in Ids /\ cached' \in Ids /\ idFile' \in Ids
  BY DEF TypeOK, Put, Flush, FlushFails, Truncate, TruncateFails, WriteId, SyncRead, SyncWrite, Ids
<1>3. clean' \in BOOLEAN /\ calm' \in BOOLEAN
  BY Zenon DEF TypeOK, Put, Flush, FlushFails, Truncate, TruncateFails, WriteId, SyncRead, SyncWrite
<1>4. UNCHANGED <<page, rows, saving, conf, saved, vpnVars>>
  BY DEF Put, Flush, FlushFails, Truncate, TruncateFails, WriteId, SyncRead, SyncWrite
<1> QED BY <1>1, <1>2, <1>3, <1>4 DEF TypeOK

LEMMA SaveType ==
    ASSUME TypeOK, (\E p \in Profiles : SaveTruncate(p)) \/ SaveWrite \/ KillUi
    PROVE  TypeOK'
<1> USE DEF uiVars, fileVars, vpnVars
<1>1. ASSUME NEW p \in Profiles, SaveTruncate(p) PROVE TypeOK'
  <2>1. saved[p] + 1 \in 1..MaxVersion
    BY <1>1, ActivationAssumption DEF SaveTruncate, TypeOK
  <2>2. calm' \in BOOLEAN /\ clean' \in BOOLEAN
    BY <1>1, Zenon DEF SaveTruncate, TypeOK
  <2>3. conf' \in [Profiles -> Contents] /\ saved' \in [Profiles -> 1..MaxVersion] /\ saving' \in Ids
    BY <1>1, <2>1 DEF SaveTruncate, TypeOK, Contents, Ids
  <2> QED BY <1>1, <2>2, <2>3 DEF SaveTruncate, TypeOK
<1>2. CASE SaveWrite
  <2>1. saving \in Profiles /\ saved[saving] \in Contents
    BY <1>2 DEF SaveWrite, TypeOK, Ids, Contents
  <2> QED BY <1>2, <2>1 DEF SaveWrite, TypeOK, Ids
<1>3. CASE KillUi
  <2>1. job' \in [Jobs -> JobStates]
    BY <1>3 DEF KillUi, JobStates
  <2>2. calm' \in BOOLEAN /\ clean' \in BOOLEAN
    BY <1>3, Zenon DEF KillUi, TypeOK
  <2> QED BY <1>3, <2>1, <2>2 DEF KillUi, TypeOK, Ids
<1> QED BY <1>1, <1>2, <1>3

LEMMA VpnStepType ==
    ASSUME TypeOK, VpnStep
    PROVE  TypeOK'
<1> USE VpnType, VpnGotoType DEF uiVars, fileVars, vpnVars
<1>1. CASE Boot
  <2>1. calm' \in BOOLEAN
    BY <1>1, Zenon DEF Boot, AtRest
  <2> QED BY <1>1, <2>1 DEF Boot, TypeOK
<1>2. CASE ReadId
  BY <1>2 DEF ReadId, TypeOK, Ids
<1>3. CASE EnsureRead
  <2>1. CASE conf[vpn.id] \in {Missing, Torn}
    BY <1>3, <2>1 DEF EnsureRead, TypeOK
  <2>2. CASE conf[vpn.id] \notin {Missing, Torn}
    <3>1. vpn.id \in Profiles /\ conf[vpn.id] \in 1..MaxVersion
      BY <1>3, <2>2 DEF EnsureRead, TypeOK, Contents
    <3>2. vpn' \in VpnStates
      BY <1>3, <2>2, <3>1 DEF EnsureRead, VpnStates
    <3> QED BY <1>3, <2>2, <3>1, <3>2 DEF EnsureRead, TypeOK, Contents
  <2> QED BY <2>1, <2>2
<1>4. CASE EnsureWrite
  BY <1>4 DEF EnsureWrite, TypeOK, Written, Contents
<1>5. CASE LoadConfig
  <2>1. running' \in [id : Ids, ver : Contents]
    BY <1>5 DEF LoadConfig, TypeOK, Ids
  <2> QED BY <1>5, <2>1 DEF LoadConfig, TypeOK
<1>6. CASE KillVpn
  <2>1. Nothing \in [id : Ids, ver : Contents]
    BY Versions DEF Nothing, Ids, Missing
  <2> QED BY <1>6, <2>1 DEF KillVpn, TypeOK
<1> QED BY <1>1, <1>2, <1>3, <1>4, <1>5, <1>6 DEF VpnStep

----------------------------------------------------------------------------
(* The copies *)

LEMMA GotoFacts ==
    ASSUME TypeOK, NEW j \in Jobs, NEW s, NEW i, Goto(j, s, i)
    PROVE  /\ job'[j].at = s /\ job'[j].id = i
           /\ \A k \in Jobs \ {j} : job'[k] = job[k]
BY DEF TypeOK, Goto

\* An operation in flight in a clean history is alone.
LEMMA Alone ==
    ASSUME CopyInv, clean, NEW j \in Jobs, job[j].at # "idle"
    PROVE  \A k \in Jobs \ {j} : job[k].at = "idle"
BY DEF CopyInv

\* It is enough to look at the operation that is alone.
LEMMA AloneSuffices ==
    ASSUME NEW j \in Jobs,
           \A k \in Jobs \ {j} : job'[k].at = "idle",
           Progress(j)', job'[j].at = "idle" => Agree'
    PROVE  CopyInv'
<1>1. \A k \in Jobs : Progress(k)'
  BY DEF Progress
<1>2. (\A k \in Jobs : job'[k].at = "idle") => Agree'
  OBVIOUS
<1>3. \A k, l \in Jobs : job'[k].at # "idle" /\ job'[l].at # "idle" => k = l
  OBVIOUS
<1> QED BY <1>1, <1>2, <1>3 DEF CopyInv

\* The operations that begin.
LEMMA BeginStep ==
    ASSUME IInv, NEW j \in Jobs, clean',
           Open(j) \/ Query(j) \/ \E p \in Profiles : Activate(j, p) \/ Delete(j, p)
    PROVE  CopyInv'
<1> USE DEF IInv
<1>1. AtRest
  BY DEF Open, Query, Activate, Delete
<1>2. \A k \in Jobs \ {j} : job'[k].at = "idle"
  BY <1>1, GotoFacts DEF Open, Query, Activate, Delete, AtRest
<1>3. ASSUME NEW p \in Profiles, Activate(j, p) PROVE CopyInv'
  <2>1. job'[j].at = "put" /\ job'[j].id = p /\ page' = p /\ p \in rows /\ rows' = rows
    BY <1>3, GotoFacts DEF Activate
  <2> QED BY <1>2, <2>1, AloneSuffices DEF Progress
<1>4. CASE Open(j) \/ Query(j) \/ \E p \in Profiles : Delete(j, p)
  <2>1. clean /\ Agree
    BY <1>1, <1>4 DEF Open, Query, Delete, CopyInv, AtRest
  <2>2. UNCHANGED <<prefMem, prefDisk, cached, rows, idFile>>
    BY <1>4 DEF Open, Query, Delete, fileVars
  <2>3. CASE Open(j)
    <3>1. job'[j].at = "load"
      BY <2>3, GotoFacts DEF Open
    <3> QED BY <1>2, <2>1, <2>2, <3>1, AloneSuffices DEF Progress, Agree
  <2>4. CASE Query(j)
    <3>1. job'[j].at = "query" /\ job'[j].id = prefMem /\ page' = page
      BY <2>4, GotoFacts DEF Query
    <3> QED BY <1>2, <2>1, <2>2, <3>1, AloneSuffices DEF Progress, Agree
  <2>5. CASE \E p \in Profiles : Delete(j, p)
    <3>1. job'[j].at = "row" /\ page' = page /\ page # NoPage
      BY <2>5, GotoFacts DEF Delete
    <3> QED BY <1>2, <2>1, <2>2, <3>1, AloneSuffices DEF Progress, Agree
  <2> QED BY <1>4, <2>3, <2>4, <2>5
<1> QED BY <1>3, <1>4

\* The rest of loadProfiles, getActiveProfileId and deleteProfile.
LEMMA PageStep ==
    ASSUME IInv, NEW j \in Jobs, Load(j) \/ Got(j) \/ Queried(j) \/ RowDeleted(j) \/ Deleted(j), clean'
    PROVE  CopyInv'
<1> USE DEF IInv
<1>1. clean /\ job[j].at # "idle"
  BY DEF Load, Got, Queried, RowDeleted, Deleted
<1>2. Progress(j)
  BY <1>1 DEF CopyInv
<1>3. \A k \in Jobs \ {j} : job'[k].at = "idle"
  BY <1>1, Alone, GotoFacts DEF Load, Got, Queried, RowDeleted, Deleted, Done
<1>4. UNCHANGED <<prefMem, prefDisk, idFile>>
  BY DEF Load, Got, Queried, RowDeleted, Deleted, fileVars
<1>5. CASE Load(j)
  <2>1. CASE cached # None
    <3>1. job'[j].at = "idle" /\ page' = cached /\ UNCHANGED <<cached, rows>>
      BY <1>5, <2>1, GotoFacts DEF Load, Done
    <3>2. Agree'
      BY <1>2, <1>4, <1>5, <2>1, <3>1 DEF Load, Progress, Agree
    <3> QED BY <1>3, <3>1, <3>2, AloneSuffices DEF Progress
  <2>2. CASE cached = None
    <3>1. job'[j].at = "get" /\ job'[j].id = prefMem /\ UNCHANGED <<cached, rows, page>>
      BY <1>5, <2>2, GotoFacts DEF Load
    <3>2. Progress(j)'
      BY <1>2, <1>4, <1>5, <2>2, <3>1 DEF Load, Progress
    <3> QED BY <1>3, <3>1, <3>2, AloneSuffices
  <2> QED BY <2>1, <2>2
<1>6. CASE Got(j)
  <2>1. job'[j].at = "idle" /\ page' = job[j].id /\ cached' = job[j].id /\ rows' = rows /\ job[j].at = "get"
    BY <1>6, GotoFacts DEF Got, Done
  <2>2. Agree'
    BY <1>2, <1>4, <2>1 DEF Progress, Agree
  <2> QED BY <1>3, <2>1, <2>2, AloneSuffices DEF Progress
<1>7. CASE Queried(j)
  <2>1. job'[j].at = "idle" /\ cached' = job[j].id /\ UNCHANGED <<page, rows>> /\ job[j].at = "query"
    BY <1>7, GotoFacts DEF Queried, Done
  <2>2. Agree'
    BY <1>2, <1>4, <2>1 DEF Progress, Agree
  <2> QED BY <1>3, <2>1, <2>2, AloneSuffices DEF Progress
<1>8. CASE RowDeleted(j)
  <2>1. /\ job'[j].at = "file" /\ job'[j].id = job[j].id /\ UNCHANGED <<page, cached>>
        /\ rows' = rows \ {job[j].id} /\ job[j].at = "row"
    BY <1>8, GotoFacts DEF RowDeleted
  <2> QED BY <1>2, <1>3, <1>4, <2>1, AloneSuffices DEF Progress
<1>9. CASE Deleted(j)
  <2>1. job[j].at = "file" /\ UNCHANGED <<cached, rows>>
    BY <1>9 DEF Deleted
  <2>2. CASE page = job[j].id
    <3>1. job'[j].at = "put" /\ job'[j].id = None /\ page' = None
      BY <1>9, <2>2, GotoFacts DEF Deleted
    <3> QED BY <1>3, <3>1, AloneSuffices DEF Progress
  <2>3. CASE page # job[j].id
    <3>1. job'[j].at = "load" /\ page' = page
      BY <1>9, <2>3, GotoFacts DEF Deleted
    <3> QED BY <1>2, <1>3, <1>4, <2>1, <2>3, <3>1, AloneSuffices DEF Progress
  <2> QED BY <2>2, <2>3
<1> QED BY <1>5, <1>6, <1>7, <1>8, <1>9

\* setActiveProfileId and the copy of the configuration.
LEMMA StoreStep ==
    ASSUME IInv, NEW j \in Jobs,
           Put(j) \/ Flush(j) \/ Truncate(j) \/ WriteId(j) \/ SyncRead(j) \/ SyncWrite(j), clean'
    PROVE  CopyInv'
<1> USE DEF IInv
<1>1. clean /\ job[j].at # "idle"
  BY DEF Put, Flush, Truncate, WriteId, SyncRead, SyncWrite
<1>2. Progress(j)
  BY <1>1 DEF CopyInv
<1>3. page' = page /\ rows' = rows
  BY DEF Put, Flush, Truncate, WriteId, SyncRead, SyncWrite
<1>4. CASE Put(j)
  <2>1. /\ job[j].at = "put" /\ job'[j].at = "flush" /\ job'[j].id = job[j].id
        /\ prefMem' = job[j].id /\ \A k \in Jobs \ {j} : job'[k] = job[k]
    BY <1>4, GotoFacts DEF Put
  <2> QED BY <1>1, <1>2, <1>3, <2>1, Alone, AloneSuffices DEF Progress
<1>5. CASE Flush(j)
  <2>1. /\ job[j].at = "flush" /\ job'[j].at = "resume" /\ job'[j].id = job[j].id
        /\ prefDisk' = prefMem /\ prefMem' = prefMem /\ \A k \in Jobs \ {j} : job'[k] = job[k]
    BY <1>5, GotoFacts DEF Flush
  <2> QED BY <1>1, <1>2, <1>3, <2>1, Alone, AloneSuffices DEF Progress
<1>6. CASE Truncate(j)
  <2>1. /\ job[j].at = "resume" /\ job'[j].at = "truncated" /\ job'[j].id = job[j].id
        /\ cached' = job[j].id /\ prefMem' = prefMem /\ prefDisk' = prefDisk
        /\ \A k \in Jobs \ {j} : job'[k] = job[k]
    BY <1>6, GotoFacts DEF Truncate
  <2> QED BY <1>1, <1>2, <1>3, <2>1, Alone, AloneSuffices DEF Progress
<1>7. CASE WriteId(j)
  <2>1. /\ job[j].at = "truncated" /\ idFile' = job[j].id /\ UNCHANGED <<prefMem, prefDisk, cached>>
        /\ job'[j].at = IF job[j].id = None THEN "load" ELSE "exists"
        /\ job'[j].id = job[j].id /\ \A k \in Jobs \ {j} : job'[k] = job[k]
    BY <1>7, GotoFacts DEF WriteId, AfterWrite
  <2> QED BY <1>1, <1>2, <1>3, <2>1, Alone, AloneSuffices DEF Progress
<1>8. CASE SyncRead(j) \/ SyncWrite(j)
  <2>1. /\ job[j].at \in {"exists", "copying"} /\ UNCHANGED <<prefMem, prefDisk, cached, idFile>>
    BY <1>8 DEF SyncRead, SyncWrite
  <2>2. /\ job'[j].at = "idle" \/ (job'[j].at = "copying" /\ job'[j].id = job[j].id)
        /\ \A k \in Jobs \ {j} : job'[k] = job[k]
    <3>1. CASE Done(j)
      BY <3>1, GotoFacts DEF Done
    <3>2. CASE ~Done(j)
      <4>1. job' = [job EXCEPT ![j] = [at |-> "copying", id |-> job[j].id, data |-> conf[job[j].id]]]
        BY <1>8, <3>2, Zenon DEF SyncRead, SyncWrite
      <4> QED BY <4>1 DEF TypeOK
    <3> QED BY <3>1, <3>2
  <2>3. Agree'
    BY <1>2, <1>3, <2>1 DEF Progress, Agree
  <2> QED BY <1>1, <1>2, <1>3, <2>1, <2>2, <2>3, Alone, AloneSuffices DEF Progress
<1> QED BY <1>4, <1>5, <1>6, <1>7, <1>8

\* Saves, kills and the VPN process do not touch the copies.
LEMMA OtherStep ==
    ASSUME CopyInv, clean',
           (\E p \in Profiles : SaveTruncate(p)) \/ SaveWrite \/ KillUi \/ VpnStep
    PROVE  CopyInv'
<1>1. CASE KillUi
  <2>1. Agree
    BY <1>1 DEF KillUi, CopyInv
  <2>2. Agree'
    BY <1>1, <2>1 DEF KillUi, Agree, fileVars
  <2>3. \A j \in Jobs : job'[j].at = "idle"
    BY <1>1 DEF KillUi
  <2> QED BY <2>2, <2>3 DEF CopyInv, Progress
<1>2. CASE (\E p \in Profiles : SaveTruncate(p)) \/ SaveWrite \/ VpnStep
  <2>1. UNCHANGED <<prefMem, prefDisk, cached, page, rows, idFile, job, clean>>
    BY <1>2 DEF SaveTruncate, SaveWrite, VpnStep, Boot, ReadId, EnsureRead, EnsureWrite, LoadConfig,
                KillVpn, uiVars, fileVars
  <2> QED BY <2>1 DEF CopyInv, Agree, Progress
<1> QED BY <1>1, <1>2

----------------------------------------------------------------------------

LEMMA Inductive == Spec => []IInv
<1>1. Init => IInv
  <2> SUFFICES ASSUME Init PROVE IInv
    OBVIOUS
  <2>1. job \in [Jobs -> JobStates] /\ vpn \in VpnStates
    BY DEF Init, JobStates, VpnStates
  <2>2. Nothing \in [id : Ids, ver : Contents]
    BY Versions DEF Nothing, Ids, Missing
  <2>3. clean \in BOOLEAN /\ calm \in BOOLEAN
    BY Zenon DEF Init
  <2>4. TypeOK
    BY <2>1, <2>2, <2>3, Versions DEF Init, TypeOK, Ids, Missing
  <2>5. CopyInv
    BY DEF Init, CopyInv, Agree, Progress
  <2> QED BY <2>4, <2>5 DEF IInv
<1>2. IInv /\ [Next]_vars => IInv'
  <2> SUFFICES ASSUME IInv, [Next]_vars PROVE IInv'
    OBVIOUS
  <2>1. CASE UNCHANGED vars
    BY <2>1 DEF vars, uiVars, fileVars, vpnVars, IInv, TypeOK, CopyInv, Agree, Progress
  <2>2. ASSUME NEW j \in Jobs, JobStep(j) PROVE IInv'
    <3>1. TypeOK'
      BY <2>2, PageType, StoreType DEF IInv, JobStep
    <3>2. CASE TruncateFails(j) \/ FlushFails(j)
      BY <3>1, <3>2 DEF TruncateFails, FlushFails, IInv, CopyInv
    <3>3. CASE ~clean'
      BY <3>1, <3>3 DEF IInv, CopyInv
    <3>4. CASE clean' /\ ~(TruncateFails(j) \/ FlushFails(j))
      BY <2>2, <3>1, <3>4, BeginStep, PageStep, StoreStep DEF IInv, JobStep
    <3> QED BY <3>2, <3>3, <3>4
  <2>3. CASE (\E p \in Profiles : SaveTruncate(p)) \/ SaveWrite \/ KillUi \/ VpnStep
    <3>1. TypeOK'
      BY <2>3, SaveType, VpnStepType DEF IInv
    <3>2. CopyInv'
      BY <2>3, OtherStep DEF IInv, CopyInv
    <3> QED BY <3>1, <3>2 DEF IInv
  <2> QED BY <2>1, <2>2, <2>3 DEF Next
<1> QED BY <1>1, <1>2, PTL DEF Spec

\* The variables keep their types: only a profile is ever copied or loaded.
THEOREM TypeCorrect == Spec => []TypeOK
<1>1. IInv => TypeOK
  BY DEF IInv
<1> QED BY <1>1, Inductive, PTL

\* However many operations have overlapped, failed or been killed, one
\* activation that runs alone makes the copies of the active profile agree, and
\* they do as long as operations run one at a time.
THEOREM ActivationRepairs == Spec => []CopiesAgree
<1>1. IInv => CopiesAgree
  BY DEF IInv, CopyInv, Agree, CopiesAgree, AtRest
<1> QED BY <1>1, Inductive, PTL

----------------------------------------------------------------------------
(* The start of the VPN process *)

\* A configuration is the last one saved, torn, or gone with its profile.
ConfInv ==
    /\ \A p \in Profiles : conf[p] \in {Missing, Torn, saved[p]}
    /\ \A p \in rows : conf[p] # Missing
    /\ \A j \in Jobs : job[j].at = "file" => job[j].id \notin rows

\* How far a start at rest has come with the profile the copies agree on: its
\* own copy of the configuration is the last to have been written.
BootProgress ==
    /\ vpn.at \in {"ensure", "copying", "load"} => vpn.id = prefMem
    /\ vpn.at = "copying" => yaml[vpn.id] = Torn /\ vpn.data = conf[vpn.id]
    /\ vpn.at = "load" => (conf[vpn.id] # Torn => yaml[vpn.id] = saved[vpn.id])
    /\ vpn.at = "up" =>
         IF prefMem = None THEN running = Nothing
         ELSE /\ running.id = prefMem
              /\ conf[prefMem] # Torn => running.ver = saved[prefMem]

BootInv ==
    /\ vpn.at # "up" => running = Nothing
    /\ calm => AtRest
    /\ clean /\ calm => BootProgress

LEMMA ConfStep ==
    ASSUME IInv, ConfInv, [Next]_vars PROVE ConfInv'
<1> USE DEF IInv, ConfInv, uiVars, fileVars, vpnVars
<1>1. ASSUME NEW j \in Jobs, RowDeleted(j) PROVE ConfInv'
  <2>1. /\ rows' = rows \ {job[j].id} /\ UNCHANGED <<conf, saved>>
        /\ job'[j].id = job[j].id /\ \A k \in Jobs \ {j} : job'[k] = job[k]
    BY <1>1, GotoFacts DEF RowDeleted
  <2> QED BY <2>1
<1>2. ASSUME NEW j \in Jobs, Deleted(j) PROVE ConfInv'
  <2>1. job[j].id \in Profiles /\ job[j].id \notin rows
    BY <1>2, JobType DEF Deleted
  <2>2. job'[j].at # "file" /\ \A k \in Jobs \ {j} : job'[k] = job[k]
    <3>1. Goto(j, "put", None) \/ Goto(j, "load", None)
      BY <1>2 DEF Deleted
    <3> QED BY <3>1, GotoFacts
  <2>3. /\ conf' = [conf EXCEPT ![job[j].id] = Missing] /\ UNCHANGED <<saved, rows>>
    BY <1>2 DEF Deleted
  <2> QED BY <2>1, <2>2, <2>3 DEF TypeOK
<1>3. ASSUME NEW j \in Jobs,
             \/ Open(j) \/ Load(j) \/ Got(j) \/ Query(j) \/ Queried(j) \/ Put(j) \/ Flush(j)
             \/ FlushFails(j) \/ Truncate(j) \/ TruncateFails(j) \/ WriteId(j)
             \/ \E p \in Profiles : Activate(j, p) \/ Delete(j, p)
      PROVE  ConfInv'
  <2>1. UNCHANGED <<conf, saved, rows>>
    BY <1>3 DEF Open, Load, Got, Query, Queried, Put, Flush, FlushFails, Truncate, TruncateFails,
                WriteId, Activate, Delete
  <2>2. \E s, i : s # "file" /\ Goto(j, s, i)
    BY <1>3 DEF Open, Load, Got, Query, Queried, Put, Flush, FlushFails, Truncate, TruncateFails,
                WriteId, Activate, Delete, Done, AfterWrite
  <2>3. job'[j].at # "file" /\ \A k \in Jobs \ {j} : job'[k] = job[k]
    BY <2>2, GotoFacts
  <2> QED BY <2>1, <2>3
<1>4. ASSUME NEW j \in Jobs, SyncRead(j) \/ SyncWrite(j) PROVE ConfInv'
  <2>1. UNCHANGED <<conf, saved, rows>>
    BY <1>4 DEF SyncRead, SyncWrite
  <2>2. job'[j].at # "file" /\ \A k \in Jobs \ {j} : job'[k] = job[k]
    BY <1>4 DEF SyncRead, SyncWrite, Done, Goto, TypeOK
  <2> QED BY <2>1, <2>2
<1>5. ASSUME NEW p \in Profiles, SaveTruncate(p) PROVE ConfInv'
  BY <1>5 DEF SaveTruncate, TypeOK, Missing, Torn
<1>6. CASE SaveWrite
  <2>1. saving \in Profiles /\ saved[saving] # Missing
    BY <1>6 DEF SaveWrite, TypeOK, Ids, Missing
  <2> QED BY <1>6, <2>1 DEF SaveWrite, TypeOK
<1>7. CASE KillUi
  BY <1>7 DEF KillUi
<1>8. CASE VpnStep
  BY <1>8 DEF VpnStep, Boot, ReadId, EnsureRead, EnsureWrite, LoadConfig, KillVpn
<1>9. CASE UNCHANGED vars
  BY <1>9 DEF vars
<1> QED BY <1>1, <1>2, <1>3, <1>4, <1>5, <1>6, <1>7, <1>8, <1>9 DEF Next, JobStep

\* At rest nothing goes on in the UI process, and what begins ends the rest.
LEMMA UiBreaksCalm ==
    ASSUME IInv, BootInv,
           (\E j \in Jobs : JobStep(j)) \/ (\E p \in Profiles : SaveTruncate(p)) \/ SaveWrite \/ KillUi
    PROVE  ~calm' /\ BootInv'
<1>1. ~calm'
  BY DEF BootInv, AtRest, JobStep, Open, Load, Got, Query, Queried, Activate, Delete, RowDeleted, Deleted,
         Put, Flush, FlushFails, Truncate, TruncateFails, WriteId, SyncRead, SyncWrite, Begin,
         SaveTruncate, SaveWrite, KillUi
<1>2. UNCHANGED vpnVars
  BY DEF JobStep, Open, Load, Got, Query, Queried, Activate, Delete, RowDeleted, Deleted,
         Put, Flush, FlushFails, Truncate, TruncateFails, WriteId, SyncRead, SyncWrite,
         SaveTruncate, SaveWrite, KillUi
<1> QED BY <1>1, <1>2 DEF BootInv, vpnVars

LEMMA VpnBootStep ==
    ASSUME IInv, ConfInv, BootInv, VpnStep PROVE BootInv'
<1> USE DEF IInv, BootInv, uiVars, fileVars
<1>1. UNCHANGED <<uiVars, idFile, conf, saved, clean>>
  BY DEF VpnStep, Boot, ReadId, EnsureRead, EnsureWrite, LoadConfig, KillVpn
<1>2. AtRest' <=> AtRest
  BY <1>1 DEF AtRest
<1>3. clean /\ AtRest => idFile = prefMem /\ prefMem \in rows \cup {None}
  BY DEF CopyInv, Agree, AtRest
<1>4. CASE Boot
  BY <1>2, <1>4 DEF Boot, VpnGoto, BootProgress
<1>5. CASE ReadId
  <2>1. running' = running /\ running = Nothing /\ calm' = calm
    BY <1>5 DEF ReadId
  <2>2. vpn'.at = (IF idFile = None THEN "up" ELSE "ensure") /\ vpn'.id = idFile
    BY <1>5 DEF ReadId, VpnGoto
  <2> QED BY <1>1, <1>2, <1>3, <1>5, <2>1, <2>2 DEF BootProgress
<1>6. CASE EnsureRead
  <2>1. vpn.id \in Profiles /\ running' = running /\ running = Nothing /\ calm' = calm /\ vpn.at = "ensure"
    BY <1>6, VpnType DEF EnsureRead
  <2>2. CASE conf[vpn.id] \in {Missing, Torn}
    <3>1. vpn'.at = "load" /\ vpn'.id = vpn.id
      BY <1>6, <2>2 DEF EnsureRead, VpnGoto
    <3>2. clean /\ calm => conf[vpn.id] # Missing
      BY <1>3, <2>1, ActivationAssumption DEF ConfInv, BootProgress
    <3> QED BY <1>1, <1>2, <2>1, <2>2, <3>1, <3>2 DEF BootProgress
  <2>3. CASE conf[vpn.id] \notin {Missing, Torn}
    <3>1. /\ vpn'.at = "copying" /\ vpn'.id = vpn.id /\ vpn'.data = conf[vpn.id]
          /\ yaml'[vpn.id] = Torn
      BY <1>6, <2>1, <2>3 DEF EnsureRead, TypeOK
    <3> QED BY <1>1, <1>2, <2>1, <3>1 DEF BootProgress
  <2> QED BY <2>2, <2>3
<1>7. CASE EnsureWrite
  <2>1. vpn.id \in Profiles /\ running' = running /\ running = Nothing /\ calm' = calm /\ vpn.at = "copying"
        /\ vpn.data \in 1..MaxVersion
    BY <1>7, VpnType DEF EnsureWrite
  <2>2. vpn'.at = "load" /\ vpn'.id = vpn.id
    BY <1>7 DEF EnsureWrite, VpnGoto
  <2>3. clean /\ calm => yaml'[vpn.id] = conf[vpn.id]
    BY <1>7, <2>1 DEF EnsureWrite, Written, BootProgress, TypeOK
  <2>4. clean /\ calm => conf[vpn.id] = saved[vpn.id]
    BY <2>1 DEF BootProgress, ConfInv, Missing, Torn
  <2> QED BY <1>1, <1>2, <2>1, <2>2, <2>3, <2>4 DEF BootProgress
<1>8. CASE LoadConfig
  <2>1. vpn.id \in Profiles /\ vpn.id # None /\ vpn.at = "load" /\ calm' = calm
    BY <1>8, VpnType, ActivationAssumption DEF LoadConfig
  <2>2. vpn'.at = "up" /\ running'.id = vpn.id /\ running'.ver = yaml[vpn.id]
    BY <1>8 DEF LoadConfig, VpnGoto
  <2> QED BY <1>1, <1>2, <2>1, <2>2 DEF BootProgress
<1>9. CASE KillVpn
  BY <1>2, <1>9 DEF KillVpn, VpnGoto, BootProgress
<1> QED BY <1>4, <1>5, <1>6, <1>7, <1>8, <1>9 DEF VpnStep

\* A start of the VPN process that nothing of the UI process disturbs runs the
\* active profile in its last version, whatever <id>.yaml held before.
THEOREM BootIsCurrent == Spec => []BootRunsActive
<1>1. Init => ConfInv /\ BootInv
  BY DEF Init, ConfInv, BootInv, Missing
<1>2. IInv /\ ConfInv /\ BootInv /\ [Next]_vars => ConfInv' /\ BootInv'
  <2>1. ASSUME BootInv, UNCHANGED vars PROVE BootInv'
    BY <2>1 DEF vars, uiVars, fileVars, vpnVars, BootInv, BootProgress, AtRest
  <2> QED BY <2>1, ConfStep, UiBreaksCalm, VpnBootStep DEF Next
<1>3. BootInv => BootRunsActive
  BY DEF BootInv, BootProgress, BootRunsActive
<1> QED BY <1>1, <1>2, <1>3, Inductive, PTL DEF Spec
=============================================================================
