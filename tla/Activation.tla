----------------------------- MODULE Activation -----------------------------
(***************************************************************************)
(* The active profile and its copies: the Preferences entry, the cache of  *)
(* ActivationStore, the Profiles page, and the file active_profile.id that *)
(* the VPN process reads, with the configuration that is copied from       *)
(* <id>/config.yaml to <id>.yaml for the Go core.                          *)
(*                                                                         *)
(* The UI process is one JavaScript thread: its operations are cut where   *)
(* they await Preferences, the table or fileExists.  Its synchronous file  *)
(* calls are cut too, because the VPN process runs between them, but no    *)
(* other operation of the UI process does.  Either process can be killed   *)
(* anywhere.                                                               *)
(***************************************************************************)
EXTENDS Integers, FiniteSets

CONSTANTS
    Profiles,    \* ids of profiles
    None,        \* '', no active profile
    NoPage,      \* the Profiles page is not open
    Jobs,        \* bound: operations of the UI process that can overlap
    MaxVersion   \* bound: nothing is saved once a profile has this version

ASSUME ActivationAssumption ==
    /\ None \notin Profiles
    /\ NoPage \notin Profiles \cup {None}
    /\ MaxVersion \in Nat \ {0}

VARIABLES
    prefMem,    \* active_profile_id of the Preferences object
    prefDisk,   \* what was flushed of it
    cached,     \* cachedActiveId
    page,       \* activeId of the Profiles page
    rows,       \* the profiles in the table, which the page lists
    idFile,     \* active_profile.id, None when it is empty or missing
    conf,       \* <id>/config.yaml: missing, torn or a version
    saved,      \* the last version saved of each profile
    saving,     \* the configuration save has truncated, None between saves
    yaml,       \* <id>.yaml
    job,        \* the operations of the UI process in flight
    vpn,        \* where the start of the VPN process is
    running,    \* the configuration the core runs
    clean,      \* history: since the last operation that ran alone none has
                \* overlapped, failed or been killed
    calm        \* history: the VPN process started at rest, and nothing has
                \* begun in the UI process since

uiVars   == <<prefMem, prefDisk, cached, page, rows, saving, job>>
fileVars == <<idFile, conf, saved, yaml>>
vpnVars  == <<vpn, running>>
vars     == <<uiVars, fileVars, vpnVars, clean, calm>>

Missing  == 0
Torn     == -1
Contents == {Missing, Torn} \cup 1..MaxVersion
Ids      == Profiles \cup {None}

Nothing == [id |-> None, ver |-> Missing]

\* No operation of the UI process is in flight.
AtRest == (\A j \in Jobs : job[j].at = "idle") /\ saving = None

\* The JavaScript thread is not inside a block of synchronous file calls.
UiFree == (\A j \in Jobs : job[j].at \notin {"truncated", "copying"}) /\ saving = None


\* Operation j goes on to another step, on id.
Goto(j, step, id) == job' = [job EXCEPT ![j] = [at |-> step, id |-> id, data |-> Missing]]

Done(j) == Goto(j, "idle", None)

\* The VPN process goes on to another step of its start.
VpnGoto(step, id) == vpn' = [at |-> step, id |-> id, data |-> Missing]

\* What a file holds after a write to it: a file another process has written
\* since it was truncated may keep the end of the longer text.
Written(old, new) == IF old = Torn THEN {new} ELSE {new, Torn}

JobStates ==
    [at : {"idle", "load"}, id : {None}, data : {Missing}]
           \cup [at : {"get", "query", "put", "flush", "resume", "truncated"}, id : Ids, data : {Missing}]
           \cup [at : {"row", "file", "exists"}, id : Profiles, data : {Missing}]
           \cup [at : {"copying"}, id : Profiles, data : 1..MaxVersion]

VpnStates ==
    [at : {"off", "read", "up"}, id : {None}, data : {Missing}]
        \cup [at : {"ensure", "load"}, id : Profiles, data : {Missing}]
        \cup [at : {"copying"}, id : Profiles, data : 1..MaxVersion]

\* The variables have their types; in particular only a profile is ever copied
\* or loaded, never '' (ActivationStore.ets:79, ClashVpnAbility.ets:42).
TypeOK ==
    /\ prefMem \in Ids /\ prefDisk \in Ids /\ cached \in Ids /\ idFile \in Ids
    /\ page \in Ids \cup {NoPage}
    /\ rows \subseteq Profiles
    /\ conf \in [Profiles -> Contents]
    /\ saved \in [Profiles -> 1..MaxVersion]
    /\ saving \in Ids
    /\ yaml \in [Profiles -> Contents]
    /\ job \in [Jobs -> JobStates]
    /\ vpn \in VpnStates
    /\ running \in [id : Ids, ver : Contents]
    /\ clean \in BOOLEAN /\ calm \in BOOLEAN

Init ==
    /\ prefMem = None /\ prefDisk = None /\ cached = None /\ idFile = None
    /\ page = NoPage
    /\ rows = Profiles
    /\ conf = [p \in Profiles |-> 1]
    /\ saved = [p \in Profiles |-> 1]
    /\ saving = None
    /\ yaml = [p \in Profiles |-> Missing]
    /\ job = [j \in Jobs |-> [at |-> "idle", id |-> None, data |-> Missing]]
    /\ vpn = [at |-> "off", id |-> None, data |-> Missing]
    /\ running = Nothing
    /\ clean = TRUE /\ calm = FALSE

-----------------------------------------------------------------------------
(* The Profiles page *)

Begin(j) == UiFree /\ job[j].at = "idle" /\ calm' = FALSE

\* loadProfiles, when the page opens or after an import, up to its queryAll.
Open(j) ==
    /\ Begin(j)
    /\ page' = IF page = NoPage THEN None ELSE page
    /\ Goto(j, "load", None)
    /\ clean' = (clean /\ AtRest)
    /\ UNCHANGED <<prefMem, prefDisk, cached, rows, saving, fileVars, vpnVars>>

\* getActiveProfileId: the cache answers at once, Preferences later.
Load(j) ==
    /\ UiFree
    /\ job[j].at = "load"
    /\ IF cached # None
         THEN page' = cached /\ Done(j)
         ELSE UNCHANGED page /\ Goto(j, "get", prefMem)
    /\ UNCHANGED <<prefMem, prefDisk, cached, rows, saving, fileVars, vpnVars, clean, calm>>

\* The end of getActiveProfileId and of loadProfiles.
Got(j) ==
    /\ UiFree
    /\ job[j].at = "get"
    /\ cached' = job[j].id
    /\ page' = job[j].id
    /\ Done(j)
    /\ UNCHANGED <<prefMem, prefDisk, rows, saving, fileVars, vpnVars, clean, calm>>

\* getActiveProfileId of another page, when it has to ask Preferences.
Query(j) ==
    /\ Begin(j)
    /\ cached = None
    /\ Goto(j, "query", prefMem)
    /\ clean' = (clean /\ AtRest)
    /\ UNCHANGED <<prefMem, prefDisk, cached, page, rows, saving, fileVars, vpnVars>>

Queried(j) ==
    /\ UiFree
    /\ job[j].at = "query"
    /\ cached' = job[j].id
    /\ Done(j)
    /\ UNCHANGED <<prefMem, prefDisk, page, rows, saving, fileVars, vpnVars, clean, calm>>

\* activateProfile on a row of the page, up to the put of setActiveProfileId.
\* One that begins alone repairs whatever went wrong before.
Activate(j, p) ==
    /\ Begin(j)
    /\ page # NoPage
    /\ p \in rows
    /\ page' = p
    /\ Goto(j, "put", p)
    /\ clean' = AtRest
    /\ UNCHANGED <<prefMem, prefDisk, cached, rows, saving, fileVars, vpnVars>>

\* deleteProfile, up to its repo.delete.
Delete(j, p) ==
    /\ Begin(j)
    /\ page # NoPage
    /\ p \in rows
    /\ Goto(j, "row", p)
    /\ clean' = (clean /\ AtRest)
    /\ UNCHANGED <<prefMem, prefDisk, cached, page, rows, saving, fileVars, vpnVars>>

RowDeleted(j) ==
    /\ UiFree
    /\ job[j].at = "row"
    /\ rows' = rows \ {job[j].id}
    /\ Goto(j, "file", job[j].id)
    /\ UNCHANGED <<prefMem, prefDisk, cached, page, saving, fileVars, vpnVars, clean, calm>>

\* Mutant: the active profile stays when its subscription is deleted.
DeletedKeepActive(j) ==
    /\ UiFree
    /\ job[j].at = "file"
    /\ conf' = [conf EXCEPT ![job[j].id] = Missing]
    /\ Goto(j, "load", None)
    /\ UNCHANGED <<prefMem, prefDisk, cached, page, rows, saving, idFile, saved, yaml, vpnVars, clean, calm>>

\* The file is gone too; the active profile is cleared when the page shows the
\* deleted one as active. The page is loaded again, after the clearing if any.
Deleted(j) ==
    /\ UiFree
    /\ job[j].at = "file"
    /\ conf' = [conf EXCEPT ![job[j].id] = Missing]
    /\ IF page = job[j].id
         THEN page' = None /\ Goto(j, "put", None)
         ELSE UNCHANGED page /\ Goto(j, "load", None)
    /\ UNCHANGED <<prefMem, prefDisk, cached, rows, saving, idFile, saved, yaml, vpnVars, clean, calm>>

-----------------------------------------------------------------------------
(* setActiveProfileId *)

Put(j) ==
    /\ job[j].at = "put"
    /\ prefMem' = job[j].id
    /\ Goto(j, "flush", job[j].id)
    /\ UNCHANGED <<prefDisk, cached, page, rows, saving, fileVars, vpnVars, clean, calm>>

Flush(j) ==
    /\ job[j].at = "flush"
    /\ prefDisk' = prefMem
    /\ Goto(j, "resume", job[j].id)
    /\ UNCHANGED <<prefMem, cached, page, rows, saving, fileVars, vpnVars, clean, calm>>

\* A flush that fails ends the operation.
FlushFails(j) ==
    /\ UiFree
    /\ job[j].at = "flush"
    /\ Done(j)
    /\ clean' = FALSE
    /\ UNCHANGED <<prefMem, prefDisk, cached, page, rows, saving, fileVars, vpnVars, calm>>

\* The file that stands for the VPN process is opened, and truncated by that.
Truncate(j) ==
    /\ UiFree
    /\ job[j].at = "resume"
    /\ cached' = job[j].id
    /\ idFile' = None
    /\ Goto(j, "truncated", job[j].id)
    /\ UNCHANGED <<prefMem, prefDisk, page, rows, saving, conf, saved, yaml, vpnVars, clean, calm>>

\* Only an id is followed by the copy of its configuration; '' comes from a
\* deletion, which goes on to loadProfiles.
AfterWrite(j) ==
    Goto(j, IF job[j].id = None THEN "load" ELSE "exists", job[j].id)

\* It cannot be opened: that is logged, and the rest goes on.
TruncateFails(j) ==
    /\ UiFree
    /\ job[j].at = "resume"
    /\ cached' = job[j].id
    /\ clean' = FALSE
    /\ AfterWrite(j)
    /\ UNCHANGED <<prefMem, prefDisk, page, rows, saving, fileVars, vpnVars, calm>>

WriteId(j) ==
    /\ job[j].at = "truncated"
    /\ idFile' = job[j].id
    /\ AfterWrite(j)
    /\ UNCHANGED <<prefMem, prefDisk, cached, page, rows, saving, conf, saved, yaml, vpnVars, clean, calm>>

\* syncGoConfigYaml after fileExists: a missing or an empty configuration
\* leaves <id>.yaml alone, another one is read and <id>.yaml truncated.
SyncRead(j) ==
    /\ UiFree
    /\ job[j].at = "exists"
    /\ LET p == job[j].id IN
       IF conf[p] \in {Missing, Torn}
         THEN Done(j) /\ UNCHANGED yaml
         ELSE /\ yaml' = [yaml EXCEPT ![p] = Torn]
              /\ job' = [job EXCEPT ![j] = [at |-> "copying", id |-> p, data |-> conf[p]]]
    /\ UNCHANGED <<prefMem, prefDisk, cached, page, rows, saving, idFile, conf, saved, vpnVars, clean, calm>>

SyncWrite(j) ==
    /\ job[j].at = "copying"
    /\ \E c \in Written(yaml[job[j].id], job[j].data) : yaml' = [yaml EXCEPT ![job[j].id] = c]
    /\ Done(j)
    /\ UNCHANGED <<prefMem, prefDisk, cached, page, rows, saving, idFile, conf, saved, vpnVars, clean, calm>>

-----------------------------------------------------------------------------
(* Saves of a configuration, and the end of the UI process *)

SaveTruncate(p) ==
    /\ UiFree
    /\ p \in rows
    /\ \A q \in Profiles : saved[q] < MaxVersion
    /\ conf' = [conf EXCEPT ![p] = Torn]
    /\ saved' = [saved EXCEPT ![p] = @ + 1]
    /\ saving' = p
    /\ calm' = FALSE
    /\ UNCHANGED <<prefMem, prefDisk, cached, page, rows, idFile, yaml, job, vpnVars, clean>>

SaveWrite ==
    /\ saving # None
    /\ conf' = [conf EXCEPT ![saving] = saved[saving]]
    /\ saving' = None
    /\ UNCHANGED <<prefMem, prefDisk, cached, page, rows, idFile, saved, yaml, job, vpnVars, clean, calm>>

KillUi ==
    /\ prefMem' = prefDisk
    /\ cached' = None
    /\ page' = NoPage
    /\ saving' = None
    /\ job' = [j \in Jobs |-> [at |-> "idle", id |-> None, data |-> Missing]]
    /\ clean' = (clean /\ \A j \in Jobs : job[j].at = "idle")
    /\ calm' = FALSE
    /\ UNCHANGED <<prefDisk, rows, fileVars, vpnVars>>

-----------------------------------------------------------------------------
(* The VPN process: the part of loadActiveConfig that reads these files *)

Boot ==
    /\ vpn.at = "off"
    /\ VpnGoto("read", None)
    /\ calm' = AtRest
    /\ UNCHANGED <<uiVars, fileVars, running, clean>>

\* Mutant: an empty file is taken for an id.
ReadAny ==
    /\ vpn.at = "read"
    /\ VpnGoto("ensure", idFile)
    /\ UNCHANGED <<uiVars, fileVars, running, clean, calm>>

\* readActiveProfileIdFromFile. The Preferences it falls back to, app_state, are
\* nowhere written.
ReadId ==
    /\ vpn.at = "read"
    /\ VpnGoto(IF idFile = None THEN "up" ELSE "ensure", idFile)
    /\ UNCHANGED <<uiVars, fileVars, running, clean, calm>>

\* Mutant: a <id>.yaml that is there is taken as it is.
EnsureMissing ==
    /\ vpn.at = "ensure"
    /\ IF conf[vpn.id] \in {Missing, Torn} \/ yaml[vpn.id] # Missing
         THEN VpnGoto("load", vpn.id) /\ UNCHANGED yaml
         ELSE /\ yaml' = [yaml EXCEPT ![vpn.id] = Torn]
              /\ vpn' = [at |-> "copying", id |-> vpn.id, data |-> conf[vpn.id]]
    /\ UNCHANGED <<uiVars, idFile, conf, saved, running, clean, calm>>

\* ensureGoConfigYaml, which copies at every start.
EnsureRead ==
    /\ vpn.at = "ensure"
    /\ IF conf[vpn.id] \in {Missing, Torn}
         THEN VpnGoto("load", vpn.id) /\ UNCHANGED yaml
         ELSE /\ yaml' = [yaml EXCEPT ![vpn.id] = Torn]
              /\ vpn' = [at |-> "copying", id |-> vpn.id, data |-> conf[vpn.id]]
    /\ UNCHANGED <<uiVars, idFile, conf, saved, running, clean, calm>>

EnsureWrite ==
    /\ vpn.at = "copying"
    /\ \E c \in Written(yaml[vpn.id], vpn.data) : yaml' = [yaml EXCEPT ![vpn.id] = c]
    /\ VpnGoto("load", vpn.id)
    /\ UNCHANGED <<uiVars, idFile, conf, saved, running, clean, calm>>

\* updateConfig: the core reads <id>.yaml; what it cannot parse becomes its
\* default configuration.
LoadConfig ==
    /\ vpn.at = "load"
    /\ running' = [id |-> vpn.id, ver |-> yaml[vpn.id]]
    /\ VpnGoto("up", None)
    /\ UNCHANGED <<uiVars, fileVars, clean, calm>>

\* The process stops, or is killed, at any point of its start or later.
KillVpn ==
    /\ vpn.at # "off"
    /\ VpnGoto("off", None)
    /\ running' = Nothing
    /\ UNCHANGED <<uiVars, fileVars, clean, calm>>

-----------------------------------------------------------------------------

JobStep(j) ==
    \/ Open(j)
    \/ Load(j)
    \/ Got(j)
    \/ Query(j)
    \/ Queried(j)
    \/ \E p \in Profiles : Activate(j, p) \/ Delete(j, p)
    \/ RowDeleted(j)
    \/ Deleted(j)
    \/ Put(j)
    \/ Flush(j)
    \/ FlushFails(j)
    \/ Truncate(j)
    \/ TruncateFails(j)
    \/ WriteId(j)
    \/ SyncRead(j)
    \/ SyncWrite(j)

VpnStep == Boot \/ ReadId \/ EnsureRead \/ EnsureWrite \/ LoadConfig \/ KillVpn

Next ==
    \/ \E j \in Jobs : JobStep(j)
    \/ \E p \in Profiles : SaveTruncate(p)
    \/ SaveWrite
    \/ KillUi
    \/ VpnStep

Spec == Init /\ [][Next]_vars

-----------------------------------------------------------------------------

\* At rest, the copies of the active profile agree, and it is a profile of the
\* table, once an activation has run alone, whatever overlapped, failed or was
\* killed before it, and as long as nothing has since
\* (ActivationStore.ets:42-:82, Profiles.ets:240-:256).
CopiesAgree ==
    clean /\ AtRest =>
        /\ prefDisk = prefMem
        /\ idFile = prefMem
        /\ cached \in {None, prefMem}
        /\ page \in {NoPage, prefMem}
        /\ prefMem \in rows \cup {None}

\* A VPN process that starts when the copies agree runs the active profile in
\* the version saved last, whatever earlier starts and copies have left in
\* <id>.yaml; without an active profile it loads nothing
\* (ActivationStore.ets:131-:146, ClashVpnAbility.ets:40-:56).
BootRunsActive ==
    clean /\ calm /\ vpn.at = "up" =>
        IF prefMem = None THEN running = Nothing
        ELSE /\ running.id = prefMem
             /\ conf[prefMem] # Torn => running.ver = saved[prefMem]
=============================================================================
