---------------------------- MODULE SubscriptionUpdater ----------------------------
(***************************************************************************)
(* The subscriptions of the UI process: the rows of the Profiles table     *)
(* (ProfileRepo), the configuration file of each profile (Profile), the    *)
(* worker that updates them (SubscriptionUpdater) and the operations of    *)
(* the Profiles page.  All of it runs on one JavaScript thread and is cut  *)
(* where it waits for the table, the network, the task pool or a file that *)
(* is copied or unlinked without waiting for it; awaits that only go       *)
(* through the microtask queue are not cuts.                               *)
(*                                                                         *)
(* Time is abstracted to what scanAndEnqueue asks of it: a row is due when *)
(* its lastUpdateDate is autoUpdateDuration ago, fresh before.             *)
(***************************************************************************)
EXTENDS Naturals, FiniteSets, Sequences

CONSTANTS
    Profiles,      \* ids generateUUID can give
    FileProfiles,  \* those of them given to imports from a local file: no url
    Scans,         \* scanAndEnqueue calls that can overlap
    Jobs,          \* updates and imports that can overlap
    MaxKills,      \* bound: how often the system kills the process
    None           \* not a profile

ASSUME SubscriptionAssumption ==
    /\ IsFiniteSet(Profiles)
    /\ FileProfiles \subseteq Profiles
    /\ None \notin Profiles
    /\ MaxKills \in Nat

VARIABLES
    rows,      \* the row of each profile: none, fresh or due
    configs,   \* config.yaml of each profile: none, torn, or what was saved
    used,      \* ids given so far
    scan,      \* the rows each scan found due, None when it is not running
    queue,     \* SubscriptionUpdater.queue
    updating,  \* SubscriptionUpdater.updating
    job,       \* the updates and imports in flight
    deletion,  \* where the deleteProfile of each profile is
    copying,   \* profiles whose file saveByUri is still copying
    kills,     \* how often the process was killed
    gone       \* history: profiles the user has asked to delete

vars == <<rows, configs, used, scan, queue, updating, job, deletion, copying, kills, gone>>

----------------------------------------------------------------------------

\* What a download can be: text that parses as YAML, JSON on several lines,
\* and everything update refuses.
Bodies == {"yaml", "json", "refused"}

\* isYAML: JSON on one line is refused and JSON on several lines is YAML.
IsYAML(body) == body \in {"yaml", "json"}

IdleJob == [at |-> "idle", kind |-> "auto", p |-> None, body |-> "yaml", found |-> FALSE]

Running(p) == \E j \in Jobs : job[j].at # "idle" /\ job[j].kind = "auto" /\ job[j].p = p

Queued(p) == \E i \in 1..Len(queue) : queue[i] = p

\* Some object of the program still stands for p.
Mentioned(p) ==
    \/ Queued(p)
    \/ \E s \in Scans : scan[s] # None /\ p \in scan[s].due
    \/ \E j \in Jobs : job[j].at # "idle" /\ job[j].p = p

\* The orders in which a query can list the rows of a set of profiles.
Listings(S) ==
    {l \in [1..Cardinality(S) -> S] : \A i, k \in 1..Cardinality(S) : l[i] = l[k] => i = k}

Init ==
    /\ rows = [p \in Profiles |-> "none"]
    /\ configs = [p \in Profiles |-> "none"]
    /\ used = {}
    /\ scan = [s \in Scans |-> None]
    /\ queue = <<>>
    /\ updating = {}
    /\ job = [j \in Jobs |-> IdleJob]
    /\ deletion = [p \in Profiles |-> "none"]
    /\ copying = {}
    /\ kills = 0
    /\ gone = {}

----------------------------------------------------------------------------
(* The worker *)

\* autoUpdateDuration has passed since the row's lastUpdateDate.
Expire(p) ==
    /\ rows[p] = "fresh"
    /\ rows' = [rows EXCEPT ![p] = "due"]
    /\ UNCHANGED <<configs, used, scan, queue, updating, job, deletion, copying, kills, gone>>

\* Mutant: the profiles are read off the directory instead of the table.
ReadDirectory(s) ==
    /\ scan[s] = None
    /\ scan' = [scan EXCEPT ![s] = [due |-> {p \in Profiles : configs[p] # "none"}]]
    /\ UNCHANGED <<rows, configs, used, queue, updating, job, deletion, copying, kills, gone>>

\* scanAndEnqueue, by install or by the 60 s timer, up to its queryAll.  The
\* rows without a url are the ones skipped whatever their date.
ReadRows(s) ==
    /\ scan[s] = None
    /\ scan' = [scan EXCEPT ![s] = [due |-> {p \in Profiles \ FileProfiles : rows[p] = "due"}]]
    /\ UNCHANGED <<rows, configs, used, queue, updating, job, deletion, copying, kills, gone>>

\* The loop of scanAndEnqueue, with updating and queue as they are by then.
Enqueue(s) ==
    /\ scan[s] # None
    /\ \E list \in Listings({p \in scan[s].due : p \notin updating /\ ~Queued(p)}) :
          queue' = queue \o list
    /\ scan' = [scan EXCEPT ![s] = None]
    /\ UNCHANGED <<rows, configs, used, updating, job, deletion, copying, kills, gone>>

\* Mutant: the profile is not marked as being updated.
ProcessQueueUnmarked(j) ==
    /\ queue # <<>>
    /\ job[j].at = "idle"
    /\ job' = [job EXCEPT ![j] = [IdleJob EXCEPT !.at = "request", !.p = Head(queue)]]
    /\ queue' = Tail(queue)
    /\ UNCHANGED <<rows, configs, used, scan, updating, deletion, copying, kills, gone>>

\* processQueue, by the 5 s timer: it starts updateProfile and does not wait.
ProcessQueue(j) ==
    /\ queue # <<>>
    /\ job[j].at = "idle"
    /\ job' = [job EXCEPT ![j] = [IdleJob EXCEPT !.at = "request", !.p = Head(queue)]]
    /\ queue' = Tail(queue)
    /\ updating' = updating \cup {Head(queue)}
    /\ UNCHANGED <<rows, configs, used, scan, deletion, copying, kills, gone>>

----------------------------------------------------------------------------
(* Profile.update and ProfileRepo.addOrUpdate, for the worker and for imports *)

\* The update or import is over; the worker's finally unmarks the profile.
Finish(j) ==
    /\ job' = [job EXCEPT ![j] = IdleJob]
    /\ updating' = IF job[j].kind = "auto" THEN updating \ {job[j].p} ELSE updating

\* Mutant: the profile is unmarked by then() and stays marked after a failure.
FailRequestMarked(j) ==
    /\ job[j].at = "request"
    /\ job' = [job EXCEPT ![j] = IdleJob]
    /\ UNCHANGED <<rows, configs, used, scan, queue, updating, deletion, copying, kills, gone>>

\* The request fails, times out or has no result.
FailRequest(j) ==
    /\ job[j].at = "request"
    /\ Finish(j)
    /\ UNCHANGED <<rows, configs, used, scan, queue, deletion, copying, kills, gone>>

\* The request has a result.  JSON throws inside the try whose catch is empty,
\* so the result goes to isYAML, which parses it in the task pool.
Respond(j) ==
    /\ job[j].at = "request"
    /\ \E body \in Bodies : job' = [job EXCEPT ![j] = [@ EXCEPT !.at = "check", !.body = body]]
    /\ UNCHANGED <<rows, configs, used, scan, queue, updating, deletion, copying, kills, gone>>

\* isYAML is false: update throws.
Refuse(j) ==
    /\ job[j].at = "check"
    /\ ~IsYAML(job[j].body)
    /\ Finish(j)
    /\ UNCHANGED <<rows, configs, used, scan, queue, deletion, copying, kills, gone>>

\* Mutant: whatever was downloaded is saved.
SaveUnchecked(j) ==
    /\ job[j].at = "check"
    /\ configs' = [configs EXCEPT ![job[j].p] = job[j].body]
    /\ job' = [job EXCEPT ![j].at = "query"]
    /\ UNCHANGED <<rows, used, scan, queue, updating, deletion, copying, kills, gone>>

\* Mutant: the row is written first, the file after it.
SaveLater(j) ==
    /\ job[j].at = "check"
    /\ IsYAML(job[j].body)
    /\ job' = [job EXCEPT ![j].at = "query"]
    /\ UNCHANGED <<rows, configs, used, scan, queue, updating, deletion, copying, kills, gone>>

\* isYAML is true: save writes config.yaml, creating its directory if need be,
\* and addOrUpdate asks for the row.
Save(j) ==
    /\ job[j].at = "check"
    /\ IsYAML(job[j].body)
    /\ configs' = [configs EXCEPT ![job[j].p] = job[j].body]
    /\ job' = [job EXCEPT ![j].at = "query"]
    /\ UNCHANGED <<rows, used, scan, queue, updating, deletion, copying, kills, gone>>

\* addOrUpdate has asked whether the row exists.
QueryRow(j) ==
    /\ job[j].at = "query"
    /\ job' = [job EXCEPT ![j] = [@ EXCEPT !.at = "put", !.found = rows[job[j].p] # "none"]]
    /\ UNCHANGED <<rows, configs, used, scan, queue, updating, deletion, copying, kills, gone>>

\* addOrUpdate updates the row, which does nothing when it has gone, or inserts
\* it, which fails when it has come.
PutRow(j) ==
    /\ job[j].at = "put"
    /\ rows' = IF job[j].found = (rows[job[j].p] # "none")
                 THEN [rows EXCEPT ![job[j].p] = "fresh"]
                 ELSE rows
    /\ Finish(j)
    /\ UNCHANGED <<configs, used, scan, queue, deletion, copying, kills, gone>>

----------------------------------------------------------------------------
(* The Profiles page *)

\* doImportUrl, with a new Profile.
ImportUrl(j, p) ==
    /\ p \notin used \cup FileProfiles
    /\ job[j].at = "idle"
    /\ used' = used \cup {p}
    /\ job' = [job EXCEPT ![j] = [IdleJob EXCEPT !.at = "request", !.kind = "import", !.p = p]]
    /\ UNCHANGED <<rows, configs, scan, queue, updating, deletion, copying, kills, gone>>

\* importFromFile, with a new Profile: saveByUri starts the copy and does not
\* wait for it, and addOrUpdate asks for the row.
ImportFile(j, p) ==
    /\ p \in FileProfiles \ used
    /\ job[j].at = "idle"
    /\ used' = used \cup {p}
    /\ copying' = copying \cup {p}
    /\ job' = [job EXCEPT ![j] = [IdleJob EXCEPT !.at = "query", !.kind = "import", !.p = p]]
    /\ UNCHANGED <<rows, configs, scan, queue, updating, deletion, kills, gone>>

\* The copy ends, or fails without anybody noticing.
Copied(p) ==
    /\ p \in copying
    /\ copying' = copying \ {p}
    /\ configs' \in {configs, [configs EXCEPT ![p] = "yaml"]}
    /\ UNCHANGED <<rows, used, scan, queue, updating, job, deletion, kills, gone>>

\* The user deletes a profile of the list: deleteProfile calls repo.delete.
Delete(p) ==
    /\ rows[p] # "none"
    /\ deletion[p] = "none"
    /\ deletion' = [deletion EXCEPT ![p] = "row"]
    /\ gone' = gone \cup {p}
    /\ UNCHANGED <<rows, configs, used, scan, queue, updating, job, copying, kills>>

\* The row is deleted, and Profile.delete starts to unlink config.yaml if it is
\* there.  Its unlink of the profiles directory always fails, unnoticed.
RowDeleted(p) ==
    /\ deletion[p] = "row"
    /\ rows' = [rows EXCEPT ![p] = "none"]
    /\ deletion' = [deletion EXCEPT ![p] = IF configs[p] = "none" THEN "none" ELSE "unlink"]
    /\ UNCHANGED <<configs, used, scan, queue, updating, job, copying, kills, gone>>

\* config.yaml is unlinked.
Unlinked(p) ==
    /\ deletion[p] = "unlink"
    /\ configs' = [configs EXCEPT ![p] = "none"]
    /\ deletion' = [deletion EXCEPT ![p] = "none"]
    /\ UNCHANGED <<rows, used, scan, queue, updating, job, copying, kills, gone>>

\* The system kills the process, perhaps between the truncation and the write of
\* a save, and the user opens the app again: install starts with empty sets.
Kill ==
    /\ kills < MaxKills
    /\ kills' = kills + 1
    /\ \/ configs' = configs
       \/ \E j \in Jobs :
             /\ job[j].at = "check" /\ IsYAML(job[j].body)
             /\ configs' = [configs EXCEPT ![job[j].p] = "torn"]
    /\ scan' = [s \in Scans |-> None]
    /\ queue' = <<>>
    /\ updating' = {}
    /\ job' = [j \in Jobs |-> IdleJob]
    /\ deletion' = [p \in Profiles |-> "none"]
    /\ copying' = {}
    /\ UNCHANGED <<rows, used, gone>>

----------------------------------------------------------------------------

Step(j) == Respond(j) \/ FailRequest(j) \/ Refuse(j) \/ Save(j) \/ QueryRow(j) \/ PutRow(j)

Next ==
    \/ \E s \in Scans : ReadRows(s) \/ Enqueue(s)
    \/ \E j \in Jobs :
          \/ ProcessQueue(j)
          \/ Respond(j)
          \/ FailRequest(j)
          \/ Refuse(j)
          \/ Save(j)
          \/ QueryRow(j)
          \/ PutRow(j)
          \/ \E p \in Profiles : ImportUrl(j, p) \/ ImportFile(j, p)
    \/ \E p \in Profiles :
          \/ Expire(p)
          \/ Copied(p)
          \/ Delete(p)
          \/ RowDeleted(p)
          \/ Unlinked(p)
    \/ Kill

\* The timers go off, the table answers, and a request ends by its timeouts.
\* Nothing is assumed of the user, the kills and what a download is.
Fairness ==
    /\ \A s \in Scans : WF_vars(ReadRows(s)) /\ WF_vars(Enqueue(s))
    /\ WF_vars(\E j \in Jobs : ProcessQueue(j))
    /\ \A j \in Jobs : WF_vars(Step(j))

Spec == Init /\ [][Next]_vars

FairSpec == Spec /\ Fairness

----------------------------------------------------------------------------
(* Properties *)

\* The values the variables can have: a file holds nothing but what was saved as
\* YAML, or is torn.
TypeOK ==
    /\ rows \in [Profiles -> {"none", "fresh", "due"}]
    /\ configs \in [Profiles -> {"none", "torn", "yaml", "json"}]
    /\ used \subseteq Profiles
    /\ scan \in [Scans -> {None} \cup [due : SUBSET Profiles]]
    /\ queue \in Seq(Profiles)
    /\ updating \subseteq Profiles
    /\ job \in [Jobs -> [at : {"idle", "request", "check", "query", "put"},
                         kind : {"auto", "import"}, p : Profiles \cup {None},
                         body : Bodies, found : BOOLEAN]]
    /\ deletion \in [Profiles -> {"none", "row", "unlink"}]
    /\ copying \subseteq Profiles
    /\ kills \in 0..MaxKills
    /\ gone \subseteq Profiles

\* However scans and updates overlap, a profile is in the queue at most once, and
\* not while it is being updated, which it is at most once.
OneUpdatePerProfile ==
    /\ \A i, k \in 1..Len(queue) : queue[i] = queue[k] => i = k
    /\ \A p \in Profiles : Running(p) => ~Queued(p)
    /\ \A j, k \in Jobs :
          /\ job[j].at # "idle" /\ job[k].at # "idle"
          /\ job[j].kind = "auto" /\ job[k].kind = "auto"
          /\ job[j].p = job[k].p
          => j = k

\* A subscription the user never asked to delete has its configuration file,
\* also after the process was killed.
RowsHaveConfigs ==
    \A p \in Profiles \ (FileProfiles \cup gone) : rows[p] # "none" => configs[p] # "none"

\* A profile that has no row and that no scan, queue, update or import stands for.
Forgotten(p) == p \in used /\ rows[p] = "none" /\ ~Mentioned(p)

\* A deletion is final once no scan, queue or update made before it stands for the
\* profile any more.
DeletionSticks == [][\A p \in Profiles : Forgotten(p) => Forgotten(p)']_vars

\* A due subscription is updated, however often that has failed before, unless it
\* is deleted.
DueIsUpdated ==
    \A p \in Profiles \ FileProfiles : rows[p] = "due" ~> (Running(p) \/ rows[p] = "none")
====
