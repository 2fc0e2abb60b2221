---------------------------- MODULE SubscriptionUpdaterProofs ----------------------------
(***************************************************************************)
(* What holds of the subscriptions for every finite set of profiles and    *)
(* any number of overlapping scans and updates.                            *)
(***************************************************************************)
EXTENDS SubscriptionUpdater, SequenceTheorems, FiniteSetTheorems, TLAPS

Busy(j) == job[j].at # "idle"

Updates(j) == Busy(j) /\ job[j].kind = "auto"

JobType == [at : {"idle", "request", "check", "query", "put"}, kind : {"auto", "import"},
            p : Profiles \cup {None}, body : Bodies, found : BOOLEAN]

\* A busy job is about a profile.
BusyJobsHaveProfiles == \A j \in Jobs : Busy(j) => job[j].p \in Profiles

TypeInv == TypeOK /\ BusyJobsHaveProfiles

----------------------------------------------------------------------------
(* The queue *)

\* A list of a set of profiles is a sequence that holds each at most once.
LEMMA ListingFact ==
    ASSUME NEW S, NEW list \in Listings(S), S \subseteq Profiles
    PROVE  /\ list \in Seq(Profiles)
           /\ \A i \in 1..Len(list) : list[i] \in S
           /\ \A i, k \in 1..Len(list) : list[i] = list[k] => i = k
<1>1. PICK n : n = Cardinality(S) OBVIOUS
<1>2. n \in Nat
  BY <1>1, FS_Subset, FS_CardinalityType, SubscriptionAssumption
<1>3. list \in [1..n -> S] /\ \A i, k \in 1..n : list[i] = list[k] => i = k
  BY <1>1 DEF Listings
<1>4. list \in Seq(S) /\ Len(list) = n
  BY <1>2, <1>3, IsASeq, LenProperties
<1> QED BY <1>3, <1>4, <1>2

\* What is where after appending one sequence to another.
LEMMA ConcatFact ==
    ASSUME NEW q \in Seq(Profiles), NEW list \in Seq(Profiles)
    PROVE  /\ q \o list \in Seq(Profiles)
           /\ Len(q) \in Nat /\ Len(list) \in Nat
           /\ Len(q \o list) = Len(q) + Len(list)
           /\ \A i \in 1..Len(q) : (q \o list)[i] = q[i]
           /\ \A i \in 1..Len(list) : (q \o list)[Len(q) + i] = list[i]
           /\ \A i \in 1..Len(q \o list) :
                 i \notin 1..Len(q) =>
                    i - Len(q) \in 1..Len(list) /\ (q \o list)[i] = list[i - Len(q)]
BY ConcatProperties, LenProperties

\* What is where after taking the head of the queue.
LEMMA TailFact ==
    ASSUME NEW q \in Seq(Profiles), q # <<>>
    PROVE  /\ Tail(q) \in Seq(Profiles)
           /\ Head(q) = q[1] /\ Head(q) \in Profiles
           /\ Len(q) \in Nat \ {0}
           /\ Len(Tail(q)) = Len(q) - 1
           /\ \A i \in 1..Len(Tail(q)) : i + 1 \in 1..Len(q) /\ Tail(q)[i] = q[i + 1]
BY HeadTailProperties, LenProperties, EmptySeq

----------------------------------------------------------------------------
(* Types *)

\* The two steps that change two fields of a job keep the rest of it.
LEMMA JobFields ==
    ASSUME NEW r \in JobType, NEW body \in Bodies, NEW found \in BOOLEAN
    PROVE  /\ [r EXCEPT !.at = "check", !.body = body] \in JobType
           /\ [r EXCEPT !.at = "check", !.body = body].p = r.p
           /\ [r EXCEPT !.at = "put", !.found = found] \in JobType
           /\ [r EXCEPT !.at = "put", !.found = found].p = r.p
BY DEF JobType

LEMMA TypeStep == TypeInv /\ [Next]_vars => TypeInv'
<1> SUFFICES ASSUME TypeInv, [Next]_vars PROVE TypeInv'
  OBVIOUS
<1> USE SubscriptionAssumption DEF TypeInv, TypeOK, BusyJobsHaveProfiles, Busy, Bodies, IsYAML,
        IdleJob
<1>1. ASSUME NEW s \in Scans, ReadRows(s) PROVE TypeInv'
  <2>1. {p \in Profiles \ FileProfiles : rows[p] = "due"} \in SUBSET Profiles
    OBVIOUS
  <2> QED BY <1>1, <2>1 DEF ReadRows
<1>2. ASSUME NEW s \in Scans, Enqueue(s) PROVE TypeInv'
  <2>1. PICK list \in Listings({p \in scan[s].due : p \notin updating /\ ~Queued(p)}) :
           queue' = queue \o list
    BY <1>2 DEF Enqueue
  <2>2. {p \in scan[s].due : p \notin updating /\ ~Queued(p)} \subseteq Profiles
    BY <1>2 DEF Enqueue
  <2>3. queue' \in Seq(Profiles)
    BY <2>1, <2>2, ListingFact, ConcatFact
  <2> QED BY <1>2, <2>3 DEF Enqueue
<1>3. ASSUME NEW j \in Jobs, ProcessQueue(j) PROVE TypeInv'
  <2>1. Head(queue) \in Profiles /\ Tail(queue) \in Seq(Profiles)
    BY <1>3, TailFact DEF ProcessQueue
  <2>2. /\ job' \in [Jobs -> JobType]
        /\ \A k \in Jobs : Busy(k)' => job'[k].p \in Profiles
    BY <1>3, <2>1 DEF ProcessQueue, JobType
  <2> QED BY <1>3, <2>1, <2>2 DEF ProcessQueue, JobType
<1>4. ASSUME NEW j \in Jobs, Respond(j) PROVE TypeInv'
  <2>1. PICK body \in Bodies : job' = [job EXCEPT ![j] = [@ EXCEPT !.at = "check", !.body = body]]
    BY <1>4 DEF Respond
  <2> DEFINE r == [job[j] EXCEPT !.at = "check", !.body = body]
  <2>2. job[j] \in JobType
    BY DEF JobType
  <2>3. r \in JobType /\ r.p = job[j].p
    BY <2>2, JobFields
  <2>4. job' = [job EXCEPT ![j] = r]
    BY <2>1
  <2> HIDE DEF r
  <2> QED BY <1>4, <2>3, <2>4 DEF Respond, JobType
<1>5. ASSUME NEW j \in Jobs, FailRequest(j) PROVE TypeInv'
  BY <1>5 DEF FailRequest, Finish
<1>6. ASSUME NEW j \in Jobs, Refuse(j) PROVE TypeInv'
  BY <1>6 DEF Refuse, Finish
<1>7. ASSUME NEW j \in Jobs, Save(j) PROVE TypeInv'
  <2>1. configs' \in [Profiles -> {"none", "torn", "yaml", "json"}]
    BY <1>7 DEF Save
  <2>2. /\ job' \in [Jobs -> JobType]
        /\ \A k \in Jobs : job'[k].p = job[k].p /\ (Busy(k)' => Busy(k))
    BY <1>7 DEF Save, JobType
  <2> QED BY <1>7, <2>1, <2>2 DEF Save, JobType
<1>8. ASSUME NEW j \in Jobs, QueryRow(j) PROVE TypeInv'
  <2>1. PICK b \in BOOLEAN : job' = [job EXCEPT ![j] = [@ EXCEPT !.at = "put", !.found = b]]
    BY <1>8 DEF QueryRow
  <2> DEFINE r == [job[j] EXCEPT !.at = "put", !.found = b]
  <2>2. job[j] \in JobType
    BY DEF JobType
  <2>3. r \in JobType /\ r.p = job[j].p
    BY <2>2, JobFields
  <2>4. job' = [job EXCEPT ![j] = r]
    BY <2>1
  <2> HIDE DEF r
  <2> QED BY <1>8, <2>3, <2>4 DEF QueryRow, JobType
<1>9. ASSUME NEW j \in Jobs, PutRow(j) PROVE TypeInv'
  BY <1>9 DEF PutRow, Finish
<1>10. ASSUME NEW j \in Jobs, NEW p \in Profiles, ImportUrl(j, p) PROVE TypeInv'
  BY <1>10 DEF ImportUrl
<1>11. ASSUME NEW j \in Jobs, NEW p \in Profiles, ImportFile(j, p) PROVE TypeInv'
  BY <1>11 DEF ImportFile
<1>12. ASSUME NEW p \in Profiles, Expire(p) PROVE TypeInv'
  BY <1>12 DEF Expire
<1>13. ASSUME NEW p \in Profiles, Copied(p) PROVE TypeInv'
  BY <1>13 DEF Copied
<1>14. ASSUME NEW p \in Profiles, Delete(p) PROVE TypeInv'
  BY <1>14 DEF Delete
<1>15. ASSUME NEW p \in Profiles, RowDeleted(p) PROVE TypeInv'
  BY <1>15 DEF RowDeleted
<1>16. ASSUME NEW p \in Profiles, Unlinked(p) PROVE TypeInv'
  BY <1>16 DEF Unlinked
<1>17. ASSUME Kill PROVE TypeInv'
  <2>1. configs' \in [Profiles -> {"none", "torn", "yaml", "json"}]
    BY <1>17 DEF Kill
  <2>2. queue' \in Seq(Profiles)
    BY <1>17, EmptySeq DEF Kill
  <2>3. job' \in [Jobs -> {IdleJob}]
    BY <1>17 DEF Kill
  <2> QED BY <1>17, <2>1, <2>2, <2>3 DEF Kill
<1>18. ASSUME UNCHANGED vars PROVE TypeInv'
  BY <1>18 DEF vars
<1> QED
  BY <1>1, <1>2, <1>3, <1>4, <1>5, <1>6, <1>7, <1>8, <1>9, <1>10, <1>11, <1>12, <1>13, <1>14,
     <1>15, <1>16, <1>17, <1>18 DEF Next

LEMMA TypeInit == Init => TypeInv
<1> SUFFICES ASSUME Init PROVE TypeInv
  OBVIOUS
<1> USE SubscriptionAssumption DEF Init, TypeInv, TypeOK, BusyJobsHaveProfiles, Busy, Bodies, IsYAML,
        IdleJob
<1>1. queue \in Seq(Profiles)
  BY EmptySeq
<1> QED BY <1>1

THEOREM TypeCorrect == Spec => []TypeOK
<1>1. Spec => []TypeInv
  BY TypeInit, TypeStep, PTL DEF Spec
<1> QED BY <1>1, PTL DEF TypeInv

----------------------------------------------------------------------------
(* One update per profile *)

QueueOnce == \A i, k \in 1..Len(queue) : queue[i] = queue[k] => i = k

QueueUnmarked == \A i \in 1..Len(queue) : queue[i] \notin updating

UpdatesMarked == \A j \in Jobs : Updates(j) => job[j].p \in updating

UpdatesDiffer ==
    \A j, k \in Jobs : Updates(j) /\ Updates(k) /\ job[j].p = job[k].p => j = k

\* updating holds the profiles of the running updates, and none of the queue: that
\* is what makes the check of scanAndEnqueue enough.
UpdateInv == QueueOnce /\ QueueUnmarked /\ UpdatesMarked /\ UpdatesDiffer

\* Steps that leave the queue, the marks and what the updates are about alone.
LEMMA KeepsUpdates ==
    ASSUME UpdateInv, UNCHANGED <<queue, updating>>,
           \A k \in Jobs : Updates(k)' => Updates(k) /\ job'[k].p = job[k].p
    PROVE  UpdateInv'
BY DEF UpdateInv, QueueOnce, QueueUnmarked, UpdatesMarked, UpdatesDiffer

\* The end of an update or import.
LEMMA FinishKeepsUpdates ==
    ASSUME TypeInv, UpdateInv, NEW j \in Jobs, Finish(j), Busy(j), UNCHANGED queue
    PROVE  UpdateInv'
<1> USE DEF TypeInv, TypeOK, Finish, IdleJob, Updates, Busy
<1>1. \A k \in Jobs : Updates(k)' => k # j /\ job'[k] = job[k] /\ Updates(k)
  OBVIOUS
<1>2. UpdatesMarked'
  BY <1>1 DEF UpdateInv, UpdatesMarked, UpdatesDiffer
<1>3. QueueUnmarked'
  BY DEF UpdateInv, QueueUnmarked
<1> QED BY <1>1, <1>2, <1>3 DEF UpdateInv, QueueOnce, UpdatesDiffer

\* Enqueue appends profiles that are neither queued nor marked, each once.
LEMMA EnqueueKeepsUpdates ==
    ASSUME TypeInv, UpdateInv, NEW s \in Scans, Enqueue(s)
    PROVE  UpdateInv'
<1> DEFINE new == {p \in scan[s].due : p \notin updating /\ ~Queued(p)}
<1>1. PICK list \in Listings(new) : queue' = queue \o list
  BY DEF Enqueue
<1>2. new \subseteq Profiles
  BY DEF Enqueue, TypeInv, TypeOK
<1>3. /\ list \in Seq(Profiles)
      /\ \A i \in 1..Len(list) : list[i] \in new
      /\ \A i, k \in 1..Len(list) : list[i] = list[k] => i = k
  BY <1>2, ListingFact
<1>4. queue \in Seq(Profiles)
  BY DEF TypeInv, TypeOK
<1>5. \A i \in 1..Len(list) : list[i] \notin updating /\ \A k \in 1..Len(queue) : queue[k] # list[i]
  BY <1>3 DEF Queued
<1> HIDE DEF new
<1>6. QueueOnce'
  <2> SUFFICES ASSUME NEW i \in 1..Len(queue'), NEW k \in 1..Len(queue'), queue'[i] = queue'[k]
               PROVE  i = k
    BY DEF QueueOnce
  <2>1. CASE i \in 1..Len(queue) /\ k \in 1..Len(queue)
    BY <2>1, <1>1, <1>3, <1>4, ConcatFact DEF UpdateInv, QueueOnce
  <2>2. CASE i \in 1..Len(queue) /\ k \notin 1..Len(queue)
    <3>1. queue'[i] = queue[i]
      BY <2>2, <1>1, <1>3, <1>4, ConcatFact
    <3>2. k - Len(queue) \in 1..Len(list) /\ queue'[k] = list[k - Len(queue)]
      BY <2>2, <1>1, <1>3, <1>4, ConcatFact
    <3> QED BY <2>2, <3>1, <3>2, <1>5
  <2>3. CASE i \notin 1..Len(queue) /\ k \in 1..Len(queue)
    <3>1. queue'[k] = queue[k]
      BY <2>3, <1>1, <1>3, <1>4, ConcatFact
    <3>2. i - Len(queue) \in 1..Len(list) /\ queue'[i] = list[i - Len(queue)]
      BY <2>3, <1>1, <1>3, <1>4, ConcatFact
    <3> QED BY <2>3, <3>1, <3>2, <1>5
  <2>4. CASE i \notin 1..Len(queue) /\ k \notin 1..Len(queue)
    <3>1. /\ i - Len(queue) \in 1..Len(list) /\ queue'[i] = list[i - Len(queue)]
          /\ k - Len(queue) \in 1..Len(list) /\ queue'[k] = list[k - Len(queue)]
      BY <2>4, <1>1, <1>3, <1>4, ConcatFact
    <3>2. i - Len(queue) = k - Len(queue)
      BY <3>1, <1>3
    <3> QED BY <3>2, <1>1, <1>3, <1>4, ConcatFact
  <2> QED BY <2>1, <2>2, <2>3, <2>4
<1>7. QueueUnmarked'
  BY <1>1, <1>3, <1>4, <1>5, ConcatFact DEF UpdateInv, QueueUnmarked, Enqueue
<1>8. UpdatesMarked' /\ UpdatesDiffer'
  BY DEF UpdateInv, UpdatesMarked, UpdatesDiffer, Updates, Busy, Enqueue
<1> QED BY <1>6, <1>7, <1>8 DEF UpdateInv

\* ProcessQueue moves the head of the queue to the updates and marks it.
LEMMA ProcessKeepsUpdates ==
    ASSUME TypeInv, UpdateInv, NEW j \in Jobs, ProcessQueue(j)
    PROVE  UpdateInv'
<1> USE DEF TypeInv, TypeOK, ProcessQueue, IdleJob, Updates, Busy
<1>1. /\ Head(queue) = queue[1] /\ 1 \in 1..Len(queue) /\ Len(queue) \in Nat
      /\ Len(queue') = Len(queue) - 1
      /\ \A i \in 1..Len(queue') : i + 1 \in 1..Len(queue) /\ queue'[i] = queue[i + 1]
  BY TailFact
<1>2. QueueOnce'
  BY <1>1 DEF UpdateInv, QueueOnce
<1>3. QueueUnmarked'
  <2> SUFFICES ASSUME NEW i \in 1..Len(queue') PROVE queue'[i] \notin updating'
    BY DEF QueueUnmarked
  <2>1. queue'[i] = queue[i + 1] /\ i + 1 \in 1..Len(queue) /\ i + 1 # 1
    BY <1>1
  <2>2. queue[i + 1] # Head(queue) /\ queue[i + 1] \notin updating
    BY <1>1, <2>1 DEF UpdateInv, QueueOnce, QueueUnmarked
  <2> QED BY <2>1, <2>2
<1>4. Head(queue) \notin updating
  BY <1>1 DEF UpdateInv, QueueUnmarked
<1>5. \A k \in Jobs \ {j} : job'[k] = job[k]
  OBVIOUS
<1>6. job'[j].p = Head(queue) /\ ~Updates(j)
  OBVIOUS
<1>7. UpdatesMarked'
  BY <1>5, <1>6 DEF UpdateInv, UpdatesMarked
<1>8. UpdatesDiffer'
  BY <1>4, <1>5, <1>6 DEF UpdateInv, UpdatesMarked, UpdatesDiffer
<1> QED BY <1>2, <1>3, <1>7, <1>8 DEF UpdateInv

LEMMA UpdateStep == TypeInv /\ UpdateInv /\ [Next]_vars => UpdateInv'
<1> SUFFICES ASSUME TypeInv, UpdateInv, [Next]_vars PROVE UpdateInv'
  OBVIOUS
<1>1. ASSUME NEW j \in Jobs, Respond(j) \/ Save(j) \/ QueryRow(j) PROVE UpdateInv'
  <2>1. \A k \in Jobs : Updates(k)' => Updates(k) /\ job'[k].p = job[k].p
    <3>1. ASSUME Respond(j) PROVE \A k \in Jobs : Updates(k)' => Updates(k) /\ job'[k].p = job[k].p
      <4>1. PICK body \in Bodies : job' = [job EXCEPT ![j] = [@ EXCEPT !.at = "check", !.body = body]]
        BY <3>1 DEF Respond
      <4> QED BY <3>1, <4>1 DEF Respond, Updates, Busy, TypeInv, TypeOK
    <3>2. ASSUME Save(j) PROVE \A k \in Jobs : Updates(k)' => Updates(k) /\ job'[k].p = job[k].p
      BY <3>2 DEF Save, Updates, Busy, TypeInv, TypeOK
    <3>3. ASSUME QueryRow(j) PROVE \A k \in Jobs : Updates(k)' => Updates(k) /\ job'[k].p = job[k].p
      <4>1. PICK b : job' = [job EXCEPT ![j] = [@ EXCEPT !.at = "put", !.found = b]]
        BY <3>3 DEF QueryRow
      <4> QED BY <3>3, <4>1 DEF QueryRow, Updates, Busy, TypeInv, TypeOK
    <3> QED BY <1>1, <3>1, <3>2, <3>3
  <2>2. UNCHANGED <<queue, updating>>
    BY <1>1 DEF Respond, Save, QueryRow
  <2> QED BY <2>1, <2>2, KeepsUpdates
<1>2. ASSUME NEW j \in Jobs, FailRequest(j) \/ Refuse(j) \/ PutRow(j) PROVE UpdateInv'
  BY <1>2, FinishKeepsUpdates DEF FailRequest, Refuse, PutRow, Busy
<1>3. ASSUME NEW j \in Jobs, NEW p \in Profiles, ImportUrl(j, p) \/ ImportFile(j, p) PROVE UpdateInv'
  <2>1. \A k \in Jobs : Updates(k)' => Updates(k) /\ job'[k].p = job[k].p
    BY <1>3 DEF ImportUrl, ImportFile, IdleJob, Updates, Busy, TypeInv, TypeOK
  <2>2. UNCHANGED <<queue, updating>>
    BY <1>3 DEF ImportUrl, ImportFile
  <2> QED BY <2>1, <2>2, KeepsUpdates
<1>4. ASSUME NEW s \in Scans, ReadRows(s) PROVE UpdateInv'
  BY <1>4, KeepsUpdates DEF ReadRows, Updates, Busy
<1>5. ASSUME NEW p \in Profiles,
             Expire(p) \/ Copied(p) \/ Delete(p) \/ RowDeleted(p) \/ Unlinked(p)
      PROVE  UpdateInv'
  <2>1. UNCHANGED <<job, queue, updating>>
    BY <1>5 DEF Expire, Copied, Delete, RowDeleted, Unlinked
  <2> QED BY <2>1, KeepsUpdates DEF Updates, Busy
<1>6. ASSUME Kill PROVE UpdateInv'
  <2>1. Len(queue') = 0
    BY <1>6, EmptySeq DEF Kill
  <2>2. \A k \in Jobs : ~Updates(k)'
    BY <1>6 DEF Kill, IdleJob, Updates, Busy
  <2> QED BY <2>1, <2>2 DEF UpdateInv, QueueOnce, QueueUnmarked, UpdatesMarked, UpdatesDiffer
<1>7. ASSUME UNCHANGED vars PROVE UpdateInv'
  BY <1>7, KeepsUpdates DEF vars, Updates, Busy
<1> QED
  BY <1>1, <1>2, <1>3, <1>4, <1>5, <1>6, <1>7, EnqueueKeepsUpdates, ProcessKeepsUpdates DEF Next

\* However many scans and updates overlap, and whatever is deleted, imported or
\* killed in between, processQueue never starts a second update of a profile.
THEOREM NoDoubleUpdate == Spec => []OneUpdatePerProfile
<1>1. Init => UpdateInv
  BY EmptySeq DEF Init, IdleJob, UpdateInv, QueueOnce, QueueUnmarked, UpdatesMarked, UpdatesDiffer,
                  Updates, Busy
<1>2. UpdateInv => OneUpdatePerProfile
  BY DEF UpdateInv, QueueOnce, QueueUnmarked, UpdatesMarked, UpdatesDiffer, Updates, Busy,
         OneUpdatePerProfile, Running, Queued
<1> QED BY <1>1, <1>2, TypeInit, TypeStep, UpdateStep, PTL DEF Spec

----------------------------------------------------------------------------
(* Rows and files *)

Kept == Profiles \ (FileProfiles \cup gone)

Saved(j) == job[j].at \in {"query", "put"}

\* A row is written after its file, and a file is only removed by a deletion.
FileInv ==
    /\ RowsHaveConfigs
    /\ \A j \in Jobs : Saved(j) /\ job[j].p \in Kept => configs[job[j].p] # "none"
    /\ \A p \in Profiles : deletion[p] # "none" => p \in gone

LEMMA FileStep == TypeInv /\ FileInv /\ [Next]_vars => FileInv'
<1> SUFFICES ASSUME TypeInv, FileInv, [Next]_vars PROVE FileInv'
  OBVIOUS
<1> USE DEF TypeInv, TypeOK, BusyJobsHaveProfiles, Busy, FileInv, RowsHaveConfigs, Kept, Saved, IdleJob
<1>1. ASSUME NEW s \in Scans, ReadRows(s) \/ Enqueue(s) PROVE FileInv'
  BY <1>1 DEF ReadRows, Enqueue
<1>2. ASSUME NEW j \in Jobs, ProcessQueue(j) PROVE FileInv'
  BY <1>2 DEF ProcessQueue
<1>3. ASSUME NEW j \in Jobs, Respond(j) PROVE FileInv'
  <2>1. PICK body \in Bodies : job' = [job EXCEPT ![j] = [@ EXCEPT !.at = "check", !.body = body]]
    BY <1>3 DEF Respond
  <2> QED BY <1>3, <2>1 DEF Respond
<1>4. ASSUME NEW j \in Jobs, FailRequest(j) \/ Refuse(j) PROVE FileInv'
  <2>1. \A k \in Jobs : Saved(k)' => Saved(k) /\ job'[k] = job[k]
    BY <1>4 DEF FailRequest, Refuse, Finish
  <2>2. UNCHANGED <<rows, configs, deletion, gone>>
    BY <1>4 DEF FailRequest, Refuse
  <2> QED BY <2>1, <2>2
<1>5. ASSUME NEW j \in Jobs, Save(j) PROVE FileInv'
  BY <1>5 DEF Save, IsYAML
<1>6. ASSUME NEW j \in Jobs, QueryRow(j) PROVE FileInv'
  <2>1. PICK b : job' = [job EXCEPT ![j] = [@ EXCEPT !.at = "put", !.found = b]]
    BY <1>6 DEF QueryRow
  <2> QED BY <1>6, <2>1 DEF QueryRow
<1>7. ASSUME NEW j \in Jobs, PutRow(j) PROVE FileInv'
  <2>1. \A p \in Profiles : rows'[p] # "none" => rows[p] # "none" \/ p = job[j].p
    BY <1>7 DEF PutRow
  <2>2. \A k \in Jobs : Saved(k)' => Saved(k) /\ job'[k] = job[k]
    BY <1>7 DEF PutRow, Finish
  <2>3. Saved(j) /\ UNCHANGED <<configs, deletion, gone>>
    BY <1>7 DEF PutRow
  <2> QED BY <2>1, <2>2, <2>3
<1>8. ASSUME NEW j \in Jobs, NEW p \in Profiles, ImportUrl(j, p) PROVE FileInv'
  BY <1>8 DEF ImportUrl
<1>9. ASSUME NEW j \in Jobs, NEW p \in Profiles, ImportFile(j, p) PROVE FileInv'
  BY <1>9 DEF ImportFile
<1>10. ASSUME NEW p \in Profiles, Expire(p) PROVE FileInv'
  BY <1>10 DEF Expire
<1>11. ASSUME NEW p \in Profiles, Copied(p) PROVE FileInv'
  BY <1>11 DEF Copied
<1>12. ASSUME NEW p \in Profiles, Delete(p) PROVE FileInv'
  BY <1>12 DEF Delete
<1>13. ASSUME NEW p \in Profiles, RowDeleted(p) PROVE FileInv'
  BY <1>13 DEF RowDeleted
<1>14. ASSUME NEW p \in Profiles, Unlinked(p) PROVE FileInv'
  BY <1>14 DEF Unlinked
<1>15. ASSUME Kill PROVE FileInv'
  BY <1>15 DEF Kill
<1>16. ASSUME UNCHANGED vars PROVE FileInv'
  BY <1>16 DEF vars
<1> QED
  BY <1>1, <1>2, <1>3, <1>4, <1>5, <1>6, <1>7, <1>8, <1>9, <1>10, <1>11, <1>12, <1>13, <1>14,
     <1>15, <1>16 DEF Next

\* A subscription from a url that the user never asked to delete has its file,
\* whatever was updated, deleted or killed.
THEOREM FilesAreThere == Spec => []RowsHaveConfigs
<1>1. Init => FileInv
  BY DEF Init, IdleJob, FileInv, RowsHaveConfigs, Saved
<1>2. FileInv => RowsHaveConfigs
  BY DEF FileInv
<1> QED BY <1>1, <1>2, TypeInit, TypeStep, FileStep, PTL DEF Spec

----------------------------------------------------------------------------
(* Deletions *)

LEMMA ForgottenStep ==
    ASSUME TypeInv, [Next]_vars, NEW p \in Profiles, Forgotten(p)
    PROVE  Forgotten(p)'
<1> USE DEF TypeInv, TypeOK, BusyJobsHaveProfiles, Busy, Forgotten, Mentioned, IdleJob
<1> USE SubscriptionAssumption
<1>1. ASSUME NEW s \in Scans, ReadRows(s) PROVE Forgotten(p)'
  BY <1>1 DEF ReadRows, Queued
<1>2. ASSUME NEW s \in Scans, Enqueue(s) PROVE Forgotten(p)'
  <2> DEFINE new == {q \in scan[s].due : q \notin updating /\ ~Queued(q)}
  <2>1. PICK list \in Listings(new) : queue' = queue \o list
    BY <1>2 DEF Enqueue
  <2>2. new \subseteq Profiles /\ p \notin new
    BY <1>2 DEF Enqueue
  <2>3. list \in Seq(Profiles) /\ \A i \in 1..Len(list) : list[i] \in new
    BY <2>2, ListingFact
  <2> HIDE DEF new
  <2>4. ~Queued(p)'
    <3> SUFFICES ASSUME NEW i \in 1..Len(queue') PROVE queue'[i] # p
      BY DEF Queued
    <3>1. CASE i \in 1..Len(queue)
      BY <3>1, <2>1, <2>3, ConcatFact DEF Queued
    <3>2. CASE i \notin 1..Len(queue)
      BY <3>2, <2>1, <2>2, <2>3, ConcatFact
    <3> QED BY <3>1, <3>2
  <2> QED BY <1>2, <2>4 DEF Enqueue
<1>3. ASSUME NEW j \in Jobs, ProcessQueue(j) PROVE Forgotten(p)'
  <2>1. /\ Head(queue) = queue[1] /\ 1 \in 1..Len(queue)
        /\ \A i \in 1..Len(queue') : i + 1 \in 1..Len(queue) /\ queue'[i] = queue[i + 1]
    BY <1>3, TailFact DEF ProcessQueue
  <2>2. \A i \in 1..Len(queue) : queue[i] # p
    BY DEF Queued
  <2>3. Head(queue) # p
    BY <2>1, <2>2
  <2>4. ~Queued(p)'
    BY <2>1, <2>2 DEF Queued
  <2> QED BY <1>3, <2>3, <2>4 DEF ProcessQueue
<1>4. ASSUME NEW j \in Jobs, Respond(j) PROVE Forgotten(p)'
  <2>1. PICK body \in Bodies : job' = [job EXCEPT ![j] = [@ EXCEPT !.at = "check", !.body = body]]
    BY <1>4 DEF Respond
  <2> QED BY <1>4, <2>1 DEF Respond, Queued
<1>5. ASSUME NEW j \in Jobs, FailRequest(j) \/ Refuse(j) PROVE Forgotten(p)'
  BY <1>5 DEF FailRequest, Refuse, Finish, Queued
<1>6. ASSUME NEW j \in Jobs, Save(j) PROVE Forgotten(p)'
  BY <1>6 DEF Save, Queued
<1>7. ASSUME NEW j \in Jobs, QueryRow(j) PROVE Forgotten(p)'
  <2>1. PICK b : job' = [job EXCEPT ![j] = [@ EXCEPT !.at = "put", !.found = b]]
    BY <1>7 DEF QueryRow
  <2> QED BY <1>7, <2>1 DEF QueryRow, Queued
<1>8. ASSUME NEW j \in Jobs, PutRow(j) PROVE Forgotten(p)'
  BY <1>8 DEF PutRow, Finish, Queued
<1>9. ASSUME NEW j \in Jobs, NEW q \in Profiles, ImportUrl(j, q) PROVE Forgotten(p)'
  BY <1>9 DEF ImportUrl, Queued
<1>10. ASSUME NEW j \in Jobs, NEW q \in Profiles, ImportFile(j, q) PROVE Forgotten(p)'
  BY <1>10 DEF ImportFile, Queued
<1>11. ASSUME NEW q \in Profiles,
              Expire(q) \/ Copied(q) \/ Delete(q) \/ RowDeleted(q) \/ Unlinked(q)
       PROVE  Forgotten(p)'
  BY <1>11 DEF Expire, Copied, Delete, RowDeleted, Unlinked, Queued
<1>12. ASSUME Kill PROVE Forgotten(p)'
  <2>1. Len(queue') = 0
    BY <1>12, EmptySeq DEF Kill
  <2> QED BY <1>12, <2>1 DEF Kill, Queued
<1>13. ASSUME UNCHANGED vars PROVE Forgotten(p)'
  BY <1>13 DEF vars, Queued
<1> QED
  BY <1>1, <1>2, <1>3, <1>4, <1>5, <1>6, <1>7, <1>8, <1>9, <1>10, <1>11, <1>12, <1>13 DEF Next

\* Once nothing in memory stands for a deleted profile, it never comes back.
THEOREM DeletionIsFinal == Spec => DeletionSticks
<1>1. TypeInv /\ [Next]_vars => [\A p \in Profiles : Forgotten(p) => Forgotten(p)']_vars
  BY ForgottenStep
<1> QED BY <1>1, TypeInit, TypeStep, PTL DEF Spec, DeletionSticks
====
