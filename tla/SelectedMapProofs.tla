------------------------- MODULE SelectedMapProofs -------------------------
(***************************************************************************)
(* Proofs about SelectedMap, for any processes, fields, values and number  *)
(* of operations.                                                          *)
(***************************************************************************)
EXTENDS SelectedMap, TLAPS

\* An operation that runs alone holds what it found when it started, and the
\* file stays as it found it until it truncates it.
AloneRun(p) ==
    alone[p] /\ at[p] # "idle" =>
        /\ Running = {p}
        /\ at[p] = "opened" => size[p] = file
        /\ at[p] # "truncated" => Parse(file) = before[p]
        /\ at[p] = "loaded" => data[p] = before[p]
        /\ at[p] = "truncated" =>
             /\ data[p] = [before[p] EXCEPT ![job[p].field] = job[p].value]
             /\ file = Odd("empty")

\* In a clean history every operation has found the last saved values.
CleanRun ==
    clean =>
        /\ \A p \in Running : alone[p] /\ before[p] = latest
        /\ (\A p \in Procs : at[p] # "truncated") => Parse(file) = latest

WritesFields ==
    \A p \in Procs : at[p] = "truncated" => job[p] \in Job

IInv ==
    /\ TypeOK
    /\ WritesFields
    /\ \A p \in Procs : AloneRun(p)
    /\ CleanRun

\* A whole text parses to what was written, any other to the default.
LEMMA ParseText ==
    /\ \A c \in Contents : Parse(Whole(c)) = c
    /\ \A s : Parse(Odd(s)) = Default
    /\ \A t : Parse(t) \in Contents
<1>1. \A c \in Contents : Parse(Whole(c)) = c
  BY DEF Parse, Whole
<1>2. \A s : Parse(Odd(s)) = Default
  <2> SUFFICES ASSUME NEW s, NEW c \in Contents PROVE Odd(s) # Whole(c)
    BY DEF Parse
  <2>1. DOMAIN Odd(s) = {"text"} /\ DOMAIN Whole(c) = {"json"}
    BY DEF Odd, Whole
  <2>2. QED
    BY <2>1
<1>3. Default \in Contents
  BY DEF Default, Contents
<1>4. \A t : Parse(t) \in Contents
  BY <1>3 DEF Parse, Whole
<1>5. QED
  BY <1>1, <1>2, <1>4

\* Each step keeps the invariant.
LEMMA StepKeepsIInv == IInv /\ [Next]_vars => IInv'
<1> SUFFICES ASSUME IInv, [Next]_vars PROVE IInv'
  OBVIOUS
<1> USE StoreAssumption, ParseText DEF IInv, TypeOK, WritesFields, AloneRun, CleanRun, Running
<1>1. ASSUME NEW p \in Procs, NEW j \in Job \cup {Load}, Start(p, j) PROVE IInv'
  <2>1. Parse(file) \in Contents /\ Default \in Contents
    BY DEF Default, Contents
  <2>2. TypeOK'
    <3>1. ops' \in 0..MaxOps
      BY <1>1 DEF Start
    <3>2. at' \in [Procs -> {"idle", "opened", "loaded", "truncated"}]
      BY <1>1 DEF Start
    <3>3. QED
      BY <1>1, <2>1, <3>1, <3>2 DEF Start
  <2>3. WritesFields'
    BY <1>1 DEF Start
  <2>4. ASSUME NEW q \in Procs PROVE AloneRun(q)'
    <3>1. CASE q = p
      BY <1>1, <3>1 DEF Start
    <3>2. CASE q # p
      BY <1>1, <3>2 DEF Start
    <3>3. QED
      BY <3>1, <3>2
  <2>5. CleanRun'
    BY <1>1 DEF Start
  <2>6. QED
    BY <2>2, <2>3, <2>4, <2>5
<1>2. ASSUME NEW p \in Procs, Read(p) PROVE IInv'
  <2>1. Parse(file) \in Contents /\ Default \in Contents
    BY DEF Default, Contents
  <2>2. PICK c \in {Parse(file), Default} : data' = [data EXCEPT ![p] = c]
    BY <1>2 DEF Read
  <2>3. /\ at[p] = "opened"
        /\ at' = [at EXCEPT ![p] = "loaded"]
        /\ UNCHANGED <<file, job, size, ops, latest, before, alone, clean>>
    BY <1>2 DEF Read
  <2>4. alone[p] => c = before[p]
    BY <1>2, <2>2 DEF Read
  <2>5. TypeOK' /\ WritesFields'
    BY <2>1, <2>2, <2>3
  <2>6. Running' = Running
    BY <2>3
  <2>7. ASSUME NEW q \in Procs PROVE AloneRun(q)'
    BY <2>2, <2>3, <2>4, <2>6
  <2>8. CleanRun'
    BY <2>3, <2>6
  <2>9. QED
    BY <2>5, <2>7, <2>8
<1>3. ASSUME NEW p \in Procs, Return(p) PROVE IInv'
  BY <1>3 DEF Return
<1>4. ASSUME NEW p \in Procs, Truncate(p) PROVE IInv'
  <2> DEFINE r == [data[p] EXCEPT ![job[p].field] = job[p].value]
  <2>1. /\ at[p] = "loaded"
        /\ at' = [at EXCEPT ![p] = "truncated"]
        /\ data' = [data EXCEPT ![p] = r]
        /\ file' = Odd("empty")
        /\ job[p] \in Job
        /\ UNCHANGED <<job, size, ops, latest, before, alone, clean>>
    BY <1>4 DEF Truncate
  <2>2. r \in Contents
    BY <2>1 DEF Contents, Job
  <2>3. TypeOK' /\ WritesFields'
    BY <2>1, <2>2 DEF Texts
  <2>4. Running' = Running
    BY <2>1
  <2>5. ASSUME NEW q \in Procs PROVE AloneRun(q)'
    BY <2>1, <2>4
  <2>6. CleanRun'
    BY <2>1, <2>4
  <2>7. QED
    BY <2>3, <2>5, <2>6
<1>5. ASSUME NEW p \in Procs, Write(p) PROVE IInv'
  BY <1>5 DEF Write, Texts, Contents, Job, Load
<1>6. ASSUME NEW p \in Procs, Kill(p) PROVE IInv'
  BY <1>6 DEF Kill
<1>7. CASE UNCHANGED vars
  BY <1>7 DEF vars
<1>8. QED
  BY <1>1, <1>2, <1>3, <1>4, <1>5, <1>6, <1>7 DEF Next, Exhausted

\* The invariant holds of every reachable state.
LEMMA Invariant == Spec => []IInv
<1>1. Init => IInv
  BY StoreAssumption, ParseText
     DEF Init, IInv, TypeOK, WritesFields, AloneRun, CleanRun, Running, Texts, Default,
         Contents
<1>2. QED
  BY <1>1, StepKeepsIInv, PTL DEF Spec

\* The file is always one of the texts the model distinguishes, and no record
\* is loaded or saved with a field that is not set to anything.
THEOREM TypeCorrect == Spec => []TypeOK
<1>1. IInv => TypeOK
  BY DEF IInv
<1>2. QED
  BY <1>1, Invariant, PTL

\* Without overlaps, and without a kill in the middle of a write, nothing that
\* was saved is ever lost.
THEOREM CleanStore == Spec => []CleanStoreKeepsAll
<1>1. IInv => CleanStoreKeepsAll
  BY DEF IInv, CleanRun, CleanStoreKeepsAll
<1>2. QED
  BY <1>1, Invariant, PTL

\* A save that runs alone changes its field and nothing else, from whatever
\* state of the file.
THEOREM AloneSave == Spec => AloneSaveChangesOneField
<1>1. ASSUME IInv, [Next]_vars
      PROVE  \A p \in Procs :
               at[p] = "truncated" /\ alone[p] /\ alone'[p] /\ file' # file =>
                 file' = Whole([before[p] EXCEPT ![job[p].field] = job[p].value])
  <2> SUFFICES ASSUME NEW p \in Procs, at[p] = "truncated", alone[p], alone'[p], file' # file
               PROVE  file' = Whole([before[p] EXCEPT ![job[p].field] = job[p].value])
    OBVIOUS
  <2>1. /\ Running = {p}
        /\ data[p] = [before[p] EXCEPT ![job[p].field] = job[p].value]
        /\ file = Odd("empty")
    BY <1>1 DEF IInv, AloneRun
  <2>2. PICK q \in Procs : Truncate(q) \/ Write(q)
    <3>1. \A q \in Procs : ~Read(q) /\ ~Return(q) /\ ~Kill(q)
      BY DEF Read, Return, Kill
    <3>2. \A q \in Procs : \A j \in Job \cup {Load} : ~Start(q, j)
      BY DEF Start
    <3>3. ~Exhausted /\ ~UNCHANGED vars
      BY DEF Exhausted, vars
    <3>4. QED
      BY <1>1, <3>1, <3>2, <3>3 DEF Next
  <2>3. q = p
    BY <2>1, <2>2 DEF Running, Truncate, Write
  <2>4. QED
    BY <2>1, <2>2, <2>3 DEF Truncate, Write
<1>2. QED
  BY <1>1, Invariant, PTL DEF Spec, AloneSaveChangesOneField
=============================================================================
