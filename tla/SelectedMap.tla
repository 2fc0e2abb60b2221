---------------------------- MODULE SelectedMap ----------------------------
(***************************************************************************)
(* selected_map.json, which the UI process and the VPN process share.      *)
(*                                                                         *)
(* Every operation of SelectedMapStore loads the whole file; record,       *)
(* saveMode and saveVpnOn then change one field and write the whole file   *)
(* back, by truncating it and writing from its beginning. There is no      *)
(* lock. Within a process an operation runs to its end, because all of its *)
(* file calls are synchronous and its awaits resolve at once; between the  *)
(* processes each file call is a step of its own, and a process can be     *)
(* killed between any two.                                                 *)
(***************************************************************************)
EXTENDS Naturals

CONSTANTS
    Procs,    \* the processes
    Fields,   \* mode, vpnOn and the selections of the profiles
    Values,   \* what a field is set to
    Unset,    \* the default of a field
    MaxOps,   \* bound: the operations that are started
    Kills     \* whether the system kills processes in the middle of them

ASSUME StoreAssumption ==
    /\ Unset \notin Values
    /\ MaxOps \in Nat
    /\ Kills \in BOOLEAN

VARIABLES
    file,     \* the text: a whole record, or one that does not parse
    at,       \* where the operation of each process stands
    job,      \* the field and value it saves; a load saves nothing
    size,     \* the text whose size it has asked for
    data,     \* the record it has loaded, and changed
    ops,      \* operations started so far
    latest,   \* history: the value of the last finished save of each field
    before,   \* history: what a load would have returned when it started
    alone,    \* history: no other operation has run during this one
    clean     \* history: no two operations overlapped, none died while writing

vars == <<file, at, job, size, data, ops, latest, before, alone, clean>>

Contents == [Fields -> Values \cup {Unset}]
Default  == [f \in Fields |-> Unset]

\* "none" is no file, "empty" a truncated one, "mixed" the beginning of one
\* text and the end of a longer one. Pseudo-records keep TLC's comparison of
\* texts within functions.
Odd(s)   == [text |-> s]
Whole(c) == [json |-> c]
Texts    == {Whole(c) : c \in Contents} \cup {Odd(s) : s \in {"none", "empty", "mixed"}}

Job  == [field : Fields, value : Values]
Load == [load |-> TRUE]

TypeOK ==
    /\ file \in Texts
    /\ at \in [Procs -> {"idle", "opened", "loaded", "truncated"}]
    /\ job \in [Procs -> Job \cup {Load}]
    /\ size \in [Procs -> Texts]
    /\ data \in [Procs -> Contents]
    /\ ops \in 0..MaxOps
    /\ latest \in Contents
    /\ before \in [Procs -> Contents]
    /\ alone \in [Procs -> BOOLEAN]
    /\ clean \in BOOLEAN

Init ==
    /\ file = Odd("none")
    /\ at = [p \in Procs |-> "idle"]
    /\ job = [p \in Procs |-> Load]
    /\ size = [p \in Procs |-> Odd("none")]
    /\ data = [p \in Procs |-> Default]
    /\ ops = 0
    /\ latest = Default
    /\ before = [p \in Procs |-> Default]
    /\ alone = [p \in Procs |-> FALSE]
    /\ clean = TRUE

-----------------------------------------------------------------------------

\* JSON.parse throws for everything but a whole text: loadFile catches it.
Parse(t) == IF t \in {Whole(c) : c \in Contents} THEN t.json ELSE Default

Running == {p \in Procs : at[p] # "idle"}

\* accessSync, openSync and statSync. A missing file is the default at once.
Start(p, j) ==
    /\ at[p] = "idle"
    /\ ops < MaxOps
    /\ ops' = ops + 1
    /\ job' = [job EXCEPT ![p] = j]
    /\ at' = [at EXCEPT ![p] = IF file = Odd("none") THEN "loaded" ELSE "opened"]
    /\ size' = [size EXCEPT ![p] = file]
    /\ data' = [data EXCEPT ![p] = Default]
    /\ alone' = [q \in Procs |-> IF q = p THEN Running = {} ELSE FALSE]
    /\ clean' = (clean /\ Running = {})
    /\ before' = [before EXCEPT ![p] = Parse(file)]
    /\ UNCHANGED <<file, latest>>

\* readSync fills a buffer of the size that was asked for: when the text has
\* changed since, it is cut off or followed by zeros, unless it is as long.
Read(p) ==
    /\ at[p] = "opened"
    /\ at' = [at EXCEPT ![p] = "loaded"]
    /\ \/ data' = [data EXCEPT ![p] = Parse(file)]
       \/ /\ file # size[p]
          /\ data' = [data EXCEPT ![p] = Default]
    /\ UNCHANGED <<file, job, size, ops, latest, before, alone, clean>>

\* load, loadMode and loadVpnOn return what loadFile returned.
Return(p) ==
    /\ at[p] = "loaded"
    /\ job[p] = Load
    /\ at' = [at EXCEPT ![p] = "idle"]
    /\ UNCHANGED <<file, job, size, data, ops, latest, before, alone, clean>>

\* Mutant: the file is opened without TRUNC.
TruncateNothing(p) ==
    /\ at[p] = "loaded"
    /\ job[p] # Load
    /\ at' = [at EXCEPT ![p] = "truncated"]
    /\ data' = [data EXCEPT ![p][job[p].field] = job[p].value]
    /\ UNCHANGED <<file, job, size, ops, latest, before, alone, clean>>

\* saveFile opens the file with CREATE and TRUNC.
Truncate(p) ==
    /\ at[p] = "loaded"
    /\ job[p] # Load
    /\ at' = [at EXCEPT ![p] = "truncated"]
    /\ data' = [data EXCEPT ![p][job[p].field] = job[p].value]
    /\ file' = Odd("empty")
    /\ UNCHANGED <<job, size, ops, latest, before, alone, clean>>

\* Mutant: a fresh record is written in place of the loaded one.
WriteFresh(p) ==
    /\ at[p] = "truncated"
    /\ file' = Whole([Default EXCEPT ![job[p].field] = job[p].value])
    /\ at' = [at EXCEPT ![p] = "idle"]
    /\ latest' = [latest EXCEPT ![job[p].field] = job[p].value]
    /\ UNCHANGED <<job, size, data, ops, before, alone, clean>>

\* Mutant: a field is set to nothing.
WriteNothing(p) ==
    /\ at[p] = "truncated"
    /\ file' = Odd("nothing")
    /\ at' = [at EXCEPT ![p] = "idle"]
    /\ UNCHANGED <<job, size, data, ops, latest, before, alone, clean>>

\* writeSync from offset 0: over the text another process has written in the
\* meantime, the end of that text stays when it is the longer one.
Write(p) ==
    /\ at[p] = "truncated"
    /\ \/ file' = Whole(data[p])
       \/ file \notin {Odd("empty"), Whole(data[p])} /\ file' = Odd("mixed")
    /\ at' = [at EXCEPT ![p] = "idle"]
    /\ latest' = [latest EXCEPT ![job[p].field] = job[p].value]
    /\ UNCHANGED <<job, size, data, ops, before, alone, clean>>

\* The system kills the process; what it has done to the file stays.
Kill(p) ==
    /\ Kills
    /\ at[p] # "idle"
    /\ at' = [at EXCEPT ![p] = "idle"]
    /\ clean' = (clean /\ at[p] # "truncated")
    /\ UNCHANGED <<file, job, size, data, ops, latest, before, alone>>

Exhausted ==
    /\ ops = MaxOps
    /\ Running = {}
    /\ UNCHANGED vars

Next ==
    \/ \E p \in Procs :
        \/ \E j \in Job \cup {Load} : Start(p, j)
        \/ Read(p)
        \/ Return(p)
        \/ Truncate(p)
        \/ Write(p)
        \/ Kill(p)
    \/ Exhausted

Spec == Init /\ [][Next]_vars

-----------------------------------------------------------------------------

\* As long as no two operations overlap and none is killed between truncating
\* and writing, the file holds the last value saved of every field, whichever
\* process saved it (SelectedMapStore.ts:9-:10, :54-:63).
CleanStoreKeepsAll ==
    clean => \/ Parse(file) = latest
             \/ \E p \in Procs : at[p] = "truncated"

\* A save that runs alone repairs whatever it finds: it ends with a text that
\* parses and has its value, and with every other field as a load would have
\* returned it before (SelectedMapStore.ts:86-:91).
AloneSaveChangesOneField ==
    [][\A p \in Procs :
        at[p] = "truncated" /\ alone[p] /\ alone'[p] /\ file' # file =>
            file' = Whole([before[p] EXCEPT ![job[p].field] = job[p].value])]_vars
=============================================================================
