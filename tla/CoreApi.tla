------------------------------ MODULE CoreApi ------------------------------
(***************************************************************************)
(* What the core promises its clients: a request takes effect at one       *)
(* moment between being asked and being answered. A load that is under way *)
(* alone is applied with its own parameters; loads that are under way      *)
(* together may be applied with is-patch of one and selected-map of        *)
(* another, because configParams is shared.                                *)
(***************************************************************************)
EXTENDS CoreState

CONSTANTS Client, NoRequest

VARIABLES
    effective,  \* what the core runs, as a holder of runLock sees it
    pending,    \* the request of each client that has not taken effect
    met         \* the loads under way at some moment of a pending load

apiVars == <<effective, pending, met>>

Init ==
    /\ effective = Fresh
    /\ pending = [c \in Client |-> NoRequest]
    /\ met = [c \in Client |-> {}]

\* The request is read off the next state: Load is large.
Ask(c) ==
    /\ pending[c] = NoRequest
    /\ pending'[c] \in Load \cup Change
    /\ pending' = [pending EXCEPT ![c] = pending'[c]]
    /\ met' = MeetsAfter(pending, met, c, pending'[c])
    /\ UNCHANGED effective

Serve(c) ==
    /\ \/ /\ pending[c] \in Change
          /\ effective' = AfterChange(effective, pending[c])
       \/ /\ pending[c] \in Load
          /\ \E a, b \in met[c], reading \in Readings :
                effective' = IF a.patch THEN AfterPatch(effective, pending[c], reading)
                             ELSE AfterSelect(AfterApply(pending[c], reading), b.picks)
    /\ pending' = [pending EXCEPT ![c] = NoRequest]
    /\ met' = [met EXCEPT ![c] = {}]

\* The process ends, and everything under way with it.
Die ==
    /\ effective' = Fresh
    /\ pending' = [c \in Client |-> NoRequest]
    /\ met' = [c \in Client |-> {}]

Next ==
    \/ \E c \in Client : Ask(c) \/ Serve(c)
    \/ Die

Spec == Init /\ [][Next]_apiVars
=============================================================================
