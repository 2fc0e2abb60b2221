---------------------------- MODULE MCActivation ----------------------------
(* Activation with a few profiles and operations, which are interchangeable. *)
EXTENDS Activation, TLC

Symmetry == Permutations(Profiles) \cup Permutations(Jobs)

\* Bound: operations of the UI process overlap only while the VPN process is off
\* and before a configuration is saved again.
OverlapsAtFirst ==
    \/ Cardinality({j \in Jobs : job[j].at # "idle"}) <= 1
    \/ vpn.at = "off" /\ \A p \in Profiles : saved[p] = 1
=============================================================================
