---------------------------- MODULE MCSubscriptionUpdater ----------------------------
(* Instances of SubscriptionUpdater for TLC. *)
EXTENDS SubscriptionUpdater, TLC

CONSTANTS u1, u2, f1, s1, s2, j1, j2

Symmetry == Permutations(Scans) \cup Permutations(Jobs) \cup Permutations(Profiles \ FileProfiles)
====
