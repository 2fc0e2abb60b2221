--------------------------- MODULE MCSelectedMap ---------------------------
(* SelectedMap with two processes; processes, fields and values are        *)
(* interchangeable.                                                        *)
EXTENDS SelectedMap, TLC

Symmetry == Permutations(Procs) \cup Permutations(Fields) \cup Permutations(Values)
=============================================================================
