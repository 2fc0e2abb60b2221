----------------------------- MODULE MCTunCore -----------------------------
(* TunCore with a few calls, which are interchangeable.                    *)
EXTENDS TunCore, TLC

CallSymmetry == Permutations(Calls)
=============================================================================
