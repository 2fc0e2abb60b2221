---------------------------- MODULE MCLogStream ----------------------------
(* Temporal properties, so no symmetry.                                    *)
EXTENDS LogStream
=============================================================================
