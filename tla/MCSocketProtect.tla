-------------------------- MODULE MCSocketProtect --------------------------
(* SocketProtect with two dials and two connections, one of which holds    *)
(* both requests while the other is full with the first.                   *)
EXTENDS SocketProtect

CONSTANTS s1, s2

Buffers == [s \in Sessions |-> IF s = s1 THEN 1 ELSE 2]
=============================================================================
