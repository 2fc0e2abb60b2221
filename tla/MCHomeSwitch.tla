---------------------------- MODULE MCHomeSwitch ----------------------------
(* HomeSwitch with few pings and starts; temporal properties, so no         *)
(* symmetry.                                                               *)
EXTENDS HomeSwitch
=============================================================================
