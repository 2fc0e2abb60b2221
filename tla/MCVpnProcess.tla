---------------------------- MODULE MCVpnProcess ----------------------------
(* A temporal property is checked, so the calls are not made symmetric.    *)
EXTENDS VpnProcess
=============================================================================
