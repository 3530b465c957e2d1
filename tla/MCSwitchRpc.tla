------------------------------ MODULE MCSwitchRpc ------------------------------
(* Instances of SwitchRpc for TLC: two calls, one of which may time out. *)
EXTENDS SwitchRpc

CONSTANTS a, b
=============================================================================
