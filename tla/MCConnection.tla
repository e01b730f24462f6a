---------------------------- MODULE MCConnection ----------------------------
(* Instances of Connection for TLC: its constants are given in the cfgs.   *)
EXTENDS Connection
=============================================================================
