--------------------------- MODULE MCMonitorRunner ---------------------------
(* MonitorRunner for TLC: the constants are given in the cfg files. *)
EXTENDS MonitorRunner
=============================================================================
