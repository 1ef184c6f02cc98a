---------------------------- MODULE MCControlPlane ----------------------------
(* ControlPlane for TLC: the constants are given in the cfg file. *)
EXTENDS ControlPlane
===============================================================================
