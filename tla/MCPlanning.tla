------------------------------ MODULE MCPlanning ------------------------------
(***************************************************************************)
(* Planning for TLC: the timeouts of the code, the three long ones shorter *)
(* by the same 100 seconds.                                                *)
(***************************************************************************)
EXTENDS Planning

CONSTANTS c1, c2

=============================================================================
