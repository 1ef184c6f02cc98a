------------------------------- MODULE MCOutbox -------------------------------
(***************************************************************************)
(* Outbox for TLC.  A cfg cannot hold a sequence, so the retry delays are  *)
(* given here: two steps of the five, in ticks of one lease.               *)
(***************************************************************************)
EXTENDS Outbox, TLC

TwoDelays == <<1, 2>>

RowSymmetry == Permutations(Rows)
===============================================================================
