-------------------------- MODULE MCRentalMigration --------------------------
(***************************************************************************)
(* RentalMigration for TLC: a notice of one of two agencies.               *)
(***************************************************************************)
EXTENDS RentalMigration

CONSTANTS n1, lh, sh

MCAgencyOf == [n \in Notices |-> lh]

=============================================================================
