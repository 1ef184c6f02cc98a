--------------------------- MODULE DeliveryContract ---------------------------
(***************************************************************************)
(* What the outbox promises of an alert, without leases, attempts, drains  *)
(* or processes: at-least-once delivery.  An alert owed stays owed until   *)
(* the target has accepted it (or an operator's run with delivery disabled *)
(* has waived it); a delivery once recorded stays recorded; the only way   *)
(* out besides is retention.  Outbox implements this specification.        *)
(***************************************************************************)
CONSTANT Rows

VARIABLES
    rowStatus,  \* "absent", "pending", "delivered", "purged"
    accepted,   \* alerts the target has accepted, at least once
    waived      \* alerts an operator's run has waived

deliveryVars == <<rowStatus, accepted, waived>>

DeliveryInit ==
    /\ rowStatus = [r \in Rows |-> "absent"]
    /\ accepted = {}
    /\ waived = {}

Owe(r) ==
    /\ rowStatus[r] = "absent"
    /\ rowStatus' = [rowStatus EXCEPT ![r] = "pending"]
    /\ UNCHANGED <<accepted, waived>>

\* At any time: the target cannot know what SQLite knows.
Deliver(r) ==
    /\ rowStatus[r] # "absent"
    /\ accepted' = accepted \cup {r}
    /\ UNCHANGED <<rowStatus, waived>>

Waive(S) ==
    /\ \A r \in S : rowStatus[r] = "pending"
    /\ waived' = waived \cup S
    /\ UNCHANGED <<rowStatus, accepted>>

Record(r) ==
    /\ rowStatus[r] = "pending"
    /\ r \in accepted \cup waived
    /\ rowStatus' = [rowStatus EXCEPT ![r] = "delivered"]
    /\ UNCHANGED <<accepted, waived>>

Forget(r) ==
    /\ rowStatus[r] \in {"pending", "delivered"}
    /\ rowStatus' = [rowStatus EXCEPT ![r] = "purged"]
    /\ UNCHANGED <<accepted, waived>>

DeliveryNext ==
    \/ \E r \in Rows : Owe(r) \/ Deliver(r) \/ Record(r) \/ Forget(r)
    \/ \E S \in SUBSET Rows : Waive(S)

DeliverySpec == DeliveryInit /\ [][DeliveryNext]_deliveryVars
===============================================================================
