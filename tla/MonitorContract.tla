--------------------------- MODULE MonitorContract ---------------------------
(***************************************************************************)
(* What a monitor promises its owner, without leases, generations, calls   *)
(* or processes: an observation is one indivisible step of an active       *)
(* monitor that replaces the snapshot and enqueues the notifications of    *)
(* exactly that replacement, and the monitor's status and version are      *)
(* those the owner, recovery or a failed observation gave it last.         *)
(* MonitorRunner implements this specification.                            *)
(***************************************************************************)
EXTENDS RunDecisions

CONSTANTS Monitors, MaxVersion

VARIABLES status, active, items, outbox

contractVars == <<status, active, items, outbox>>

ContractInit ==
    /\ status = [m \in Monitors |-> "absent"]
    /\ active = [m \in Monitors |-> 0]
    /\ items = [m \in Monitors |-> NoItem]
    /\ outbox = [m \in Monitors |-> {}]

\* The snapshot moves from items[m] to the batch's, and the candidates are those
\* of this very move.
Observe(m) ==
    /\ status[m] = "active"
    /\ \E batch \in Batches :
        /\ items' = [items EXCEPT ![m] = CurrentItem(items[m], batch)]
        /\ outbox' = [outbox EXCEPT ![m] = @ \cup Candidates(items[m], batch)]
    /\ UNCHANGED <<status, active>>

SetStatus(m, target) ==
    /\ status' = [status EXCEPT ![m] = target]
    /\ UNCHANGED <<active, items, outbox>>

\* A failed observation, or adaptive recovery, sets an active monitor aside.
Park(m) ==
    /\ status[m] = "active"
    /\ \E target \in {"paused_auth", "needs_review"} : SetStatus(m, target)

Create(m) ==
    /\ status[m] = "absent"
    /\ status' = [status EXCEPT ![m] = "active"]
    /\ active' = [active EXCEPT ![m] = 1]
    /\ UNCHANGED <<items, outbox>>

Pause(m) == status[m] = "active" /\ SetStatus(m, "paused_user")
Resume(m) == status[m] = "paused_user" /\ SetStatus(m, "active")
Delete(m) == status[m] \notin {"absent", "disabled"} /\ SetStatus(m, "disabled")

\* A new version keeps the status, or ends a review.
Revise(m) ==
    /\ status[m] \in {"active", "paused_user", "needs_review"}
    /\ \E v \in active[m] + 1 .. MaxVersion : active' = [active EXCEPT ![m] = v]
    /\ status' = [status EXCEPT ![m] = IF @ = "needs_review" THEN "active" ELSE @]
    /\ UNCHANGED <<items, outbox>>

ContractNext ==
    \E m \in Monitors :
        \/ Observe(m) \/ Park(m)
        \/ Create(m) \/ Pause(m) \/ Resume(m) \/ Delete(m) \/ Revise(m)

ContractSpec == ContractInit /\ [][ContractNext]_contractVars
=============================================================================
