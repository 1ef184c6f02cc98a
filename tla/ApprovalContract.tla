--------------------------- MODULE ApprovalContract ---------------------------
(***************************************************************************)
(* What the owner is promised about confirmations, without tokens, chats,  *)
(* updates or processes: every change of a monitor but setting it aside is *)
(* one approval used once, while it is offered, and exactly the change     *)
(* that was offered, from exactly the status and version it was offered    *)
(* for.  ControlPlane implements this specification.                       *)
(***************************************************************************)
EXTENDS Naturals

CONSTANTS Monitors, Tokens, NoPayload

VARIABLES status, active, approvals

approvalVars == <<status, active, approvals>>

Unused == [state |-> "unused", payload |-> NoPayload]
Spent == [state |-> "spent", payload |-> NoPayload]
Offered(p) == [state |-> "offered", payload |-> p]

ApprovalInit ==
    /\ status = [m \in Monitors |-> "absent"]
    /\ active = [m \in Monitors |-> 0]
    /\ approvals = [t \in Tokens |-> Unused]

\* An offer about an existing monitor shows its current status and version.
ShowsNow(p) ==
    p.monitor \in Monitors =>
        p.expected = status[p.monitor] /\ p.version = active[p.monitor]

Offer(S) ==
    /\ \A t \in S : approvals[t] = Unused /\ ShowsNow(approvals'[t].payload)
    /\ approvals' = [t \in Tokens |->
          IF t \in S THEN Offered(approvals'[t].payload) ELSE approvals[t]]
    /\ UNCHANGED <<status, active>>

Spend(S) ==
    approvals' = [t \in Tokens |-> IF t \in S THEN Spent ELSE approvals[t]]

\* Offers end unused: declined, expired, or lost with the process.
Lapse(S) == Spend(S) /\ UNCHANGED <<status, active>>

Becomes(m, target, version) ==
    /\ status' = [status EXCEPT ![m] = target]
    /\ active' = [active EXCEPT ![m] = version]

\* What the owner approved with p, to the letter.
Effect(p) ==
    \/ /\ p.action = "create"
       /\ \E m \in Monitors : status[m] = "absent" /\ Becomes(m, "active", 1)
    \/ /\ p.monitor \in Monitors /\ ShowsNow(p)
       /\ \/ p.action = "pause" /\ p.expected = "active"
                /\ Becomes(p.monitor, "paused_user", p.version)
          \/ p.action = "resume" /\ p.expected = "paused_user"
                /\ Becomes(p.monitor, "active", p.version)
          \/ p.action = "delete" /\ p.expected \notin {"absent", "disabled"}
                /\ Becomes(p.monitor, "disabled", p.version)
          \/ p.action = "update" /\ p.expected \in {"active", "paused_user"}
                /\ Becomes(p.monitor, p.expected, p.candidate)
          \/ p.action = "repair_activation" /\ p.expected = "needs_review"
                /\ Becomes(p.monitor, "active", p.candidate)

Apply(t) ==
    /\ approvals[t].state = "offered"
    /\ Effect(approvals[t].payload)
    /\ Spend({t})

\* Runs and adaptive recovery set an active monitor aside.
Park(m) ==
    /\ status[m] = "active"
    /\ \E target \in {"paused_auth", "needs_review"} :
           status' = [status EXCEPT ![m] = target]
    /\ UNCHANGED <<active, approvals>>

ApprovalNext ==
    \/ \E S \in SUBSET Tokens : Lapse(S) \/ Offer(S)
    \/ \E t \in Tokens : Apply(t)
    \/ \E m \in Monitors : Park(m)

ApprovalSpec == ApprovalInit /\ [][ApprovalNext]_approvalVars
===============================================================================
