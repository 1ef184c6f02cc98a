------------------------- MODULE MonitorRunner_proofs -------------------------
(***************************************************************************)
(* Proofs about MonitorRegistry (part 1) and MonitorRunner (part 2), for   *)
(* every set of monitors, of service and one-shot workers, of field values *)
(* and every value of the bounds.                                          *)
(***************************************************************************)
EXTENDS MonitorRunner, SequenceTheorems, TLAPS

-----------------------------------------------------------------------------
(* Part 1: the registry *)

(***************************************************************************)
(* The inductive form of LinearApprovals for one monitor, over its version *)
(* rows s and its active version a.  LinearApprovals alone is not          *)
(* inductive: it does not exclude an approved child of the active version, *)
(* next to which a second child could be approved, nor a candidate on top  *)
(* of a version that was never approved.                                   *)
(***************************************************************************)
Line(s, a) ==
    /\ Len(s) <= MaxVersion
    /\ a \in 1..Len(s)
    /\ s[a].approved
    /\ \A v \in 1..Len(s) :
          /\ s[v].parent \in 0 .. v - 1
          /\ s[v].parent = 0 <=> v = 1
          /\ v # 1 => s[s[v].parent].approved
          /\ s[v].approved => s[v].parent # a
    /\ \A v, u \in 1..Len(s) :
          s[v].approved /\ s[u].approved /\ s[v].parent = s[u].parent => v = u

Lineage ==
    \A m \in Monitors :
        IF status[m] = "absent" THEN versions[m] = <<>>
                                ELSE Line(versions[m], active[m])

RegistryInv ==
    RegistryTypeOK /\ ScheduleMatchesStatus /\ LeaseCanExpire /\ Lineage

-----------------------------------------------------------------------------
(* Lemmas about the version rows *)

\* A monitor starts with one approved version.
LEMMA LineOfFirst ==
    Line(Append(<<>>, [author |-> "owner", parent |-> 0, approved |-> TRUE]), 1)
<1> DEFINE row == [author |-> "owner", parent |-> 0, approved |-> TRUE]
           s == Append(<<>>, row)
<1>1. row \in VersionRow  BY RegistryAssumption DEF VersionRow, Authors
<1>2. <<>> \in Seq(VersionRow) /\ Len(<<>>) = 0  BY EmptySeq
<1>3. Len(s) = 1 /\ s[1] = row  BY <1>1, <1>2, AppendProperties
<1>4. row.parent = 0 /\ row.approved  OBVIOUS
<1> QED  BY <1>3, <1>4, RegistryAssumption DEF Line

\* Adding an unapproved candidate on top of the active version keeps the line.
LEMMA LineOfCandidate ==
    ASSUME NEW s \in Seq(VersionRow), NEW a, Line(s, a), Len(s) < MaxVersion,
           NEW author \in Authors
    PROVE  Line(Append(s, [author |-> author, parent |-> a, approved |-> FALSE]), a)
<1> DEFINE row == [author |-> author, parent |-> a, approved |-> FALSE]
           t == Append(s, row)
<1>1. Len(s) \in Nat  BY LenProperties
<1>2. row \in VersionRow  BY <1>1, RegistryAssumption DEF VersionRow, Line
<1>3. /\ Len(t) = Len(s) + 1
      /\ \A i \in 1..Len(s) : t[i] = s[i]
      /\ t[Len(s) + 1] = row
  BY <1>2, AppendProperties
<1>4. row.parent = a /\ row.approved = FALSE  OBVIOUS
<1> HIDE DEF t, row
<1>5. Len(t) <= MaxVersion /\ a \in 1..Len(t) /\ t[a].approved
  BY <1>1, <1>3, RegistryAssumption DEF Line
<1>6. ASSUME NEW v \in 1..Len(t)
      PROVE  /\ t[v].parent \in 0 .. v - 1
             /\ t[v].parent = 0 <=> v = 1
             /\ v # 1 => t[t[v].parent].approved
             /\ t[v].approved => t[v].parent # a
  <2>1. CASE v \in 1..Len(s)
    <3>1. t[v] = s[v]  BY <2>1, <1>3
    <3>2. v # 1 => s[v].parent \in 1..Len(s)  BY <1>1, <2>1 DEF Line
    <3> QED  BY <2>1, <3>1, <3>2, <1>3 DEF Line
  <2>2. CASE v = Len(s) + 1
    BY <2>2, <1>1, <1>3, <1>4 DEF Line
  <2> QED  BY <2>1, <2>2, <1>1, <1>3
<1>7. ASSUME NEW v \in 1..Len(t), NEW u \in 1..Len(t),
             t[v].approved, t[u].approved, t[v].parent = t[u].parent
      PROVE  v = u
  <2>1. v \in 1..Len(s) /\ u \in 1..Len(s)  BY <1>1, <1>3, <1>4, <1>7
  <2> QED  BY <2>1, <1>3, <1>7 DEF Line
<1>8. Line(t, a)  BY <1>5, <1>6, <1>7 DEF Line
<1> QED  BY <1>8 DEF t, row

\* Approving a child of the active version and making it the active one keeps
\* the line: nothing can have been staged on top of a version never approved.
LEMMA LineOfActivation ==
    ASSUME NEW s \in Seq(VersionRow), NEW a, Line(s, a),
           NEW c \in 1..Len(s), ~s[c].approved, s[c].parent = a
    PROVE  /\ [s EXCEPT ![c].approved = TRUE] \in Seq(VersionRow)
           /\ Line([s EXCEPT ![c].approved = TRUE], c)
<1> DEFINE row == [s[c] EXCEPT !.approved = TRUE]
           t == [s EXCEPT ![c] = row]
<1>1. Len(s) \in Nat  BY LenProperties
<1>2. s[c] \in VersionRow  BY ElementOfSeq
<1>3. row \in VersionRow /\ row.parent = a /\ row.approved
  BY <1>2 DEF VersionRow
<1>4. /\ t \in Seq(VersionRow)
      /\ Len(t) = Len(s)
      /\ \A i \in 1..Len(s) : t[i] = IF i = c THEN row ELSE s[i]
  BY <1>3, ExceptSeq
<1>5. t = [s EXCEPT ![c].approved = TRUE]  OBVIOUS
<1> HIDE DEF t, row
<1>6. Len(t) <= MaxVersion /\ c \in 1..Len(t) /\ t[c].approved
  BY <1>3, <1>4 DEF Line
<1>7. ASSUME NEW v \in 1..Len(t)
      PROVE  /\ t[v].parent \in 0 .. v - 1
             /\ t[v].parent = 0 <=> v = 1
             /\ v # 1 => t[t[v].parent].approved
             /\ t[v].approved => t[v].parent # c
  <2>1. t[v].parent = s[v].parent  BY <1>3, <1>4
  <2>2. \A i \in 1..Len(s) : s[i].approved => t[i].approved  BY <1>3, <1>4
  <2>3. s[v].parent \in 0 .. v - 1 /\ (s[v].parent = 0 <=> v = 1)
    BY <1>4 DEF Line
  <2>4. v # 1 => t[t[v].parent].approved
    <3>1. v # 1 => s[v].parent \in 1..Len(s) /\ s[s[v].parent].approved
      BY <1>1, <1>4, <2>3 DEF Line
    <3> QED  BY <2>1, <2>2, <3>1
  <2>5. t[v].parent # c
    <3>1. CASE v = 1  BY <3>1, <2>1, <2>3
    <3>2. CASE v # 1  BY <3>2, <2>1, <1>4 DEF Line
    <3> QED  BY <3>1, <3>2
  <2> QED  BY <2>1, <2>3, <2>4, <2>5
<1>8. ASSUME NEW v \in 1..Len(t), NEW u \in 1..Len(t),
             t[v].approved, t[u].approved, t[v].parent = t[u].parent
      PROVE  v = u
  <2>1. \A i \in 1..Len(s) : t[i].parent = s[i].parent /\ (i # c => t[i] = s[i])
    BY <1>3, <1>4
  <2>2. CASE v # c /\ u # c  BY <2>1, <2>2, <1>4, <1>8 DEF Line
  <2>3. CASE v = c \/ u = c  BY <2>1, <2>3, <1>4, <1>8 DEF Line
  <2> QED  BY <2>2, <2>3
<1>9. Line(t, c)  BY <1>6, <1>7, <1>8 DEF Line
<1> QED  BY <1>4, <1>5, <1>9

-----------------------------------------------------------------------------
(* Every operation keeps the inductive invariant *)

\* Claims, releases and verdicts leave the versions alone and only touch a lease
\* of an active monitor, or one that its holder gives back.
LEMMA LeaseStep ==
    ASSUME RegistryInv, LeaseNext
    PROVE  RegistryInv'
<1> USE RegistryAssumption DEF RegistryInv, RegistryTypeOK
<1>1. ASSUME NEW w \in Workers, NEW S \in SUBSET Monitors, TakeLeases(S, w),
             \A m \in S : status[m] = "active" /\ generation[m] < MaxGeneration
      PROVE  RegistryInv'
  <2>1. RegistryTypeOK'  BY <1>1 DEF TakeLeases
  <2>2. ScheduleMatchesStatus' /\ LeaseCanExpire'
    BY <1>1 DEF TakeLeases, ScheduleMatchesStatus, LeaseCanExpire, NoTime
  <2>3. Lineage'  BY <1>1 DEF TakeLeases, Lineage, Line
  <2> QED  BY <2>1, <2>2, <2>3
<1>2. ASSUME NEW w \in Workers, ClaimDue(w)
      PROVE  RegistryInv'
  <2>1. DueMonitors \in SUBSET Monitors /\ TakeLeases(DueMonitors, w)
    BY <1>2 DEF ClaimDue, DueMonitors
  <2>2. \A m \in DueMonitors : status[m] = "active" /\ generation[m] < MaxGeneration
    BY DEF DueMonitors, Due
  <2> HIDE DEF RegistryInv, RegistryTypeOK
  <2> QED  BY <1>1, <2>1, <2>2
<1>3. ASSUME NEW m \in Monitors, NEW w \in Workers, ClaimMonitor(m, w)
      PROVE  RegistryInv'
  <2>1. {m} \in SUBSET Monitors /\ TakeLeases({m}, w)
    BY <1>3 DEF ClaimMonitor
  <2>2. \A n \in {m} : status[n] = "active" /\ generation[n] < MaxGeneration
    BY <1>3 DEF ClaimMonitor
  <2> HIDE DEF RegistryInv, RegistryTypeOK
  <2> QED  BY <1>1, <2>1, <2>2
<1>4. ASSUME NEW m \in Monitors, NEW w \in Workers, NEW g \in 1..MaxGeneration,
             NEW d \in CronDelays, ReleaseLease(m, w, g, d)
      PROVE  RegistryInv'
  <2>1. d \in Nat /\ d # NoTime  BY DEF CronDelays, NoTime
  <2>2. RegistryTypeOK'  BY <1>4, <2>1 DEF ReleaseLease
  <2>3. owner[m] # NoWorker  BY <1>4 DEF ReleaseLease, HoldsLease
  <2>4. ScheduleMatchesStatus' /\ LeaseCanExpire'
    BY <1>4, <2>1, <2>3 DEF ReleaseLease, ScheduleMatchesStatus, LeaseCanExpire
  <2>5. Lineage'  BY <1>4 DEF ReleaseLease, Lineage, Line
  <2> QED  BY <2>2, <2>4, <2>5
<1>5. ASSUME NEW m \in Monitors, NEW w \in Workers, NEW g \in 1..MaxGeneration,
             NEW target \in {"paused_auth", "needs_review"},
             TransitionMonitorStatus(m, w, g, "active", target)
      PROVE  RegistryInv'
  <2>1. RegistryTypeOK'  BY <1>5 DEF TransitionMonitorStatus, Statuses
  <2>2. ScheduleMatchesStatus' /\ LeaseCanExpire'
    BY <1>5 DEF TransitionMonitorStatus, ScheduleMatchesStatus, LeaseCanExpire
  <2>3. Lineage'  BY <1>5 DEF TransitionMonitorStatus, Lineage, Line
  <2> QED  BY <2>1, <2>2, <2>3
<1> QED  BY <1>2, <1>3, <1>4, <1>5 DEF LeaseNext

\* What the lifecycle operations do to the lease and to the schedule.
LEMMA SupersedeFacts ==
    ASSUME RegistryTypeOK, NEW m \in Monitors, SupersedeLease(m)
    PROVE  /\ owner' \in [Monitors -> Workers \cup {NoWorker}]
           /\ leaseLeft' \in [Monitors -> {NoTime} \cup Nat]
           /\ generation' \in [Monitors -> 0..MaxGeneration]
           /\ owner'[m] = NoWorker
           /\ \A n \in Monitors : n # m => owner'[n] = owner[n] /\ leaseLeft'[n] = leaseLeft[n]
BY RegistryAssumption DEF RegistryTypeOK, SupersedeLease

LEMMA RescheduleFacts ==
    ASSUME RegistryTypeOK, NEW m \in Monitors, NEW target, Reschedule(m, target)
    PROVE  /\ nextIn' \in [Monitors -> {NoTime} \cup Nat]
           /\ target = "active" => nextIn'[m] # NoTime
           /\ target # "active" => nextIn'[m] = NoTime
           /\ \A n \in Monitors : n # m => nextIn'[n] = nextIn[n]
BY RegistryAssumption DEF RegistryTypeOK, Reschedule, CronDelays, NoTime

\* Appending a candidate on the active version of monitor m.
LEMMA AddCandidate ==
    ASSUME RegistryInv, NEW m \in Monitors, status[m] # "absent",
           NEW author \in Authors, AddVersion(m, author, active[m], FALSE)
    PROVE  /\ versions' \in [Monitors -> Seq(VersionRow)]
           /\ Line(versions'[m], active[m])
           /\ \A n \in Monitors : n # m => versions'[n] = versions[n]
<1> USE RegistryAssumption DEF RegistryInv, RegistryTypeOK
<1> DEFINE row == [author |-> author, parent |-> active[m], approved |-> FALSE]
<1>1. Len(versions[m]) < MaxVersion /\ versions' = [versions EXCEPT ![m] = Append(@, row)]
  BY DEF AddVersion
<1>2. Line(versions[m], active[m])  BY DEF Lineage
<1>3. row \in VersionRow  BY DEF VersionRow
<1>4. Append(versions[m], row) \in Seq(VersionRow)  BY <1>3, AppendProperties
<1>5. Line(Append(versions[m], row), active[m])  BY <1>1, <1>2, LineOfCandidate
<1> HIDE DEF row
<1> QED  BY <1>1, <1>4, <1>5

LEMMA LifecycleStep ==
    ASSUME RegistryInv, NEW m \in Monitors, LifecycleNext(m)
    PROVE  RegistryInv'
<1> USE RegistryAssumption DEF RegistryInv, RegistryTypeOK
<1> DEFINE e == status[m]
           v == active[m]
<1>1. CASE CreateMonitor(m)
  <2> DEFINE row == [author |-> "owner", parent |-> 0, approved |-> TRUE]
  <2>1. /\ status[m] = "absent" /\ versions[m] = <<>>
        /\ versions' = [versions EXCEPT ![m] = Append(<<>>, row)]
    BY <1>1 DEF CreateMonitor, AddVersion, Lineage
  <2>2. row \in VersionRow  BY DEF VersionRow, Authors
  <2>3. Append(<<>>, row) \in Seq(VersionRow)  BY <2>2, EmptySeq, AppendProperties
  <2>4. Line(Append(<<>>, row), 1)  BY LineOfFirst
  <2> HIDE DEF row
  <2>5. RegistryTypeOK'  BY <1>1, <2>1, <2>3 DEF CreateMonitor, Statuses
  <2>6. ScheduleMatchesStatus' /\ LeaseCanExpire'
    BY <1>1 DEF CreateMonitor, ScheduleMatchesStatus, LeaseCanExpire, NoTime
  <2>7. Lineage'
    <3>1. versions'[m] = Append(<<>>, row) /\ active'[m] = 1 /\ status'[m] = "active"
      BY <1>1, <2>1 DEF CreateMonitor
    <3>2. \A n \in Monitors : n # m => /\ versions'[n] = versions[n]
                                       /\ active'[n] = active[n]
                                       /\ status'[n] = status[n]
      BY <1>1, <2>1 DEF CreateMonitor
    <3> QED  BY <2>4, <3>1, <3>2 DEF Lineage
  <2> QED  BY <2>5, <2>6, <2>7
<1>2. ASSUME NEW target \in {"paused_user", "active"}, TransitionStatusExact(m, e, v, target)
      PROVE  RegistryInv'
  <2>1. status[m] \in {"active", "paused_user"} /\ status' = [status EXCEPT ![m] = target]
    BY <1>2 DEF TransitionStatusExact
  <2>2. SupersedeLease(m) /\ Reschedule(m, target) /\ UNCHANGED <<active, versions>>
    BY <1>2 DEF TransitionStatusExact
  <2>3. RegistryTypeOK'  BY <2>1, <2>2, SupersedeFacts, RescheduleFacts DEF Statuses
  <2>4. ScheduleMatchesStatus' /\ LeaseCanExpire'
    BY <2>1, <2>2, SupersedeFacts, RescheduleFacts DEF ScheduleMatchesStatus, LeaseCanExpire
  <2>5. Lineage'  BY <2>1, <2>2 DEF Lineage, Line
  <2> QED  BY <2>3, <2>4, <2>5
<1>3. CASE SoftDeleteExact(m, e, v)
  <2>1. /\ status[m] \in Statuses /\ status' = [status EXCEPT ![m] = "disabled"]
        /\ nextIn' = [nextIn EXCEPT ![m] = NoTime]
        /\ SupersedeLease(m) /\ UNCHANGED <<active, versions>>
    BY <1>3 DEF SoftDeleteExact
  <2>2. RegistryTypeOK'  BY <2>1, SupersedeFacts DEF Statuses
  <2>3. ScheduleMatchesStatus' /\ LeaseCanExpire'
    BY <2>1, SupersedeFacts DEF ScheduleMatchesStatus, LeaseCanExpire
  <2>4. status[m] # "absent"  BY <2>1 DEF Statuses
  <2>5. Lineage'  BY <2>1, <2>4 DEF Lineage, Line
  <2> QED  BY <2>2, <2>3, <2>5
<1>4. CASE StageCandidate(m, e, v)
  <2>1. /\ status[m] # "absent" /\ AddVersion(m, "codex-control", active[m], FALSE)
        /\ UNCHANGED <<status, active, nextIn, owner, leaseLeft, generation>>
    BY <1>4 DEF StageCandidate
  <2>2. "codex-control" \in Authors  BY DEF Authors
  <2>3. RegistryTypeOK'  BY <2>1, <2>2, AddCandidate
  <2>4. ScheduleMatchesStatus' /\ LeaseCanExpire'
    BY <2>1 DEF ScheduleMatchesStatus, LeaseCanExpire
  <2>5. Lineage'  BY <2>1, <2>2, AddCandidate DEF Lineage
  <2> QED  BY <2>3, <2>4, <2>5
<1>5. CASE StoreCandidate(m, v)
  <2>1. /\ status[m] = "active" /\ AddVersion(m, "scrapling-adaptive", active[m], FALSE)
        /\ status' = [status EXCEPT ![m] = "needs_review"]
        /\ nextIn' = [nextIn EXCEPT ![m] = NoTime]
        /\ SupersedeLease(m) /\ UNCHANGED active
    BY <1>5 DEF StoreCandidate, Unchanged
  <2>2. "scrapling-adaptive" \in Authors  BY DEF Authors
  <2>3. RegistryTypeOK'  BY <2>1, <2>2, AddCandidate, SupersedeFacts DEF Statuses
  <2>4. ScheduleMatchesStatus' /\ LeaseCanExpire'
    BY <2>1, SupersedeFacts DEF ScheduleMatchesStatus, LeaseCanExpire
  <2>5. Lineage'  BY <2>1, <2>2, AddCandidate DEF Lineage
  <2> QED  BY <2>3, <2>4, <2>5
<1>6. ASSUME NEW c \in 1..MaxVersion, NEW author, NEW target \in {"active", "paused_user"},
             status[m] # "absent", ActivateCandidateExact(m, c, author, e, v, target)
      PROVE  RegistryInv'
  <2> DEFINE t == [versions[m] EXCEPT ![c].approved = TRUE]
  <2>1. /\ c \in DOMAIN versions[m] /\ ~versions[m][c].approved
        /\ versions[m][c].parent = active[m]
        /\ versions' = [versions EXCEPT ![m] = t]
        /\ active' = [active EXCEPT ![m] = c]
        /\ status' = [status EXCEPT ![m] = target]
        /\ Reschedule(m, target) /\ SupersedeLease(m)
    BY <1>6 DEF ActivateCandidateExact, Activable
  <2>2. Line(versions[m], active[m])  BY <1>6 DEF Lineage
  <2>3. c \in 1..Len(versions[m])  BY <2>1, LenProperties
  <2>4. t \in Seq(VersionRow) /\ Line(t, c)  BY <2>1, <2>2, <2>3, LineOfActivation
  <2> HIDE DEF t
  <2>5. RegistryTypeOK'
    <3>1. versions' \in [Monitors -> Seq(VersionRow)]  BY <2>1, <2>4
    <3>2. active' \in [Monitors -> 0..MaxVersion]  BY <2>1
    <3>3. status' \in [Monitors -> Statuses \cup {"absent"}]  BY <2>1 DEF Statuses
    <3>4. nextIn' \in [Monitors -> {NoTime} \cup Nat]  BY <2>1, RescheduleFacts
    <3>5. /\ owner' \in [Monitors -> Workers \cup {NoWorker}]
          /\ leaseLeft' \in [Monitors -> {NoTime} \cup Nat]
          /\ generation' \in [Monitors -> 0..MaxGeneration]
      BY <2>1, SupersedeFacts
    <3> QED  BY <3>1, <3>2, <3>3, <3>4, <3>5
  <2>6. ScheduleMatchesStatus' /\ LeaseCanExpire'
    BY <2>1, SupersedeFacts, RescheduleFacts DEF ScheduleMatchesStatus, LeaseCanExpire
  <2>7. Lineage'
    <3>1. versions'[m] = t /\ active'[m] = c /\ status'[m] # "absent"  BY <2>1
    <3>2. \A n \in Monitors : n # m => /\ versions'[n] = versions[n]
                                       /\ active'[n] = active[n]
                                       /\ status'[n] = status[n]
      BY <2>1
    <3> QED  BY <2>4, <3>1, <3>2 DEF Lineage
  <2> QED  BY <2>5, <2>6, <2>7
<1> HIDE DEF RegistryInv
<1>7. ASSUME NEW c \in 1..MaxVersion,
             ActivateCandidateExact(m, c, "scrapling-adaptive", e, v, "active")
      PROVE  RegistryInv'
  <2>1. status[m] = "needs_review"  BY <1>7 DEF ActivateCandidateExact
  <2> QED  BY <1>6, <1>7, <2>1
<1>8. ASSUME NEW c \in 1..MaxVersion, e \in {"active", "paused_user"},
             ActivateCandidateExact(m, c, "codex-control", e, v, e)
      PROVE  RegistryInv'
  BY <1>6, <1>8
<1> QED  BY <1>1, <1>2, <1>3, <1>4, <1>5, <1>7, <1>8 DEF LifecycleNext

LEMMA TickStep ==
    ASSUME RegistryInv, TickRegistry
    PROVE  RegistryInv'
<1> USE DEF RegistryInv, RegistryTypeOK
<1>1. ASSUME NEW timer \in [Monitors -> {NoTime} \cup Nat], NEW m \in Monitors
      PROVE  /\ TickDown(timer)[m] \in {NoTime} \cup Nat
             /\ TickDown(timer)[m] = NoTime <=> timer[m] = NoTime
  BY DEF TickDown, NoTime
<1>2. TickDown(nextIn) \in [Monitors -> {NoTime} \cup Nat]
  BY <1>1 DEF TickDown
<1>3. TickDown(leaseLeft) \in [Monitors -> {NoTime} \cup Nat]
  BY <1>1 DEF TickDown
<1>4. RegistryTypeOK'  BY <1>2, <1>3 DEF TickRegistry
<1>5. ScheduleMatchesStatus' /\ LeaseCanExpire'
  BY <1>1 DEF TickRegistry, ScheduleMatchesStatus, LeaseCanExpire
<1>6. Lineage'  BY DEF TickRegistry, Lineage, Line
<1> QED  BY <1>4, <1>5, <1>6

LEMMA InitRegistryInv == RegistryInit => RegistryInv
<1> SUFFICES ASSUME RegistryInit PROVE RegistryInv
  OBVIOUS
<1> USE RegistryAssumption DEF RegistryInit
<1>1. RegistryTypeOK  BY EmptySeq DEF RegistryTypeOK
<1>2. ScheduleMatchesStatus /\ LeaseCanExpire
  BY DEF ScheduleMatchesStatus, LeaseCanExpire, NoTime
<1>3. Lineage  BY DEF Lineage
<1> QED  BY <1>1, <1>2, <1>3 DEF RegistryInv

\* For specifications built on the registry: one registry step, or none.
LEMMA NextRegistryInv == RegistryInv /\ [RegistryNext]_registryVars => RegistryInv'
<1> SUFFICES ASSUME RegistryInv, [RegistryNext]_registryVars PROVE RegistryInv'
  OBVIOUS
<1>1. CASE RegistryNext
  BY <1>1, LeaseStep, LifecycleStep, TickStep DEF RegistryNext
<1>2. CASE UNCHANGED registryVars
  BY <1>2 DEF registryVars, RegistryInv, RegistryTypeOK, ScheduleMatchesStatus,
              LeaseCanExpire, Lineage, Line
<1> QED  BY <1>1, <1>2

\* The inductive lineage gives the published one.
LEMMA LineageIsLinear == RegistryInv => LinearApprovals
<1> SUFFICES ASSUME RegistryInv, NEW m \in Monitors
             PROVE  /\ status[m] # "absent" => /\ active[m] \in DOMAIN versions[m]
                                               /\ versions[m][active[m]].approved
                    /\ \A v \in DOMAIN versions[m] :
                          versions[m][v].approved /\ v # 1 =>
                              /\ versions[m][v].parent \in 1 .. v - 1
                              /\ versions[m][versions[m][v].parent].approved
                    /\ \A v, u \in DOMAIN versions[m] :
                          /\ versions[m][v].approved /\ versions[m][u].approved
                          /\ versions[m][v].parent = versions[m][u].parent
                          => v = u
  BY DEF LinearApprovals
<1>1. DOMAIN versions[m] = 1..Len(versions[m]) /\ Len(versions[m]) \in Nat
  BY LenProperties DEF RegistryInv, RegistryTypeOK
<1>2. CASE status[m] = "absent"
  <2>1. versions[m] = <<>>  BY <1>2 DEF RegistryInv, Lineage
  <2>2. DOMAIN versions[m] = {}  BY <2>1
  <2> QED  BY <1>2, <2>2
<1>3. CASE status[m] # "absent"
  <2>1. Line(versions[m], active[m])  BY <1>3 DEF RegistryInv, Lineage
  <2> DEFINE s == versions[m]
             a == active[m]
  <2>2. a \in DOMAIN s /\ s[a].approved  BY <1>1, <2>1 DEF Line
  <2>3. ASSUME NEW v \in DOMAIN s, s[v].approved, v # 1
        PROVE  s[v].parent \in 1 .. v - 1 /\ s[s[v].parent].approved
    BY <1>1, <2>1, <2>3 DEF Line
  <2>4. ASSUME NEW v \in DOMAIN s, NEW u \in DOMAIN s,
               s[v].approved, s[u].approved, s[v].parent = s[u].parent
        PROVE  v = u
    BY <1>1, <2>1, <2>4 DEF Line
  <2> QED  BY <2>2, <2>3, <2>4
<1> QED  BY <1>2, <1>3

-----------------------------------------------------------------------------
(* Theorems *)

\* The registry keeps its types, its schedule and its leases in order, and its
\* approved versions in one line, under every interleaving of claims, releases,
\* verdicts, lifecycle operations and the passing of time.
THEOREM RegistrySafety ==
    RegistrySpec => [](/\ RegistryTypeOK
                       /\ ScheduleMatchesStatus
                       /\ LeaseCanExpire
                       /\ LinearApprovals)
<1>1. RegistryInv => RegistryTypeOK /\ ScheduleMatchesStatus /\ LeaseCanExpire
  BY DEF RegistryInv
<1> QED  BY <1>1, InitRegistryInv, NextRegistryInv, LineageIsLinear, PTL DEF RegistrySpec

-----------------------------------------------------------------------------
(* Part 2: the runs *)

(***************************************************************************)
(* The inductive invariant.  FencedReadsAreCurrent is not inductive: the   *)
(* fence compares with the owner column, so it must be known that a call   *)
(* under way has a worker (and not NULL, which every lifecycle operation   *)
(* writes), and that a call about to give a verdict has one to give.       *)
(***************************************************************************)
RunnerTypeOK ==
    /\ task \in [Monitors -> [Generations -> TaskRow]]
    /\ runs \in [Monitors -> [Generations -> RunRow]]
    /\ items \in [Monitors -> Snapshots]
    /\ outbox \in [Monitors -> SUBSET Keys]

CallsHaveWorkers ==
    \A m \in Monitors, g \in Generations :
        /\ Live(m, g) => task[m][g].worker \in Workers
        /\ At(m, g, "transition") => task[m][g].verdict # "keep"

CurrentCall(m, g) ==
    /\ task[m][g].stage \in {"claimed", "loaded", "fetching", "diffed", "transition"} =>
           status[m] = "active"
    /\ task[m][g].stage \in {"loaded", "fetching", "diffed"} =>
           task[m][g].version = active[m]
    /\ task[m][g].stage \in {"fetching", "diffed"} =>
           runs[m][g] = [status |-> "running", version |-> task[m][g].version]
    /\ At(m, g, "diffed") => task[m][g].previous = items[m]

FencedCallsAreCurrent ==
    \A m \in Monitors, g \in Generations :
        Live(m, g) /\ Fenced(m, g) => CurrentCall(m, g)

RunnerInv ==
    RegistryInv /\ RunnerTypeOK /\ CallsHaveWorkers /\ FencedCallsAreCurrent

-----------------------------------------------------------------------------
(* Lemmas *)

LEMMA RowTypes ==
    /\ NoTask \in TaskRow /\ EndedTask \in TaskRow /\ NoRun \in RunRow
    /\ EndedTask.stage = "ended" /\ NoTask.stage = "none"
<1>1. EmptyBatch \in Batches  BY DEF EmptyBatch, Batches, Snapshots
<1>2. NoTask \in TaskRow /\ NoTask.stage = "none"
  BY <1>1, RegistryAssumption DEF NoTask, TaskRow, Stages, Verdicts, Snapshots
<1>3. EndedTask \in TaskRow /\ EndedTask.stage = "ended"
  BY <1>2 DEF EndedTask, TaskRow, Stages
<1>4. NoRun \in RunRow  BY RegistryAssumption DEF NoRun, RunRow
<1> QED  BY <1>2, <1>3, <1>4

\* What RunDecisions computes has the types of the tables it is written to.
LEMMA DecisionTypes ==
    ASSUME NEW previous \in Snapshots, NEW batch \in Batches
    PROVE  /\ CurrentItem(previous, batch) \in Snapshots
           /\ Candidates(previous, batch) \in SUBSET Keys
<1>1. CurrentItem(previous, batch) \in Snapshots  BY DEF CurrentItem, Batches
<1>2. MatchKeys(previous, CurrentItem(previous, batch)) \in SUBSET Keys
  <2> SUFFICES ASSUME NEW rule \in Rules, rule \in Matched(previous, CurrentItem(previous, batch))
               PROVE  DeliveryKey(rule, previous, CurrentItem(previous, batch)) \in Keys
    BY DEF MatchKeys, Matched
  <2>1. CurrentItem(previous, batch) \in Contents  BY <1>1 DEF Matched, Snapshots
  <2> QED  BY <2>1 DEF DeliveryKey, Keys
<1>3. WarningKey \in Keys /\ NoChangeKey \in Keys  BY DEF Keys
<1>4. Candidates(previous, batch) \in SUBSET Keys
  <2> DEFINE matches == MatchKeys(previous, CurrentItem(previous, batch))
             notice == CASE batch.warnings -> {WarningKey}
                         [] ~batch.warnings /\ matches = {} /\ NotifyNoChange -> {NoChangeKey}
                         [] OTHER -> {}
  <2>1. notice \in SUBSET Keys  BY <1>3
  <2>2. Candidates(previous, batch) = matches \cup notice  BY DEF Candidates
  <2> QED  BY <1>2, <2>1, <2>2
<1> QED  BY <1>1, <1>4

\* A lifecycle operation changes one monitor, and takes the lease from whoever
\* has it unless it leaves everything a call depends on alone.
LEMMA LifecycleFacts ==
    ASSUME RegistryInv, NEW m \in Monitors, LifecycleNext(m)
    PROVE  /\ \A n \in Monitors : n # m =>
                 /\ status'[n] = status[n] /\ active'[n] = active[n]
                 /\ owner'[n] = owner[n] /\ generation'[n] = generation[n]
           /\ \/ owner'[m] = NoWorker
              \/ /\ UNCHANGED <<owner, generation>>
                 /\ status'[m] = status[m] /\ active'[m] = active[m]
              \/ /\ UNCHANGED <<owner, generation>>
                 /\ status[m] = "absent"
<1> USE DEF RegistryInv, RegistryTypeOK
<1>1. SupersedeLease(m) => /\ owner'[m] = NoWorker
                           /\ \A n \in Monitors : n # m => owner'[n] = owner[n]
                                                        /\ generation'[n] = generation[n]
  BY DEF SupersedeLease
<1>2. CASE CreateMonitor(m)  BY <1>2 DEF CreateMonitor
<1>3. ASSUME NEW t, TransitionStatusExact(m, status[m], active[m], t)
      PROVE  /\ owner'[m] = NoWorker
             /\ \A n \in Monitors : n # m =>
                 /\ status'[n] = status[n] /\ active'[n] = active[n]
                 /\ owner'[n] = owner[n] /\ generation'[n] = generation[n]
  BY <1>1, <1>3 DEF TransitionStatusExact
<1>4. CASE SoftDeleteExact(m, status[m], active[m])  BY <1>1, <1>4 DEF SoftDeleteExact
<1>5. CASE StageCandidate(m, status[m], active[m])  BY <1>5 DEF StageCandidate
<1>6. CASE StoreCandidate(m, active[m])  BY <1>1, <1>6 DEF StoreCandidate
<1>7. ASSUME NEW c, NEW author, NEW t,
             ActivateCandidateExact(m, c, author, status[m], active[m], t)
      PROVE  /\ owner'[m] = NoWorker
             /\ \A n \in Monitors : n # m =>
                 /\ status'[n] = status[n] /\ active'[n] = active[n]
                 /\ owner'[n] = owner[n] /\ generation'[n] = generation[n]
  BY <1>1, <1>7 DEF ActivateCandidateExact
<1> HIDE DEF RegistryInv, RegistryTypeOK
<1> QED  BY <1>2, <1>3, <1>4, <1>5, <1>6, <1>7 DEF LifecycleNext

\* What a run does to the registry is a claim, a release or a verdict.
LEMMA RunsUseLeases ==
    ASSUME RunnerInv,
           \/ \E w \in Workers : SchedulerTick(w)
           \/ \E w \in Workers, m \in Monitors : RunOnce(w, m)
           \/ \E m \in Monitors, g \in Generations : Step(m, g) \/ Interrupt(m, g)
    PROVE  LeaseNext \/ UNCHANGED registryVars
<1>1. ASSUME NEW w \in Workers, SchedulerTick(w)  PROVE LeaseNext
  BY <1>1 DEF SchedulerTick, LeaseNext
<1>2. ASSUME NEW w \in Workers, NEW m \in Monitors, RunOnce(w, m)  PROVE LeaseNext
  BY <1>2 DEF RunOnce, LeaseNext
<1>3. ASSUME NEW m \in Monitors, NEW g \in Generations, Step(m, g)
      PROVE  LeaseNext \/ UNCHANGED registryVars
  <2>1. CASE MoveStatus(m, g)
    <3>1. /\ task[m][g].worker \in Workers
          /\ task[m][g].verdict \in {"paused_auth", "needs_review"}
      BY <2>1 DEF MoveStatus, At, Live, RunnerInv, RunnerTypeOK, CallsHaveWorkers,
                  TaskRow, Verdicts
    <3>2. g \in 1..MaxGeneration  BY DEF Generations
    <3>3. \/ TransitionMonitorStatus(m, task[m][g].worker, g, "active", task[m][g].verdict)
          \/ UNCHANGED registryVars
      BY <2>1 DEF MoveStatus
    <3> QED  BY <3>1, <3>2, <3>3 DEF LeaseNext
  <2>2. CASE Release(m, g)
    <3>1. task[m][g].worker \in Workers
      BY <2>2 DEF Release, At, Live, RunnerInv, CallsHaveWorkers
    <3>2. g \in 1..MaxGeneration  BY DEF Generations
    <3>3. \/ \E d \in CronDelays : ReleaseLease(m, task[m][g].worker, g, d)
          \/ UNCHANGED registryVars
      BY <2>2 DEF Release
    <3> QED  BY <3>1, <3>2, <3>3 DEF LeaseNext
  <2> QED
    BY <1>3, <2>1, <2>2 DEF Step, LoadActive, StartRun, FetchAndDiff, FetchFails, Apply,
                            FinishRun
<1>4. ASSUME NEW m \in Monitors, NEW g \in Generations, Interrupt(m, g)
      PROVE  UNCHANGED registryVars
  BY <1>4 DEF Interrupt, NeverStarted, Cancel
<1> QED  BY <1>1, <1>2, <1>3, <1>4

\* Every step of the runner is a registry step, or leaves the registry alone.
LEMMA RunnerStepsRegistry ==
    ASSUME RunnerInv, [RunnerNext]_runnerVars
    PROVE  [RegistryNext]_registryVars
<1>1. LeaseNext => RegistryNext  BY DEF RegistryNext
<1>2. ASSUME NEW w \in Workers, RunnerCrash(w)  PROVE UNCHANGED registryVars
  BY <1>2 DEF RunnerCrash
<1>3. ASSUME NEW m \in Monitors, Operate(m)  PROVE RegistryNext
  BY <1>3 DEF Operate, RegistryNext
<1>4. CASE RunnerTick  BY <1>4 DEF RunnerTick, RegistryNext
<1>5. CASE UNCHANGED runnerVars  BY <1>5 DEF runnerVars
<1> QED  BY <1>1, <1>2, <1>3, <1>4, <1>5, RunsUseLeases DEF RunnerNext

-----------------------------------------------------------------------------
(* Preservation *)

RunnerRest == RunnerTypeOK /\ CallsHaveWorkers /\ FencedCallsAreCurrent

(***************************************************************************)
(* One call moves on.  It may change the snapshot and the status of its    *)
(* monitor only while fenced, and then every other call of that monitor,   *)
(* being of another generation, is not.                                    *)
(***************************************************************************)
LEMMA CallStep ==
    ASSUME RunnerInv, NEW m \in Monitors, NEW g \in Generations, NEW row \in TaskRow,
           task' = [task EXCEPT ![m][g] = row],
           row.stage \notin {"none", "ended"} => row.worker \in Workers,
           row.stage = "transition" => row.verdict # "keep",
           runs' \in [Monitors -> [Generations -> RunRow]],
           items' \in [Monitors -> Snapshots],
           outbox' \in [Monitors -> SUBSET Keys],
           \A n \in Monitors, h \in Generations : n # m \/ h # g => runs'[n][h] = runs[n][h],
           \A n \in Monitors : n # m => /\ items'[n] = items[n] /\ status'[n] = status[n]
                                        /\ active'[n] = active[n] /\ owner'[n] = owner[n]
                                        /\ generation'[n] = generation[n],
           active'[m] = active[m], generation'[m] = generation[m],
           owner'[m] \in {owner[m], NoWorker},
           Fenced(m, g) \/ (items'[m] = items[m] /\ status'[m] = status[m]),
           Live(m, g)' /\ Fenced(m, g)' => CurrentCall(m, g)'
    PROVE  RunnerRest'
<1> USE DEF RunnerInv
<1>1. /\ task'[m][g] = row
      /\ \A n \in Monitors, h \in Generations : n # m \/ h # g => task'[n][h] = task[n][h]
      /\ task' \in [Monitors -> [Generations -> TaskRow]]
  BY DEF RunnerTypeOK
<1>2. RunnerTypeOK'  BY <1>1 DEF RunnerTypeOK
<1>3. CallsHaveWorkers'
  <2> SUFFICES ASSUME NEW n \in Monitors, NEW h \in Generations
               PROVE  /\ Live(n, h)' => task'[n][h].worker \in Workers
                      /\ At(n, h, "transition")' => task'[n][h].verdict # "keep"
    BY DEF CallsHaveWorkers
  <2>1. CASE n = m /\ h = g  BY <1>1, <2>1 DEF Live, At
  <2>2. CASE n # m \/ h # g  BY <1>1, <2>2 DEF Live, At, CallsHaveWorkers
  <2> QED  BY <2>1, <2>2
<1>4. FencedCallsAreCurrent'
  <2> SUFFICES ASSUME NEW n \in Monitors, NEW h \in Generations,
                      Live(n, h)', Fenced(n, h)'
               PROVE  CurrentCall(n, h)'
    BY DEF FencedCallsAreCurrent
  <2>1. CASE n = m /\ h = g  BY <2>1
  <2>2. CASE n # m \/ h # g
    <3>1. task'[n][h] = task[n][h] /\ runs'[n][h] = runs[n][h]  BY <1>1, <2>2
    <3>2. Live(n, h) /\ task[n][h].worker \in Workers
      BY <3>1 DEF Live, CallsHaveWorkers
    <3>3. Fenced(n, h)
      BY <3>1, <3>2, RegistryAssumption DEF Fenced, HoldsLease
    <3>4. items'[n] = items[n] /\ status'[n] = status[n] /\ active'[n] = active[n]
      BY <2>2, <3>3 DEF Fenced, HoldsLease
    <3>5. CurrentCall(n, h)  BY <3>2, <3>3 DEF FencedCallsAreCurrent
    <3> QED  BY <3>1, <3>4, <3>5 DEF CurrentCall, At
  <2> QED  BY <2>1, <2>2
<1> QED  BY <1>2, <1>3, <1>4 DEF RunnerRest

\* A claim starts a call of a generation that no earlier call has.
LEMMA ClaimStep ==
    ASSUME RunnerInv, NEW w \in Workers, NEW S \in SUBSET Monitors,
           TakeLeases(S, w), NewTasks(S, w),
           \A m \in S : status[m] = "active" /\ generation[m] < MaxGeneration,
           UNCHANGED <<runs, items, outbox>>
    PROVE  RunnerRest'
<1> USE DEF RunnerInv
<1> DEFINE row == [NoTask EXCEPT !.stage = "claimed", !.worker = w]
<1>1. row \in TaskRow /\ row.stage = "claimed" /\ row.worker = w
  BY RowTypes DEF NoTask, TaskRow, Stages
<1>2. \A m \in S : generation[m] + 1 \in Generations
  BY RegistryAssumption DEF RegistryInv, RegistryTypeOK, Generations
<1> HIDE DEF row
<1>3. /\ \A m \in S : task'[m] = [task[m] EXCEPT ![generation[m] + 1] = row]
      /\ \A m \in Monitors \ S : task'[m] = task[m]
      /\ task' \in [Monitors -> [Generations -> TaskRow]]
  BY <1>1, <1>2 DEF NewTasks, RunnerTypeOK, row
<1>4. \A m \in S, g \in Generations :
          task'[m][g] = IF g = generation[m] + 1 THEN row ELSE task[m][g]
  <2> SUFFICES ASSUME NEW m \in S, NEW g \in Generations
               PROVE  task'[m][g] = IF g = generation[m] + 1 THEN row ELSE task[m][g]
    OBVIOUS
  <2>1. task[m] \in [Generations -> TaskRow]  BY DEF RunnerTypeOK
  <2>2. task'[m] = [task[m] EXCEPT ![generation[m] + 1] = row]  BY <1>3
  <2> QED  BY <2>1, <2>2
<1>5. RunnerTypeOK'  BY <1>3 DEF RunnerTypeOK
<1>6. CallsHaveWorkers'
  BY <1>1, <1>3, <1>4 DEF CallsHaveWorkers, Live, At
<1>7. ASSUME NEW m \in Monitors, NEW g \in Generations, Live(m, g)', Fenced(m, g)'
      PROVE  CurrentCall(m, g)'
  <2>1. CASE m \in S
    <3>1. generation'[m] = generation[m] + 1 /\ status'[m] = "active"
      BY <2>1 DEF TakeLeases
    <3>2. g = generation[m] + 1  BY <1>7, <3>1 DEF Fenced, HoldsLease
    <3>3. task'[m][g] = row  BY <1>4, <2>1, <3>2
    <3> QED  BY <1>1, <3>1, <3>3 DEF CurrentCall, At
  <2>2. CASE m \notin S
    <3>1. /\ task'[m] = task[m] /\ owner'[m] = owner[m] /\ generation'[m] = generation[m]
          /\ status'[m] = status[m] /\ active'[m] = active[m]
          /\ runs'[m] = runs[m] /\ items'[m] = items[m]
      BY <1>3, <2>2 DEF TakeLeases
    <3>2. Live(m, g) /\ Fenced(m, g)  BY <1>7, <3>1 DEF Live, Fenced, HoldsLease
    <3>3. CurrentCall(m, g)  BY <3>2 DEF FencedCallsAreCurrent
    <3> QED  BY <3>1, <3>3 DEF CurrentCall, At
  <2> QED  BY <2>1, <2>2
<1>8. FencedCallsAreCurrent'  BY <1>7 DEF FencedCallsAreCurrent
<1> QED  BY <1>5, <1>6, <1>8 DEF RunnerRest

\* A lifecycle operation leaves the calls of its monitor without the lease, or
\* changes nothing they have read.
LEMMA OperateStep ==
    ASSUME RunnerInv, NEW m \in Monitors, Operate(m)
    PROVE  RunnerRest'
<1> USE DEF RunnerInv
<1>1. LifecycleNext(m) /\ UNCHANGED <<task, runs, items, outbox>>
  BY DEF Operate, taskVars
<1>2. RunnerTypeOK' /\ CallsHaveWorkers'
  BY <1>1 DEF RunnerTypeOK, CallsHaveWorkers, Live, At
<1>3. ASSUME NEW n \in Monitors, NEW g \in Generations, Live(n, g)', Fenced(n, g)'
      PROVE  CurrentCall(n, g)'
  <2>1. Live(n, g) /\ task[n][g].worker \in Workers
    BY <1>1, <1>3 DEF Live, CallsHaveWorkers
  <2>2. CASE n # m
    <3>1. /\ status'[n] = status[n] /\ active'[n] = active[n]
          /\ owner'[n] = owner[n] /\ generation'[n] = generation[n]
      BY <1>1, <2>2, LifecycleFacts
    <3>2. CurrentCall(n, g)
      BY <1>1, <1>3, <2>1, <3>1 DEF Fenced, HoldsLease, FencedCallsAreCurrent
    <3> QED  BY <1>1, <3>1, <3>2 DEF CurrentCall, At
  <2>3. CASE n = m
    <3>1. owner'[m] # NoWorker
      BY <1>1, <1>3, <2>1, <2>3, RegistryAssumption DEF Fenced, HoldsLease
    <3>2. owner'[m] = owner[m] /\ generation'[m] = generation[m]
      BY <1>1, <3>1, LifecycleFacts
    <3>3. CurrentCall(m, g)
      BY <1>1, <1>3, <2>1, <2>3, <3>2 DEF Fenced, HoldsLease, FencedCallsAreCurrent
    <3>4. CASE status'[m] = status[m] /\ active'[m] = active[m]
      BY <1>1, <2>3, <3>3, <3>4 DEF CurrentCall, At
    <3>5. CASE status[m] = "absent"
      BY <1>1, <2>3, <3>3, <3>5 DEF CurrentCall, At
    <3> QED  BY <1>1, <3>1, <3>4, <3>5, LifecycleFacts
  <2> QED  BY <2>2, <2>3
<1>4. FencedCallsAreCurrent'  BY <1>3 DEF FencedCallsAreCurrent
<1> QED  BY <1>2, <1>4 DEF RunnerRest

\* A crash ends calls and changes nothing else.
LEMMA CrashStep ==
    ASSUME RunnerInv, NEW w \in Workers, RunnerCrash(w)
    PROVE  RunnerRest'
<1> USE DEF RunnerInv
<1>1. UNCHANGED <<status, active, owner, generation, runs, items, outbox>>
  BY DEF RunnerCrash, registryVars
<1>2. \A m \in Monitors, g \in Generations : task'[m][g] \in {task[m][g], EndedTask}
  BY DEF RunnerCrash
<1>3. task' \in [Monitors -> [Generations -> TaskRow]]
  BY RowTypes DEF RunnerCrash, RunnerTypeOK
<1>4. RunnerTypeOK'  BY <1>1, <1>3 DEF RunnerTypeOK
<1>5. \A m \in Monitors, g \in Generations :
          Live(m, g)' => task'[m][g] = task[m][g] /\ Live(m, g)
  BY <1>2, RowTypes DEF Live
<1>6. CallsHaveWorkers'
  BY <1>2, <1>5, RowTypes DEF CallsHaveWorkers, Live, At
<1>7. FencedCallsAreCurrent'
  BY <1>1, <1>5 DEF FencedCallsAreCurrent, Fenced, HoldsLease, CurrentCall, At
<1> QED  BY <1>4, <1>6, <1>7 DEF RunnerRest

\* The rows a call moves to.
LEMMA RowOfStage ==
    ASSUME RunnerTypeOK, NEW m \in Monitors, NEW g \in Generations, NEW s \in Stages,
           Goto(m, g, s)
    PROVE  \E row \in TaskRow :
              /\ task' = [task EXCEPT ![m][g] = row]
              /\ row = [task[m][g] EXCEPT !.stage = s]
              /\ row.stage = s /\ row.worker = task[m][g].worker
              /\ row.version = task[m][g].version /\ row.verdict = task[m][g].verdict
              /\ row.previous = task[m][g].previous
<1> DEFINE row == [task[m][g] EXCEPT !.stage = s]
<1>1. task[m][g] \in TaskRow  BY DEF RunnerTypeOK
<1>2. row \in TaskRow  BY <1>1 DEF TaskRow
<1>3. task' = [task EXCEPT ![m][g] = row]  BY DEF Goto
<1>4. /\ row.stage = s /\ row.worker = task[m][g].worker
      /\ row.version = task[m][g].version /\ row.verdict = task[m][g].verdict
      /\ row.previous = task[m][g].previous
  BY <1>1 DEF TaskRow
<1> QED  BY <1>2, <1>3, <1>4

LEMMA RowOfVerdict ==
    ASSUME RunnerTypeOK, NEW m \in Monitors, NEW g \in Generations, NEW v \in Verdicts,
           Complete(m, g, v)
    PROVE  \E row \in TaskRow :
              /\ task' = [task EXCEPT ![m][g] = row]
              /\ row.stage = IF v = "keep" THEN "finish" ELSE "transition"
              /\ row.worker = task[m][g].worker
              /\ row.verdict = v
<1> DEFINE row == [NoTask EXCEPT !.stage = IF v = "keep" THEN "finish" ELSE "transition",
                                 !.worker = task[m][g].worker,
                                 !.verdict = v]
<1>1. task[m][g] \in TaskRow  BY DEF RunnerTypeOK
<1>2. task[m][g].worker \in Workers \cup {NoWorker}  BY <1>1 DEF TaskRow
<1>3. row \in TaskRow  BY <1>2, RowTypes DEF NoTask, TaskRow, Stages
<1>4. task' = [task EXCEPT ![m][g] = row]  BY DEF Complete
<1>5. /\ row.stage = IF v = "keep" THEN "finish" ELSE "transition"
      /\ row.worker = task[m][g].worker /\ row.verdict = v
  BY RowTypes DEF NoTask
<1> QED  BY <1>3, <1>4, <1>5

LEMMA EndStep ==
    ASSUME RunnerInv, NEW m \in Monitors, NEW g \in Generations, End(m, g),
           UNCHANGED <<status, active, generation, runs, items, outbox>>,
           \A n \in Monitors : n # m => owner'[n] = owner[n],
           owner'[m] \in {owner[m], NoWorker}
    PROVE  RunnerRest'
<1>1. task' = [task EXCEPT ![m][g] = EndedTask]  BY DEF End
<1>2. ~Live(m, g)'  BY <1>1, RowTypes DEF Live, RunnerInv, RunnerTypeOK
<1> QED  BY <1>1, <1>2, RowTypes, CallStep DEF RunnerInv, RunnerTypeOK

LEMMA StepOfCall ==
    ASSUME RunnerInv, NEW m \in Monitors, NEW g \in Generations,
           Step(m, g) \/ Interrupt(m, g)
    PROVE  RunnerRest'
<1> USE DEF RunnerInv
<1>0. task[m][g] \in TaskRow /\ task[m] \in [Generations -> TaskRow]
  BY DEF RunnerTypeOK
<1>w. Live(m, g) => task[m][g].worker \in Workers  BY DEF CallsHaveWorkers
<1>c. Live(m, g) /\ Fenced(m, g) => CurrentCall(m, g)  BY DEF FencedCallsAreCurrent
<1>r. registryVars' = registryVars =>
         /\ UNCHANGED <<status, active, owner, generation>>
         /\ \A n \in Monitors : n # m =>
                /\ status'[n] = status[n] /\ active'[n] = active[n]
                /\ owner'[n] = owner[n] /\ generation'[n] = generation[n]
  BY DEF registryVars
<1>1. CASE LoadActive(m, g)
  <2> DEFINE row == [task[m][g] EXCEPT !.stage = "loaded", !.version = active[m]]
  <2>1. /\ row \in TaskRow /\ row.stage = "loaded" /\ row.version = active[m]
        /\ row.worker = task[m][g].worker
    BY <1>0 DEF TaskRow, Stages, RegistryInv, RegistryTypeOK
  <2>2. Live(m, g) /\ At(m, g, "claimed")  BY <1>1 DEF LoadActive, At, Live
  <2>3. task' = [task EXCEPT ![m][g] = row]
    BY <1>0, <1>1 DEF LoadActive, RunnerTypeOK
  <2>4. UNCHANGED <<status, active, owner, generation, runs, items, outbox>>
    BY <1>1, <1>r DEF LoadActive
  <2> HIDE DEF row
  <2>5. task'[m][g] = row  BY <2>3, <1>0 DEF RunnerTypeOK
  <2>6. Fenced(m, g)' => CurrentCall(m, g)'
    BY <1>c, <2>1, <2>2, <2>4, <2>5 DEF Fenced, HoldsLease, CurrentCall, At
  <2> QED  BY <1>w, <2>1, <2>2, <2>3, <2>4, <2>6, CallStep DEF RunnerTypeOK
<1>2. CASE StartRun(m, g) /\ Fenced(m, g)
  <2>1. PICK row \in TaskRow :
           /\ task' = [task EXCEPT ![m][g] = row]
           /\ row.stage = "fetching" /\ row.worker = task[m][g].worker
           /\ row.version = task[m][g].version
    BY <1>2, RowOfStage DEF StartRun, Stages
  <2> DEFINE run == [status |-> "running", version |-> task[m][g].version]
  <2>2. run \in RunRow  BY <1>0 DEF RunRow, TaskRow
  <2>3. runs' = [runs EXCEPT ![m][g] = run] /\ UNCHANGED <<items, outbox>>
    BY <1>2 DEF StartRun
  <2>4. UNCHANGED <<status, active, owner, generation>>  BY <1>2, <1>r DEF StartRun
  <2> HIDE DEF run
  <2>5. /\ runs' \in [Monitors -> [Generations -> RunRow]] /\ runs'[m][g] = run
        /\ \A n \in Monitors, h \in Generations : n # m \/ h # g => runs'[n][h] = runs[n][h]
    BY <2>2, <2>3 DEF RunnerTypeOK
  <2>6. Live(m, g) /\ At(m, g, "loaded")  BY <1>2 DEF StartRun, At, Live
  <2>7. task'[m][g] = row  BY <2>1, <1>0 DEF RunnerTypeOK
  <2>8. CurrentCall(m, g)'
    BY <1>2, <1>c, <2>1, <2>4, <2>5, <2>6, <2>7 DEF CurrentCall, At, run
  <2>9. items' \in [Monitors -> Snapshots] /\ outbox' \in [Monitors -> SUBSET Keys]
    BY <2>3 DEF RunnerTypeOK
  <2>10. row.worker \in Workers  BY <1>w, <2>1, <2>6
  <2>11. /\ \A n \in Monitors : n # m => /\ items'[n] = items[n] /\ status'[n] = status[n]
                                          /\ active'[n] = active[n] /\ owner'[n] = owner[n]
                                          /\ generation'[n] = generation[n]
         /\ active'[m] = active[m] /\ generation'[m] = generation[m]
         /\ owner'[m] \in {owner[m], NoWorker}
         /\ items'[m] = items[m] /\ status'[m] = status[m]
    BY <2>3, <2>4
  <2> HIDE DEF RunnerInv
  <2> QED  BY <2>1, <2>5, <2>8, <2>9, <2>10, <2>11, CallStep
<1>3. CASE StartRun(m, g) /\ ~Fenced(m, g)
  <2>1. End(m, g) /\ UNCHANGED <<status, active, owner, generation, runs, items, outbox>>
    BY <1>3, <1>r DEF StartRun
  <2> QED  BY <2>1, EndStep
<1>4. ASSUME NEW batch \in Batches, FetchAndDiff(m, g, batch)  PROVE RunnerRest'
  <2> DEFINE row == [task[m][g] EXCEPT !.stage = "diffed", !.batch = batch,
                                       !.previous = items[m]]
  <2>1. /\ row \in TaskRow /\ row.stage = "diffed" /\ row.previous = items[m]
        /\ row.worker = task[m][g].worker /\ row.version = task[m][g].version
    BY <1>0 DEF TaskRow, Stages, RunnerTypeOK
  <2>2. Live(m, g) /\ At(m, g, "fetching")  BY <1>4 DEF FetchAndDiff, At, Live
  <2>3. task' = [task EXCEPT ![m][g] = row]
    BY <1>0, <1>4 DEF FetchAndDiff, RunnerTypeOK
  <2>4. UNCHANGED <<status, active, owner, generation, runs, items, outbox>>
    BY <1>4, <1>r DEF FetchAndDiff
  <2> HIDE DEF row
  <2>5. task'[m][g] = row  BY <2>3, <1>0 DEF RunnerTypeOK
  <2>6. Fenced(m, g)' => CurrentCall(m, g)'
    BY <1>c, <2>1, <2>2, <2>4, <2>5 DEF Fenced, HoldsLease, CurrentCall, At
  <2> QED  BY <1>w, <2>1, <2>2, <2>3, <2>4, <2>6, CallStep DEF RunnerTypeOK
<1>5. ASSUME NEW v \in Verdicts, Complete(m, g, v), Live(m, g),
             task[m][g].stage \in {"fetching", "diffed"},
             UNCHANGED <<status, active, owner, generation, runs, outbox, items>>
      PROVE  RunnerRest'
  <2>1. PICK row \in TaskRow :
           /\ task' = [task EXCEPT ![m][g] = row]
           /\ row.stage = IF v = "keep" THEN "finish" ELSE "transition"
           /\ row.worker = task[m][g].worker /\ row.verdict = v
    BY <1>5, RowOfVerdict
  <2>2. task'[m][g] = row  BY <2>1, <1>0 DEF RunnerTypeOK
  <2>3. Fenced(m, g)' => CurrentCall(m, g)'
    BY <1>c, <1>5, <2>1, <2>2 DEF Fenced, HoldsLease, CurrentCall, At
  <2> QED  BY <1>w, <1>5, <2>1, <2>3, CallStep DEF RunnerTypeOK
<1>6. CASE FetchFails(m, g)
  BY <1>5, <1>6, <1>r DEF FetchFails, At, Live
<1>7. CASE Cancel(m, g)
  <2>1. "keep" \in Verdicts  BY DEF Verdicts
  <2> QED  BY <1>5, <1>7, <1>r, <2>1 DEF Cancel, At, Live
<1>8. CASE NeverStarted(m, g)
  <2>1. End(m, g) /\ UNCHANGED <<status, active, owner, generation, runs, items, outbox>>
    BY <1>8, <1>r DEF NeverStarted
  <2> QED  BY <2>1, EndStep
<1>9. CASE Apply(m, g)
  <2>1. /\ Live(m, g) /\ At(m, g, "diffed") /\ UNCHANGED runs
        /\ UNCHANGED <<status, active, owner, generation>>
    BY <1>9, <1>r DEF Apply, At, Live
  <2>2. PICK commit \in MayCommit(m, g) :
           IF commit
           THEN /\ items' = [items EXCEPT ![m] = CurrentItem(@, task[m][g].batch)]
                /\ outbox' = [outbox EXCEPT ![m] = @ \cup
                                 Candidates(task[m][g].previous, task[m][g].batch)]
                /\ Complete(m, g, "keep")
           ELSE Complete(m, g, "needs_review") /\ UNCHANGED <<items, outbox>>
    BY <1>9 DEF Apply
  <2>3. CASE ~commit
    <3>1. "needs_review" \in Verdicts  BY DEF Verdicts
    <3> QED  BY <1>5, <2>1, <2>2, <2>3, <3>1 DEF At
  <2>4. CASE commit
    <3>1. Fenced(m, g)  BY <2>2, <2>4 DEF MayCommit
    <3>2. /\ task[m][g].batch \in Batches /\ task[m][g].previous \in Snapshots
          /\ items[m] \in Snapshots
      BY <1>0 DEF TaskRow, RunnerTypeOK
    <3>3. /\ items' \in [Monitors -> Snapshots]
          /\ \A n \in Monitors : n # m => items'[n] = items[n]
      BY <2>2, <2>4, <3>2, DecisionTypes DEF RunnerTypeOK
    <3>4. outbox' \in [Monitors -> SUBSET Keys]
      BY <2>2, <2>4, <3>2, DecisionTypes DEF RunnerTypeOK
    <3>5. "keep" \in Verdicts  BY DEF Verdicts
    <3>6. PICK row \in TaskRow :
             /\ task' = [task EXCEPT ![m][g] = row]
             /\ row.stage = "finish" /\ row.worker = task[m][g].worker
      BY <2>2, <2>4, <3>5, RowOfVerdict
    <3>7. task'[m][g] = row  BY <3>6, <1>0 DEF RunnerTypeOK
    <3>8. CurrentCall(m, g)'  BY <3>6, <3>7 DEF CurrentCall, At
    <3> QED
      BY <1>w, <2>1, <3>1, <3>3, <3>4, <3>6, <3>8, CallStep DEF RunnerTypeOK
  <2> QED  BY <2>3, <2>4
<1>10. CASE MoveStatus(m, g)
  <2> DEFINE row == [task[m][g] EXCEPT !.stage = "finish", !.verdict = "keep"]
  <2>1. /\ row \in TaskRow /\ row.stage = "finish" /\ row.worker = task[m][g].worker
    BY <1>0 DEF TaskRow, Stages, Verdicts
  <2>2. task' = [task EXCEPT ![m][g] = row]
    BY <1>0, <1>10 DEF MoveStatus, RunnerTypeOK
  <2>3. Live(m, g) /\ UNCHANGED <<runs, items, outbox>>
    BY <1>10 DEF MoveStatus, At, Live
  <2>4. /\ UNCHANGED <<active, owner, generation>>
        /\ \A n \in Monitors : n # m => status'[n] = status[n]
        /\ Fenced(m, g) \/ status'[m] = status[m]
    BY <1>10, <1>r DEF MoveStatus, TransitionMonitorStatus, Fenced, RegistryInv, RegistryTypeOK
  <2> HIDE DEF row
  <2>5. task'[m][g] = row  BY <2>2, <1>0 DEF RunnerTypeOK
  <2>6. CurrentCall(m, g)'  BY <2>1, <2>5 DEF CurrentCall, At
  <2> QED  BY <1>w, <2>1, <2>2, <2>3, <2>4, <2>6, CallStep DEF RunnerTypeOK
<1>11. CASE FinishRun(m, g)
  <2>1. Live(m, g) /\ UNCHANGED <<items, outbox>> /\ UNCHANGED <<status, active, owner, generation>>
    BY <1>11, <1>r DEF FinishRun, At, Live
  <2>2. PICK row \in TaskRow :
           /\ task' = [task EXCEPT ![m][g] = row]
           /\ row.stage = "release" /\ row.worker = task[m][g].worker
    BY <1>11, RowOfStage DEF FinishRun, Stages
  <2> DEFINE run == [runs[m][g] EXCEPT !.status = "finished"]
  <2>3. runs \in [Monitors -> [Generations -> RunRow]] /\ run \in RunRow
    <3>1. runs \in [Monitors -> [Generations -> RunRow]]  BY DEF RunnerTypeOK
    <3>2. runs[m][g] \in RunRow  BY <3>1
    <3> QED  BY <3>1, <3>2 DEF RunRow
  <2>4. runs' = [runs EXCEPT ![m][g] = run] \/ runs' = runs
    BY <1>11 DEF FinishRun, RunnerTypeOK
  <2> HIDE DEF run
  <2>5. /\ runs' \in [Monitors -> [Generations -> RunRow]]
        /\ \A n \in Monitors, h \in Generations : n # m \/ h # g => runs'[n][h] = runs[n][h]
    <3>1. CASE runs' = runs  BY <2>3, <3>1
    <3>2. CASE runs' = [runs EXCEPT ![m][g] = run]  BY <2>3, <3>2
    <3> QED  BY <2>4, <3>1, <3>2
  <2>6. task'[m][g] = row  BY <2>2, <1>0 DEF RunnerTypeOK
  <2>7. CurrentCall(m, g)'  BY <2>2, <2>6 DEF CurrentCall, At
  <2> QED  BY <1>w, <2>1, <2>2, <2>5, <2>7, CallStep DEF RunnerTypeOK
<1>12. CASE Release(m, g)
  <2>1. /\ End(m, g) /\ UNCHANGED <<runs, items, outbox>>
        /\ UNCHANGED <<status, active, generation>>
        /\ owner' = [owner EXCEPT ![m] = NoWorker] \/ owner' = owner
    BY <1>12, <1>r DEF Release, ReleaseLease
  <2>2. /\ \A n \in Monitors : n # m => owner'[n] = owner[n]
        /\ owner'[m] \in {owner[m], NoWorker}
    BY <2>1 DEF RegistryInv, RegistryTypeOK
  <2> QED  BY <2>1, <2>2, EndStep
<1> QED
  BY <1>1, <1>2, <1>3, <1>4, <1>6, <1>7, <1>8, <1>9, <1>10, <1>11, <1>12
  DEF Step, Interrupt

LEMMA InitRunnerInv == RunnerInit => RunnerInv
<1> SUFFICES ASSUME RunnerInit PROVE RunnerInv
  OBVIOUS
<1>1. RegistryInv  BY InitRegistryInv DEF RunnerInit
<1>2. RunnerTypeOK  BY RowTypes DEF RunnerInit, RunnerTypeOK, Snapshots
<1>3. \A m \in Monitors, g \in Generations : ~Live(m, g) /\ ~At(m, g, "transition")
  BY RowTypes DEF RunnerInit, Live, At
<1>4. CallsHaveWorkers /\ FencedCallsAreCurrent
  BY <1>3 DEF CallsHaveWorkers, FencedCallsAreCurrent
<1> QED  BY <1>1, <1>2, <1>4 DEF RunnerInv

LEMMA NextRunnerInv == RunnerInv /\ [RunnerNext]_runnerVars => RunnerInv'
<1> SUFFICES ASSUME RunnerInv, [RunnerNext]_runnerVars PROVE RunnerInv'
  OBVIOUS
<1>1. RegistryInv'  BY RunnerStepsRegistry, NextRegistryInv DEF RunnerInv
<1>2. RunnerRest'
  <2>1. ASSUME NEW w \in Workers, SchedulerTick(w)  PROVE RunnerRest'
    <3>1. /\ DueMonitors \in SUBSET Monitors /\ TakeLeases(DueMonitors, w)
          /\ NewTasks(DueMonitors, w) /\ UNCHANGED <<runs, items, outbox>>
      BY <2>1 DEF SchedulerTick, ClaimDue, DueMonitors
    <3>2. \A m \in DueMonitors : status[m] = "active" /\ generation[m] < MaxGeneration
      BY DEF DueMonitors, Due
    <3> QED  BY <3>1, <3>2, ClaimStep
  <2>2. ASSUME NEW w \in Workers, NEW m \in Monitors, RunOnce(w, m)  PROVE RunnerRest'
    <3>1. /\ {m} \in SUBSET Monitors /\ TakeLeases({m}, w) /\ NewTasks({m}, w)
          /\ UNCHANGED <<runs, items, outbox>>
      BY <2>2 DEF RunOnce, ClaimMonitor
    <3>2. \A n \in {m} : status[n] = "active" /\ generation[n] < MaxGeneration
      BY <2>2 DEF RunOnce, ClaimMonitor
    <3> QED  BY <3>1, <3>2, ClaimStep
  <2>3. CASE RunnerTick
    <3>1. /\ UNCHANGED <<status, active, owner, generation>>
          /\ UNCHANGED <<task, runs, items, outbox>>
      BY <2>3 DEF RunnerTick, TickRegistry, taskVars
    <3> QED
      BY <3>1 DEF RunnerInv, RunnerRest, RunnerTypeOK, CallsHaveWorkers, FencedCallsAreCurrent,
                  CurrentCall, Live, At, Fenced, HoldsLease
  <2>4. CASE UNCHANGED runnerVars
    <3>1. /\ UNCHANGED <<status, active, owner, generation>>
          /\ UNCHANGED <<task, runs, items, outbox>>
      BY <2>4 DEF runnerVars, registryVars, taskVars
    <3> QED
      BY <3>1 DEF RunnerInv, RunnerRest, RunnerTypeOK, CallsHaveWorkers, FencedCallsAreCurrent,
                  CurrentCall, Live, At, Fenced, HoldsLease
  <2> QED  BY <2>1, <2>2, <2>3, <2>4, CrashStep, StepOfCall, OperateStep DEF RunnerNext
<1> QED  BY <1>1, <1>2 DEF RunnerInv, RunnerRest

-----------------------------------------------------------------------------
(* What a step may write *)

\* Only a fenced apply_snapshot_and_deliveries writes a snapshot or the outbox.
LEMMA WhoObserves ==
    ASSUME RunnerInv, [RunnerNext]_runnerVars, ~ UNCHANGED <<items, outbox>>
    PROVE  \E m \in Monitors, g \in Generations :
              /\ Live(m, g) /\ At(m, g, "diffed") /\ Fenced(m, g)
              /\ items' = [items EXCEPT ![m] = CurrentItem(@, task[m][g].batch)]
              /\ outbox' = [outbox EXCEPT ![m] = @ \cup
                               Candidates(task[m][g].previous, task[m][g].batch)]
              /\ UNCHANGED registryVars /\ UNCHANGED runs
<1>1. PICK m \in Monitors, g \in Generations : Apply(m, g)
  <2>1. \A w \in Workers : SchedulerTick(w) \/ RunnerCrash(w) => UNCHANGED <<items, outbox>>
    BY DEF SchedulerTick, RunnerCrash
  <2>2. \A w \in Workers, m \in Monitors : RunOnce(w, m) => UNCHANGED <<items, outbox>>
    BY DEF RunOnce
  <2>3. \A m \in Monitors, g \in Generations :
            Step(m, g) \/ Interrupt(m, g) => Apply(m, g) \/ UNCHANGED <<items, outbox>>
    <3> SUFFICES ASSUME NEW m \in Monitors, NEW g \in Generations,
                        Step(m, g) \/ Interrupt(m, g), ~ Apply(m, g)
                 PROVE  UNCHANGED <<items, outbox>>
      OBVIOUS
    <3>1. CASE \E batch \in Batches : FetchAndDiff(m, g, batch)  BY <3>1 DEF FetchAndDiff
    <3>2. CASE LoadActive(m, g) \/ StartRun(m, g) \/ FetchFails(m, g) \/ FinishRun(m, g)
      BY <3>2 DEF LoadActive, StartRun, FetchFails, FinishRun
    <3>3. CASE MoveStatus(m, g)  BY <3>3 DEF MoveStatus
    <3>4. CASE Release(m, g)  BY <3>4 DEF Release
    <3>5. CASE Interrupt(m, g)  BY <3>5 DEF Interrupt, NeverStarted, Cancel
    <3> QED  BY <3>1, <3>2, <3>3, <3>4, <3>5 DEF Step
  <2>4. \A m \in Monitors : Operate(m) => UNCHANGED <<items, outbox>>
    BY DEF Operate, taskVars
  <2>5. RunnerTick => UNCHANGED <<items, outbox>>  BY DEF RunnerTick, taskVars
  <2>6. UNCHANGED runnerVars => UNCHANGED <<items, outbox>>  BY DEF runnerVars, taskVars
  <2> QED  BY <2>1, <2>2, <2>3, <2>4, <2>5, <2>6 DEF RunnerNext
<1>2. PICK commit \in MayCommit(m, g) :
         IF commit
         THEN /\ items' = [items EXCEPT ![m] = CurrentItem(@, task[m][g].batch)]
              /\ outbox' = [outbox EXCEPT ![m] = @ \cup
                               Candidates(task[m][g].previous, task[m][g].batch)]
         ELSE UNCHANGED <<items, outbox>>
  BY <1>1 DEF Apply
<1>3. commit \in BOOLEAN /\ commit
  <2>1. commit \in BOOLEAN  BY <1>2 DEF MayCommit, Fenced, HoldsLease
  <2>2. CASE commit = FALSE  BY <1>2, <2>2
  <2> QED  BY <2>1, <2>2
<1>4. Fenced(m, g)  BY <1>2, <1>3 DEF MayCommit
<1>5. Live(m, g) /\ At(m, g, "diffed") /\ UNCHANGED registryVars /\ UNCHANGED runs
  BY <1>1 DEF Apply, At, Live
<1> QED  BY <1>2, <1>3, <1>4, <1>5

\* What the rules match is among the candidates.
LEMMA MatchesAreCandidates ==
    ASSUME NEW previous, NEW batch
    PROVE  MatchKeys(previous, CurrentItem(previous, batch)) \subseteq Candidates(previous, batch)
BY DEF Candidates

-----------------------------------------------------------------------------
(* Theorems *)

LEMMA RunnerInvariant == RunnerSpec => []RunnerInv
BY InitRunnerInv, NextRunnerInv, PTL DEF RunnerSpec

\* The rows of runs, items and outbox and the calls in memory keep their types,
\* whatever the workers, the operator, the crashes and the interruptions do.
THEOREM RunnerTypes == RunnerSpec => []TypeOK
<1>1. RunnerInv => TypeOK  BY DEF RunnerInv, RegistryInv, RunnerTypeOK, TypeOK
<1> QED  BY <1>1, RunnerInvariant, PTL

\* A call that still passes the fence of finish_run and apply works on what it has
\* read: the version and the snapshot of an active monitor are still those.
THEOREM RunnerSafety == RunnerSpec => []FencedReadsAreCurrent
<1>1. RunnerInv => FencedReadsAreCurrent
  BY DEF RunnerInv, FencedCallsAreCurrent, FencedReadsAreCurrent, CurrentCall, Live, At
<1> QED  BY <1>1, RunnerInvariant, PTL

\* With runs, verdicts and releases in the game the lifecycle of a monitor stays in
\* order: an active one is scheduled, one its owner stopped has neither schedule nor
\* lease (release_lease, transition_status_exact).
THEOREM ScheduleFollowsStatus == RunnerSpec => []ScheduleMatchesStatus
<1>1. RunnerInv => ScheduleMatchesStatus  BY DEF RunnerInv, RegistryInv
<1> QED  BY <1>1, RunnerInvariant, PTL

\* A claimed lease has an expiry, so that a crashed run never blocks its monitor
\* (claim_due, claim_monitor).
THEOREM LeasesRunOut == RunnerSpec => []LeaseCanExpire
<1>1. RunnerInv => LeaseCanExpire  BY DEF RunnerInv, RegistryInv
<1> QED  BY <1>1, RunnerInvariant, PTL

\* Every write of a snapshot or of the outbox happens under the open run of the
\* current lease of an active monitor, for its active version.
THEOREM WritesAreFenced == RunnerSpec => WritesOnlyUnderCurrentRun
<1>1. RunnerInv /\ [RunnerNext]_runnerVars =>
        [\A m \in Monitors :
          items'[m] # items[m] \/ outbox'[m] # outbox[m] =>
              /\ status[m] = "active"
              /\ generation[m] \in Generations
              /\ runs[m][generation[m]] = [status |-> "running", version |-> active[m]]]_runnerVars
  <2> SUFFICES ASSUME RunnerInv, [RunnerNext]_runnerVars, NEW n \in Monitors,
                      items'[n] # items[n] \/ outbox'[n] # outbox[n]
               PROVE  /\ status[n] = "active"
                      /\ generation[n] \in Generations
                      /\ runs[n][generation[n]] = [status |-> "running", version |-> active[n]]
    OBVIOUS
  <2>1. PICK m \in Monitors, g \in Generations :
           /\ Live(m, g) /\ At(m, g, "diffed") /\ Fenced(m, g)
           /\ items' = [items EXCEPT ![m] = CurrentItem(@, task[m][g].batch)]
           /\ outbox' = [outbox EXCEPT ![m] = @ \cup
                            Candidates(task[m][g].previous, task[m][g].batch)]
    <3>1. ~ UNCHANGED <<items, outbox>>  OBVIOUS
    <3> QED  BY <3>1, WhoObserves
  <2>2. n = m  BY <2>1 DEF RunnerInv, RunnerTypeOK
  <2>3. CurrentCall(m, g)  BY <2>1 DEF RunnerInv, FencedCallsAreCurrent
  <2>4. generation[m] = g  BY <2>1 DEF Fenced, HoldsLease
  <2> QED  BY <2>1, <2>2, <2>3, <2>4 DEF CurrentCall, At
<1> QED  BY <1>1, RunnerInvariant, PTL DEF RunnerSpec, WritesOnlyUnderCurrentRun

\* Whatever calls interleave, a value that replaces another in the snapshot has
\* its notification enqueued by the same transaction, keyed by the value it
\* really replaced.
THEOREM ChangesAreAnnounced == RunnerSpec => NoLostChange
<1>1. RunnerInv /\ [RunnerNext]_runnerVars =>
        [\A m \in Monitors :
          items'[m] # items[m] => MatchKeys(items[m], items'[m]) \subseteq outbox'[m]]_runnerVars
  <2> SUFFICES ASSUME RunnerInv, [RunnerNext]_runnerVars, NEW n \in Monitors,
                      items'[n] # items[n]
               PROVE  MatchKeys(items[n], items'[n]) \subseteq outbox'[n]
    OBVIOUS
  <2>1. PICK m \in Monitors, g \in Generations :
           /\ Live(m, g) /\ At(m, g, "diffed") /\ Fenced(m, g)
           /\ items' = [items EXCEPT ![m] = CurrentItem(@, task[m][g].batch)]
           /\ outbox' = [outbox EXCEPT ![m] = @ \cup
                            Candidates(task[m][g].previous, task[m][g].batch)]
    <3>1. ~ UNCHANGED <<items, outbox>>  OBVIOUS
    <3> QED  BY <3>1, WhoObserves
  <2>2. n = m  BY <2>1 DEF RunnerInv, RunnerTypeOK
  <2>3. CurrentCall(m, g)  BY <2>1 DEF RunnerInv, FencedCallsAreCurrent
  <2>4. task[m][g].previous = items[m]  BY <2>1, <2>3 DEF CurrentCall
  <2>5. task[m][g].batch \in Batches
    <3>1. task[m][g] \in TaskRow  BY DEF RunnerInv, RunnerTypeOK
    <3> QED  BY <3>1 DEF TaskRow
  <2>6. items'[m] = CurrentItem(items[m], task[m][g].batch)
    BY <2>1 DEF RunnerInv, RunnerTypeOK
  <2>7. outbox'[m] = outbox[m] \cup Candidates(items[m], task[m][g].batch)
    BY <2>1, <2>4 DEF RunnerInv, RunnerTypeOK
  <2> QED  BY <2>2, <2>5, <2>6, <2>7, MatchesAreCandidates
<1> QED  BY <1>1, RunnerInvariant, PTL DEF RunnerSpec, NoLostChange

\* Only a verdict and the operator's lifecycle operations change a status, and the
\* operator's operations take a new generation when they do.
LEMMA WhoMovesStatus ==
    ASSUME RunnerInv, [RunnerNext]_runnerVars, NEW m \in Monitors, status'[m] # status[m]
    PROVE  \/ \E g \in Generations : MoveStatus(m, g) /\ status[m] = "active" /\ Fenced(m, g)
           \/ Operate(m) /\ (status[m] = "absent" \/ generation'[m] # generation[m])
<1>1. ~ UNCHANGED status  OBVIOUS
<1>2. \A w \in Workers : SchedulerTick(w) \/ RunnerCrash(w) => UNCHANGED status
  BY DEF SchedulerTick, ClaimDue, TakeLeases, RunnerCrash, registryVars
<1>3. \A w \in Workers, n \in Monitors : RunOnce(w, n) => UNCHANGED status
  BY DEF RunOnce, ClaimMonitor, TakeLeases
<1>4. RunnerTick => UNCHANGED status  BY DEF RunnerTick, TickRegistry
<1>5. UNCHANGED runnerVars => UNCHANGED status  BY DEF runnerVars, registryVars
<1>6. ASSUME NEW n \in Monitors, NEW g \in Generations, Step(n, g) \/ Interrupt(n, g)
      PROVE  \E h \in Generations : MoveStatus(m, h) /\ status[m] = "active" /\ Fenced(m, h)
  <2>1. CASE MoveStatus(n, g)
    <3>1. TransitionMonitorStatus(n, task[n][g].worker, g, "active", task[n][g].verdict)
      BY <1>1, <2>1 DEF MoveStatus, registryVars
    <3>2. n = m /\ status[n] = "active" /\ Fenced(n, g)
      BY <3>1 DEF TransitionMonitorStatus, Fenced, RunnerInv, RegistryInv, RegistryTypeOK
    <3> QED  BY <2>1, <3>2
  <2>2. CASE \E batch \in Batches : FetchAndDiff(n, g, batch)
    BY <1>1, <2>2 DEF FetchAndDiff, registryVars
  <2>3. CASE \/ LoadActive(n, g) \/ StartRun(n, g) \/ FetchFails(n, g) \/ Apply(n, g)
             \/ FinishRun(n, g)
    BY <1>1, <2>3 DEF LoadActive, StartRun, FetchFails, Apply, FinishRun, registryVars
  <2>4. CASE Release(n, g)
    BY <1>1, <2>4 DEF Release, ReleaseLease, registryVars
  <2>5. CASE Interrupt(n, g)
    BY <1>1, <2>5 DEF Interrupt, NeverStarted, Cancel, registryVars
  <2> QED  BY <1>6, <2>1, <2>2, <2>3, <2>4, <2>5 DEF Step
<1>7. ASSUME NEW n \in Monitors, Operate(n)
      PROVE  n = m /\ (status[m] = "absent" \/ generation'[m] # generation[m])
  <2>1. LifecycleNext(n) /\ RegistryInv  BY <1>7 DEF Operate, RunnerInv
  <2>2. n = m  BY <2>1, LifecycleFacts
  <2>3. ASSUME SupersedeLease(n)  PROVE generation'[n] # generation[n]
    BY <2>1, <2>3 DEF SupersedeLease, RegistryInv, RegistryTypeOK
  <2>4. ASSUME NEW e, NEW v, NEW t, TransitionStatusExact(n, e, v, t)
        PROVE  SupersedeLease(n)
    BY <2>4 DEF TransitionStatusExact
  <2>5. ASSUME NEW c, NEW a, NEW e, NEW v, NEW t, ActivateCandidateExact(n, c, a, e, v, t)
        PROVE  SupersedeLease(n)
    BY <2>5 DEF ActivateCandidateExact
  <2>6. ASSUME NEW e, NEW v, SoftDeleteExact(n, e, v) \/ StoreCandidate(n, v)
        PROVE  SupersedeLease(n)
    BY <2>6 DEF SoftDeleteExact, StoreCandidate
  <2>7. ASSUME NEW e, NEW v, StageCandidate(n, e, v)  PROVE FALSE
    BY <1>1, <2>7 DEF StageCandidate
  <2>8. CreateMonitor(n) => status[n] = "absent"  BY DEF CreateMonitor
  <2> QED
    BY <2>1, <2>2, <2>3, <2>4, <2>5, <2>6, <2>7, <2>8 DEF LifecycleNext
<1> QED  BY <1>1, <1>2, <1>3, <1>4, <1>5, <1>6, <1>7 DEF RunnerNext

\* A run that is no longer the current one cannot park its monitor.
THEOREM LateVerdictsAreRefused == RunnerSpec => VerdictsAreCurrent
<1>1. RunnerInv /\ [RunnerNext]_runnerVars =>
        [\A m \in Monitors :
          /\ status'[m] # status[m] /\ status[m] # "absent"
          /\ generation'[m] = generation[m]
          => /\ status[m] = "active"
             /\ generation[m] \in Generations
             /\ At(m, generation[m], "transition")
             /\ owner[m] = task[m][generation[m]].worker]_runnerVars
  <2> SUFFICES ASSUME RunnerInv, [RunnerNext]_runnerVars, NEW m \in Monitors,
                      status'[m] # status[m], status[m] # "absent",
                      generation'[m] = generation[m]
               PROVE  /\ status[m] = "active"
                      /\ generation[m] \in Generations
                      /\ At(m, generation[m], "transition")
                      /\ owner[m] = task[m][generation[m]].worker
    OBVIOUS
  <2>1. PICK g \in Generations : MoveStatus(m, g) /\ status[m] = "active" /\ Fenced(m, g)
    BY WhoMovesStatus
  <2>2. generation[m] = g /\ owner[m] = task[m][g].worker
    BY <2>1 DEF Fenced, HoldsLease
  <2> QED  BY <2>1, <2>2 DEF MoveStatus
<1> QED  BY <1>1, RunnerInvariant, PTL DEF RunnerSpec, VerdictsAreCurrent

\* A superseded call changes no row of any table.
THEOREM SupersededCallsWriteNothing == RunnerSpec => SupersededCallsAreHarmless
<1>1. RunnerInv /\ [RunnerNext]_runnerVars =>
        [\A m \in Monitors, g \in Generations :
          /\ Live(m, g) /\ ~Fenced(m, g)
          /\ task'[m][g] # task[m][g] /\ task'[m][g].stage # "claimed"
          => UNCHANGED <<registryVars, runs, items, outbox>>]_runnerVars
  <2> SUFFICES ASSUME RunnerInv, [RunnerNext]_runnerVars, NEW m \in Monitors, NEW g \in Generations,
                      Live(m, g), ~Fenced(m, g),
                      task'[m][g] # task[m][g], task'[m][g].stage # "claimed"
               PROVE  UNCHANGED <<registryVars, runs, items, outbox>>
    OBVIOUS
  <2>1. task \in [Monitors -> [Generations -> TaskRow]]
    BY DEF RunnerInv, RunnerTypeOK
  <2>2. ASSUME NEW w \in Workers, NEW S, NewTasks(S, w)  PROVE FALSE
    <3> DEFINE row == [NoTask EXCEPT !.stage = "claimed", !.worker = w]
    <3>1. row.stage = "claimed"  BY RowTypes DEF NoTask
    <3> HIDE DEF row
    <3>2. task'[m] \in {task[m], [task[m] EXCEPT ![generation[m] + 1] = row]}
      BY <2>2 DEF NewTasks, row
    <3>3. task[m] \in [Generations -> TaskRow]  BY <2>1
    <3>4. task'[m][g] \in {task[m][g], row}  BY <3>2, <3>3
    <3> QED  BY <3>1, <3>4
  <2>3. ASSUME NEW w \in Workers, SchedulerTick(w)  PROVE FALSE
    BY <2>2, <2>3 DEF SchedulerTick
  <2>4. ASSUME NEW w \in Workers, NEW n \in Monitors, RunOnce(w, n)  PROVE FALSE
    BY <2>2, <2>4 DEF RunOnce
  <2>5. ASSUME NEW n \in Monitors, NEW h \in Generations, NEW row,
               task' = [task EXCEPT ![n][h] = row]
        PROVE  n = m /\ h = g
    BY <2>1, <2>5
  <2>6. ASSUME NEW n \in Monitors, NEW h \in Generations, Step(n, h) \/ Interrupt(n, h)
        PROVE  UNCHANGED <<registryVars, runs, items, outbox>>
    <3>1. n = m /\ h = g
      <4>0. task[n] \in [Generations -> TaskRow] /\ task[n][h] \in TaskRow  BY <2>1
      <4>1. ASSUME NEW b \in Batches, FetchAndDiff(n, h, b)
            PROVE  task' = [task EXCEPT ![n][h] = [task[n][h] EXCEPT !.stage = "diffed", !.batch = b,
                                                                     !.previous = items[n]]]
        BY <2>1, <4>0, <4>1 DEF FetchAndDiff
      <4>2. LoadActive(n, h) =>
               task' = [task EXCEPT ![n][h] = [task[n][h] EXCEPT !.stage = "loaded",
                                                                 !.version = active[n]]]
        BY <2>1 DEF LoadActive
      <4>3. MoveStatus(n, h) =>
               task' = [task EXCEPT ![n][h] = [task[n][h] EXCEPT !.stage = "finish",
                                                                 !.verdict = "keep"]]
        BY <2>1 DEF MoveStatus
      <4>4. \A s : Goto(n, h, s) => task' = [task EXCEPT ![n][h] = [task[n][h] EXCEPT !.stage = s]]
        BY <2>1 DEF Goto
      <4>5. End(n, h) => task' = [task EXCEPT ![n][h] = EndedTask]  BY DEF End
      <4>6. \A v : Complete(n, h, v) => \E row : task' = [task EXCEPT ![n][h] = row]
        BY DEF Complete
      <4>7. StartRun(n, h) => Goto(n, h, "fetching") \/ End(n, h)  BY DEF StartRun
      <4>8. FetchFails(n, h) \/ Cancel(n, h) \/ Apply(n, h) => \E v : Complete(n, h, v)
        BY DEF FetchFails, Cancel, Apply
      <4>9. FinishRun(n, h) => Goto(n, h, "release")  BY DEF FinishRun
      <4>10. Release(n, h) \/ NeverStarted(n, h) => End(n, h)  BY DEF Release, NeverStarted
      <4>11. \E row : task' = [task EXCEPT ![n][h] = row]
        <5>1. CASE \E b \in Batches : FetchAndDiff(n, h, b)  BY <4>1, <5>1
        <5>2. CASE LoadActive(n, h) \/ MoveStatus(n, h)  BY <4>2, <4>3, <5>2
        <5>3. CASE StartRun(n, h) \/ FinishRun(n, h)  BY <4>4, <4>5, <4>7, <4>9, <5>3
        <5>4. CASE Release(n, h) \/ NeverStarted(n, h)  BY <4>5, <4>10, <5>4
        <5>5. CASE FetchFails(n, h) \/ Cancel(n, h) \/ Apply(n, h)  BY <4>6, <4>8, <5>5
        <5> QED  BY <2>6, <5>1, <5>2, <5>3, <5>4, <5>5 DEF Step, Interrupt
      <4> QED  BY <2>5, <4>11
    <3>2. ~Fenced(n, h)  BY <3>1
    <3>3. CASE \E b \in Batches : FetchAndDiff(n, h, b)  BY <3>3 DEF FetchAndDiff
    <3>4. CASE StartRun(n, h)  BY <3>2, <3>4 DEF StartRun
    <3>5. CASE LoadActive(n, h) \/ FetchFails(n, h)  BY <3>5 DEF LoadActive, FetchFails
    <3>6. CASE Apply(n, h)
      <4>1. PICK commit \in MayCommit(n, h) :
               ~commit => UNCHANGED <<items, outbox>>
        BY <3>6 DEF Apply
      <4>2. ~commit  BY <3>2 DEF MayCommit
      <4> QED  BY <3>6, <4>1, <4>2 DEF Apply
    <3>7. CASE MoveStatus(n, h)
      BY <3>2, <3>7 DEF MoveStatus, TransitionMonitorStatus, Fenced
    <3>8. CASE FinishRun(n, h)
      <4>1. PICK commit \in MayCommit(n, h) : ~commit => runs' = runs
        BY <3>8 DEF FinishRun
      <4>2. ~commit  BY <3>2 DEF MayCommit
      <4> QED  BY <3>8, <4>1, <4>2 DEF FinishRun
    <3>9. CASE Release(n, h)
      BY <3>2, <3>9 DEF Release, ReleaseLease, Fenced
    <3>10. CASE Interrupt(n, h)  BY <3>10 DEF Interrupt, NeverStarted, Cancel
    <3> QED  BY <2>6, <3>3, <3>4, <3>5, <3>6, <3>7, <3>8, <3>9, <3>10 DEF Step
  <2>7. ASSUME NEW w \in Workers, RunnerCrash(w)
        PROVE  UNCHANGED <<registryVars, runs, items, outbox>>
    BY <2>7 DEF RunnerCrash
  <2>8. \A n \in Monitors : Operate(n) => UNCHANGED task  BY DEF Operate, taskVars
  <2>9. RunnerTick \/ UNCHANGED runnerVars => UNCHANGED task  BY DEF RunnerTick, runnerVars, taskVars
  <2> QED  BY <2>3, <2>4, <2>6, <2>7, <2>8, <2>9 DEF RunnerNext
<1> QED  BY <1>1, RunnerInvariant, PTL DEF RunnerSpec, SupersededCallsAreHarmless

-----------------------------------------------------------------------------
(* MonitorRunner implements MonitorContract, variable for variable *)

\* A fenced apply_snapshot_and_deliveries is an observation: the snapshot it
\* compared with is the one it replaces.
LEMMA ApplyObserves ==
    ASSUME RunnerInv, [RunnerNext]_runnerVars, ~ UNCHANGED <<items, outbox>>
    PROVE  Observing!ContractNext
<1>1. PICK m \in Monitors, g \in Generations :
         /\ Live(m, g) /\ At(m, g, "diffed") /\ Fenced(m, g)
         /\ items' = [items EXCEPT ![m] = CurrentItem(@, task[m][g].batch)]
         /\ outbox' = [outbox EXCEPT ![m] = @ \cup
                          Candidates(task[m][g].previous, task[m][g].batch)]
         /\ UNCHANGED registryVars /\ UNCHANGED runs
  BY WhoObserves
<1>2. CurrentCall(m, g)  BY <1>1 DEF RunnerInv, FencedCallsAreCurrent
<1>3. /\ status[m] = "active" /\ task[m][g].previous = items[m]
      /\ UNCHANGED <<status, active>>
  BY <1>1, <1>2 DEF CurrentCall, At, registryVars
<1>4. task[m][g].batch \in Batches
  <2>1. task[m][g] \in TaskRow  BY DEF RunnerInv, RunnerTypeOK
  <2> QED  BY <2>1 DEF TaskRow
<1>5. Batches = Observing!Batches  BY DEF Batches, Observing!Batches, Snapshots, Observing!Snapshots
<1>6. \A p, b : CurrentItem(p, b) = Observing!CurrentItem(p, b)
  BY DEF CurrentItem, Observing!CurrentItem
<1>7. \A p, b : Candidates(p, b) = Observing!Candidates(p, b)
  BY DEF Candidates, Observing!Candidates, CurrentItem, Observing!CurrentItem,
         MatchKeys, Observing!MatchKeys, DeliveryKey, Observing!DeliveryKey,
         Matched, Observing!Matched, NewItemKey, Observing!NewItemKey,
         WarningKey, Observing!WarningKey, NoChangeKey, Observing!NoChangeKey
<1>8. /\ items' = [items EXCEPT ![m] = Observing!CurrentItem(items[m], task[m][g].batch)]
      /\ outbox' = [outbox EXCEPT ![m] = @ \cup
                       Observing!Candidates(items[m], task[m][g].batch)]
  BY <1>1, <1>3, <1>6, <1>7
<1>9. Observing!Observe(m)  BY <1>3, <1>4, <1>5, <1>8 DEF Observing!Observe
<1> QED  BY <1>9 DEF Observing!ContractNext

\* The lifecycle operations are the contract's, except that staging a candidate is
\* invisible to it.
LEMMA OperateIsContract ==
    ASSUME RunnerInv, NEW m \in Monitors, Operate(m)
    PROVE  [Observing!ContractNext]_<<status, active, items, outbox>>
<1>1. /\ LifecycleNext(m) /\ RegistryInv /\ UNCHANGED <<items, outbox>>
      /\ active \in [Monitors -> 0..MaxVersion]
  BY DEF Operate, RunnerInv, RegistryInv, RegistryTypeOK, taskVars
<1>2. CASE CreateMonitor(m)
  BY <1>1, <1>2 DEF CreateMonitor, Observing!Create, Observing!ContractNext
<1>3. CASE TransitionStatusExact(m, status[m], active[m], "paused_user")
  <2>1. Observing!Pause(m)
    BY <1>1, <1>3 DEF TransitionStatusExact, Observing!Pause, Observing!SetStatus
  <2> QED  BY <2>1 DEF Observing!ContractNext
<1>4. CASE TransitionStatusExact(m, status[m], active[m], "active")
  <2>1. Observing!Resume(m)
    BY <1>1, <1>4 DEF TransitionStatusExact, Observing!Resume, Observing!SetStatus
  <2> QED  BY <2>1 DEF Observing!ContractNext
<1>5. CASE SoftDeleteExact(m, status[m], active[m])
  <2>1. Observing!Delete(m)
    BY <1>1, <1>5 DEF SoftDeleteExact, Statuses, Observing!Delete, Observing!SetStatus
  <2> QED  BY <2>1 DEF Observing!ContractNext
<1>6. CASE StageCandidate(m, status[m], active[m])
  BY <1>1, <1>6 DEF StageCandidate
<1>7. CASE StoreCandidate(m, active[m])
  <2>1. Observing!Park(m)
    BY <1>1, <1>7 DEF StoreCandidate, Unchanged, Observing!Park, Observing!SetStatus
  <2> QED  BY <2>1 DEF Observing!ContractNext
<1>8. ASSUME NEW c \in 1..MaxVersion, NEW author, NEW t,
             ActivateCandidateExact(m, c, author, status[m], active[m], t),
             status[m] \in {"active", "paused_user", "needs_review"},
             t = IF status[m] = "needs_review" THEN "active" ELSE status[m]
      PROVE  Observing!ContractNext
  <2>1. /\ c \in DOMAIN versions[m] /\ versions[m][c].parent = active[m]
        /\ active' = [active EXCEPT ![m] = c] /\ status' = [status EXCEPT ![m] = t]
    BY <1>8 DEF ActivateCandidateExact, Activable
  <2>2. c \in active[m] + 1 .. MaxVersion
    <3>1. status[m] # "absent" /\ Line(versions[m], active[m])
      BY <1>1, <1>8 DEF RegistryInv, Lineage
    <3>2. versions[m] \in Seq(VersionRow)  BY <1>1 DEF RegistryInv, RegistryTypeOK
    <3>3. c \in 1..Len(versions[m])  BY <2>1, <3>2, LenProperties
    <3>4. active[m] \in 0 .. c - 1  BY <2>1, <3>1, <3>3 DEF Line
    <3> QED  BY <3>4, RegistryAssumption
  <2>3. Observing!Revise(m)
    BY <1>1, <1>8, <2>1, <2>2 DEF Observing!Revise
  <2> QED  BY <2>3 DEF Observing!ContractNext
<1>9. ASSUME NEW c \in 1..MaxVersion, status[m] \in {"active", "paused_user"},
             ActivateCandidateExact(m, c, "codex-control", status[m], active[m], status[m])
      PROVE  Observing!ContractNext
  BY <1>8, <1>9
<1>10. ASSUME NEW c \in 1..MaxVersion,
              ActivateCandidateExact(m, c, "scrapling-adaptive", status[m], active[m], "active")
       PROVE  Observing!ContractNext
  <2>1. status[m] = "needs_review"  BY <1>10 DEF ActivateCandidateExact
  <2> QED  BY <1>8, <1>10, <2>1
<1> QED
  BY <1>1, <1>2, <1>3, <1>4, <1>5, <1>6, <1>7, <1>9, <1>10 DEF LifecycleNext

\* Everything the runner does to the four tables is what the contract allows: calls,
\* leases, generations and crashes cannot be seen in them.
THEOREM RunnerImplementsContract == RunnerSpec => ImplementsContract
<1>1. RunnerInit => Observing!ContractInit
  BY DEF RunnerInit, RegistryInit, Observing!ContractInit
<1>2. RunnerInv /\ [RunnerNext]_runnerVars => [Observing!ContractNext]_<<status, active, items, outbox>>
  <2> SUFFICES ASSUME RunnerInv, [RunnerNext]_runnerVars, UNCHANGED <<items, outbox>>
               PROVE  [Observing!ContractNext]_<<status, active, items, outbox>>
    BY ApplyObserves
  <2>1. CASE \E m \in Monitors : Operate(m)  BY <2>1, OperateIsContract
  <2>2. CASE \E m \in Monitors, g \in Generations : MoveStatus(m, g)
    <3>1. PICK m \in Monitors, g \in Generations : MoveStatus(m, g)  BY <2>2
    <3>2. CASE UNCHANGED registryVars  BY <3>2 DEF registryVars
    <3>3. CASE TransitionMonitorStatus(m, task[m][g].worker, g, "active", task[m][g].verdict)
      <4>1. task[m][g].verdict \in {"paused_auth", "needs_review"}
        BY <3>1 DEF MoveStatus, At, Live, RunnerInv, RunnerTypeOK, CallsHaveWorkers,
                    TaskRow, Verdicts
      <4>2. Observing!Park(m)
        BY <3>3, <4>1 DEF TransitionMonitorStatus, Observing!Park, Observing!SetStatus
      <4> QED  BY <4>2 DEF Observing!ContractNext
    <3> QED  BY <3>1, <3>2, <3>3 DEF MoveStatus
  <2>3. UNCHANGED active \/ \E m \in Monitors : Operate(m)
    <3>1. \A w \in Workers : SchedulerTick(w) \/ RunnerCrash(w) => UNCHANGED active
      BY DEF SchedulerTick, ClaimDue, TakeLeases, RunnerCrash, registryVars
    <3>2. \A w \in Workers, n \in Monitors : RunOnce(w, n) => UNCHANGED active
      BY DEF RunOnce, ClaimMonitor, TakeLeases
    <3>3. RunnerTick \/ UNCHANGED runnerVars => UNCHANGED active
      BY DEF RunnerTick, TickRegistry, runnerVars, registryVars
    <3>4. ASSUME NEW n \in Monitors, NEW g \in Generations, Step(n, g) \/ Interrupt(n, g)
          PROVE  UNCHANGED active
      <4>1. CASE \E batch \in Batches : FetchAndDiff(n, g, batch)
        BY <4>1 DEF FetchAndDiff, registryVars
      <4>2. CASE \/ LoadActive(n, g) \/ StartRun(n, g) \/ FetchFails(n, g) \/ Apply(n, g)
                 \/ FinishRun(n, g)
        BY <4>2 DEF LoadActive, StartRun, FetchFails, Apply, FinishRun, registryVars
      <4>3. CASE MoveStatus(n, g)
        BY <4>3 DEF MoveStatus, TransitionMonitorStatus, registryVars
      <4>4. CASE Release(n, g)  BY <4>4 DEF Release, ReleaseLease, registryVars
      <4>5. CASE Interrupt(n, g)
        BY <4>5 DEF Interrupt, NeverStarted, Cancel, registryVars
      <4> QED  BY <3>4, <4>1, <4>2, <4>3, <4>4, <4>5 DEF Step
    <3> QED  BY <3>1, <3>2, <3>3, <3>4 DEF RunnerNext
  <2>4. ASSUME ~ UNCHANGED status
        PROVE  \/ \E m \in Monitors : Operate(m)
               \/ \E m \in Monitors, g \in Generations : MoveStatus(m, g)
    <3>1. PICK m \in Monitors : status'[m] # status[m]
      <4>1. /\ status \in [Monitors -> Statuses \cup {"absent"}]
            /\ status' \in [Monitors -> Statuses \cup {"absent"}]
        BY NextRunnerInv DEF RunnerInv, RegistryInv, RegistryTypeOK
      <4> QED  BY <2>4, <4>1
    <3> QED  BY <3>1, WhoMovesStatus
  <2> QED  BY <2>1, <2>2, <2>3, <2>4
<1>3. RunnerInv /\ [RunnerNext]_runnerVars => [Observing!ContractNext]_(Observing!contractVars)
  BY <1>2 DEF Observing!contractVars
<1> QED
  BY <1>1, <1>3, RunnerInvariant, PTL DEF RunnerSpec, ImplementsContract, Observing!ContractSpec
=============================================================================
