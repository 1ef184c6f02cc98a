---------------------------- MODULE Outbox_proofs ----------------------------
(***************************************************************************)
(* Proofs about Outbox, for every set of rows, of service and one-shot     *)
(* workers, and every batch limit, lease, backoff table and threshold.     *)
(***************************************************************************)
EXTENDS Outbox, TLAPS

(***************************************************************************)
(* The inductive invariant.  The type invariant says nothing of the rows a *)
(* drain works on; they exist, are in one place each, were accepted by the *)
(* target or waived when their answer is in, and are waived when the drain *)
(* is muted.  SeenCountIsCurrent needs the second of these.                *)
(***************************************************************************)
Works(w, r) == r \in drain[w].todo \/ drain[w].row = r

DrainedRowsExist ==
    \A w \in Workers, r \in Rows : Works(w, r) => rowStatus[r] # "absent"

RowsAreInOnePlace ==
    \A w \in Workers :
        /\ drain[w].row \notin drain[w].todo
        /\ drain[w].stage \in {"idle", "ready"} => drain[w].row = NoRow

AnswersAreReal ==
    \A w \in Workers, r \in Rows :
        /\ drain[w].muted /\ Works(w, r) => r \in waived
        /\ drain[w].stage = "answered" /\ drain[w].row = r => r \in accepted \cup waived

OutboxInv ==
    /\ OutboxTypeOK /\ SeenCountIsCurrent
    /\ DrainedRowsExist /\ RowsAreInOnePlace /\ AnswersAreReal

-----------------------------------------------------------------------------
(* Lemmas *)

LEMMA Arithmetic ==
    ASSUME NEW n \in Nat, NEW k \in Nat
    PROVE  /\ Minus(n, k) \in 0..n
           /\ Least(n, k) \in Nat /\ Least(n, k) <= k /\ Least(n, k) <= n
BY DEF Minus, Least

\* An update of one entry keeps a function's type, whether the entry exists or not.
LEMMA UpdateType ==
    ASSUME NEW S, NEW T, NEW f \in [S -> T], NEW x, NEW y \in T
    PROVE  /\ [f EXCEPT ![x] = y] \in [S -> T]
           /\ \A z \in S : z # x => [f EXCEPT ![x] = y][z] = f[z]
OBVIOUS

LEMMA NoDrainType ==
    /\ NoDrain \in DrainRow /\ GoneDrain \in DrainRow
    /\ NoDrain.stage = "idle" /\ GoneDrain.stage = "gone"
    /\ NoDrain.todo = {} /\ GoneDrain.todo = {}
    /\ NoDrain.row = NoRow /\ GoneDrain.row = NoRow
<1>1. /\ NoDrain \in DrainRow /\ NoDrain.stage = "idle"
      /\ NoDrain.todo = {} /\ NoDrain.row = NoRow
  <2>1. [r \in Rows |-> 0] \in [Rows -> 0..StuckAt]  BY OutboxAssumption
  <2> QED  BY <2>1, OutboxAssumption DEF NoDrain, DrainRow, Stages
<1>2. /\ GoneDrain \in DrainRow /\ GoneDrain.stage = "gone"
      /\ GoneDrain.todo = {} /\ GoneDrain.row = NoRow
  BY <1>1 DEF GoneDrain, DrainRow, Stages
<1> QED  BY <1>1, <1>2

\* The delay of a retry is one of the table's.
LEMMA BackoffType ==
    ASSUME OutboxTypeOK, NEW w \in Workers, NEW r \in Rows
    PROVE  Backoff(w, r) \in 0..Horizon
<1>1. drain[w].seen[r] \in Nat  BY OutboxAssumption DEF OutboxTypeOK, DrainRow
<1>2. Least(drain[w].seen[r] + 1, Len(Delays)) \in 1..Len(Delays)
  <2>1. Len(Delays) \in Nat /\ Len(Delays) > 0  BY OutboxAssumption
  <2> QED  BY <1>1, <2>1 DEF Least
<1>3. \A i \in 1..Len(Delays) : Delays[i] \in Nat /\ Delays[i] <= Horizon
  BY OutboxAssumption
<1> QED  BY <1>2, <1>3, OutboxAssumption DEF Backoff

-----------------------------------------------------------------------------
(* What the steps of a drain do to the rows and to the drain *)

\* Leaving drops every row.
LEMMA LeaveFacts ==
    ASSUME OutboxTypeOK, NEW w \in Workers, Leave(w)
    PROVE  /\ drain' \in [Workers -> DrainRow]
           /\ drain'[w].stage \in {"idle", "gone"} /\ drain'[w].todo = {} /\ drain'[w].row = NoRow
           /\ \A v \in Workers : v # w => drain'[v] = drain[v]
BY NoDrainType DEF Leave, OutboxTypeOK

LEMMA NextRowFacts ==
    ASSUME OutboxTypeOK, NEW w \in Workers, NextRow(w)
    PROVE  /\ drain' \in [Workers -> DrainRow]
           /\ drain'[w].stage = "ready" /\ drain'[w].todo = drain[w].todo
           /\ drain'[w].row = NoRow /\ drain'[w].muted = drain[w].muted
           /\ \A r \in Rows : r # drain[w].row => drain'[w].seen[r] = drain[w].seen[r]
           /\ \A v \in Workers : v # w => drain'[v] = drain[v]
<1>1. drain[w] \in DrainRow  BY DEF OutboxTypeOK
<1>2. /\ [drain[w].seen EXCEPT ![drain[w].row] = 0] \in [Rows -> 0..StuckAt]
      /\ \A r \in Rows : r # drain[w].row =>
             [drain[w].seen EXCEPT ![drain[w].row] = 0][r] = drain[w].seen[r]
  <2>1. drain[w].seen \in [Rows -> 0..StuckAt] /\ 0 \in 0..StuckAt
    BY <1>1, OutboxAssumption DEF DrainRow
  <2> QED  BY <2>1, UpdateType
<1>3. drain'[w] = [drain[w] EXCEPT !.stage = "ready", !.row = NoRow,
                        !.seen = [drain[w].seen EXCEPT ![drain[w].row] = 0]]
  BY DEF NextRow, OutboxTypeOK
<1>4. /\ drain'[w] \in DrainRow /\ drain'[w].stage = "ready"
      /\ drain'[w].todo = drain[w].todo /\ drain'[w].row = NoRow
      /\ drain'[w].muted = drain[w].muted
      /\ drain'[w].seen = [drain[w].seen EXCEPT ![drain[w].row] = 0]
  BY <1>1, <1>2, <1>3 DEF DrainRow, Stages
<1>5. /\ \A v \in Workers : v # w => drain'[v] = drain[v]
      /\ drain' = [v \in Workers |-> drain'[v]]
  BY DEF NextRow, OutboxTypeOK
<1> QED  BY <1>2, <1>4, <1>5 DEF OutboxTypeOK

LEMMA AfterFailureFacts ==
    ASSUME NEW d \in DrainRow, NEW r \in Rows
    PROVE  LET e == AfterFailure(d, r) IN
           /\ e \in DrainRow
           /\ \/ e.stage = "ready" /\ e.row = NoRow
              \/ e.stage = "reporting" /\ e.row = r
           /\ e.stage = "reporting" <=> d.seen[r] + 1 >= StuckAt
           /\ e.todo = d.todo \ {r} /\ e.muted = d.muted
           /\ \A q \in Rows : q # r => e.seen[q] = d.seen[q]
<1> DEFINE e == AfterFailure(d, r)
           stuck == d.seen[r] + 1 >= StuckAt
<1>1. /\ [d.seen EXCEPT ![r] = 0] \in [Rows -> 0..StuckAt]
      /\ \A q \in Rows : q # r => [d.seen EXCEPT ![r] = 0][q] = d.seen[q]
  <2>1. d.seen \in [Rows -> 0..StuckAt] /\ 0 \in 0..StuckAt
    BY OutboxAssumption DEF DrainRow
  <2> QED  BY <2>1, UpdateType
<1>2. e = [d EXCEPT !.stage = IF stuck THEN "reporting" ELSE "ready",
                    !.row = IF stuck THEN r ELSE NoRow,
                    !.todo = d.todo \ {r},
                    !.seen = [d.seen EXCEPT ![r] = 0]]
  BY DEF AfterFailure, DrainRow
<1>3. /\ e.stage = IF stuck THEN "reporting" ELSE "ready"
      /\ e.row = IF stuck THEN r ELSE NoRow
      /\ e.todo = d.todo \ {r} /\ e.seen = [d.seen EXCEPT ![r] = 0]
      /\ e.own = d.own /\ e.muted = d.muted /\ e.age = d.age
      /\ e = [stage |-> e.stage, todo |-> e.todo, row |-> e.row, seen |-> e.seen,
              own |-> e.own, muted |-> e.muted, age |-> e.age]
  BY <1>2 DEF DrainRow
<1>4. e \in DrainRow  BY <1>1, <1>3 DEF DrainRow, Stages
<1> QED  BY <1>1, <1>3, <1>4

\* A reschedule either goes through, on a row the drain owns, or changes no row and
\* ends the drain.
LEMMA RescheduleFacts ==
    ASSUME OutboxTypeOK, NEW w \in Workers, NEW r \in Rows, Reschedule(w, r)
    PROVE  \/ Leave(w) /\ UNCHANGED rowVars
           \/ /\ OwnsRow(w, r)
              /\ rowStatus' = rowStatus
              /\ attempts' = [attempts EXCEPT ![r] = Least(@ + 1, StuckAt)]
              /\ availableIn' = [availableIn EXCEPT ![r] = Minus(Backoff(w, r), drain[w].age)]
              /\ rowOwner' = [rowOwner EXCEPT ![r] = NoWorker]
              /\ rowLeaseLeft' = [rowLeaseLeft EXCEPT ![r] = 0]
              /\ drain' \in [Workers -> DrainRow]
              /\ \/ drain'[w].stage = "ready" /\ drain'[w].row = NoRow
                 \/ drain'[w].stage = "reporting" /\ drain'[w].row = r
              /\ drain'[w].stage = "reporting" <=> drain[w].seen[r] + 1 >= StuckAt
              /\ drain'[w].todo = drain[w].todo \ {r}
              /\ drain'[w].muted = drain[w].muted
              /\ \A q \in Rows : q # r => drain'[w].seen[q] = drain[w].seen[q]
              /\ \A v \in Workers : v # w => drain'[v] = drain[v]
<1>1. PICK commit \in MayWrite(w, r) :
        IF commit
        THEN /\ rowStatus' = [rowStatus EXCEPT ![r] = "pending"]
             /\ attempts' = [attempts EXCEPT ![r] = Least(@ + 1, StuckAt)]
             /\ availableIn' = [availableIn EXCEPT ![r] = Minus(Backoff(w, r), drain[w].age)]
             /\ ClearLease(r)
             /\ drain' = [drain EXCEPT ![w] = AfterFailure(@, r)]
        ELSE Leave(w) /\ UNCHANGED rowVars
  BY DEF Reschedule
<1>4. commit \in BOOLEAN  BY DEF MayWrite, OwnsRow
<1>2. CASE ~commit  BY <1>1, <1>2
<1>3. CASE commit
  <2>1. OwnsRow(w, r)  BY <1>3 DEF MayWrite
  <2>2. rowStatus' = rowStatus
    <3>1. rowStatus \in [Rows -> RowStatuses] /\ rowStatus[r] = "pending"
      BY <2>1 DEF OutboxTypeOK, OwnsRow
    <3>2. rowStatus' = [rowStatus EXCEPT ![r] = "pending"]  BY <1>1, <1>3
    <3> QED  BY <3>1, <3>2
  <2>3. drain[w] \in DrainRow  BY DEF OutboxTypeOK
  <2>5. drain'[w] = AfterFailure(drain[w], r)
    BY <1>1, <1>3 DEF OutboxTypeOK
  <2>6. /\ drain'[w] \in DrainRow
        /\ \/ drain'[w].stage = "ready" /\ drain'[w].row = NoRow
           \/ drain'[w].stage = "reporting" /\ drain'[w].row = r
        /\ drain'[w].stage = "reporting" <=> drain[w].seen[r] + 1 >= StuckAt
        /\ drain'[w].todo = drain[w].todo \ {r}
        /\ drain'[w].muted = drain[w].muted
        /\ \A q \in Rows : q # r => drain'[w].seen[q] = drain[w].seen[q]
    BY <2>3, <2>5, AfterFailureFacts
  <2>7. /\ \A v \in Workers : v # w => drain'[v] = drain[v]
        /\ DOMAIN drain' = Workers /\ drain' = [v \in Workers |-> drain'[v]]
    BY <1>1, <1>3 DEF OutboxTypeOK
  <2>8. drain' \in [Workers -> DrainRow]  BY <2>6, <2>7 DEF OutboxTypeOK
  <2> QED  BY <1>1, <1>3, <2>1, <2>2, <2>6, <2>7, <2>8 DEF ClearLease
<1> QED  BY <1>2, <1>3, <1>4

\* A claim takes rows that are due, and reads their attempts with them.
LEMMA ClaimFacts ==
    ASSUME OutboxInv, NEW w \in Workers, NEW S \in SUBSET Rows, NEW muted \in BOOLEAN,
           Claim(w, S, muted)
    PROVE  /\ S \subseteq DueRows
           /\ rowOwner' = [r \in Rows |-> IF r \in S THEN w ELSE rowOwner[r]]
           /\ rowLeaseLeft' \in [Rows -> 0..LeaseTicks]
           /\ drain' \in [Workers -> DrainRow]
           /\ drain'[w].stage = "ready" /\ drain'[w].todo = S /\ drain'[w].row = drain[w].row
           /\ drain'[w].muted = muted
           /\ \A r \in S : drain'[w].seen[r] = attempts[r]
           /\ \A v \in Workers : v # w => drain'[v] = drain[v]
           /\ waived' = IF muted THEN waived \cup S ELSE waived
           /\ UNCHANGED <<rowStatus, attempts, availableIn, reported, accepted>>
<1> DEFINE d == drain[w]
           counts == [r \in Rows |-> IF r \in S THEN attempts[r] ELSE 0]
<1>1. d \in DrainRow /\ S \subseteq DueRows  BY DEF OutboxInv, OutboxTypeOK, Claim, MayClaim
<1>2. counts \in [Rows -> 0..StuckAt]
  BY OutboxAssumption DEF OutboxInv, OutboxTypeOK
<1>3. drain'[w] = [d EXCEPT !.stage = "ready", !.todo = S, !.own = d.own \ S,
                            !.muted = muted, !.seen = counts]
  <2>1. drain'[w] = WithBatch(d, S, muted)  BY DEF Claim, OutboxInv, OutboxTypeOK
  <2> QED  BY <1>1, <2>1 DEF WithBatch, DrainRow
<1>4. /\ drain'[w] \in DrainRow
      /\ drain'[w].stage = "ready" /\ drain'[w].todo = S /\ drain'[w].row = d.row
      /\ drain'[w].muted = muted /\ drain'[w].seen = counts
  <2> HIDE DEF counts
  <2> QED  BY <1>1, <1>2, <1>3 DEF DrainRow, Stages
<1>5. /\ \A v \in Workers : v # w => drain'[v] = drain[v]
      /\ drain' = [v \in Workers |-> drain'[v]]
  BY DEF Claim, OutboxInv, OutboxTypeOK
<1>6. drain' \in [Workers -> DrainRow]  BY <1>4, <1>5 DEF OutboxInv, OutboxTypeOK
<1>7. Minus(LeaseTicks, d.age) \in 0..LeaseTicks
  <2>1. d.age \in Nat /\ LeaseTicks \in Nat  BY <1>1, OutboxAssumption DEF DrainRow
  <2> QED  BY <2>1, Arithmetic
<1>8. rowLeaseLeft' \in [Rows -> 0..LeaseTicks]
  BY <1>7 DEF Claim, OutboxInv, OutboxTypeOK
<1>9. \A r \in S : drain'[w].seen[r] = attempts[r]  BY <1>4
<1>10. /\ rowOwner' = [r \in Rows |-> IF r \in S THEN w ELSE rowOwner[r]]
       /\ waived' = IF muted THEN waived \cup S ELSE waived
       /\ UNCHANGED <<rowStatus, attempts, availableIn, reported, accepted>>
  BY DEF Claim
<1> HIDE DEF counts
<1> QED  BY <1>1, <1>4, <1>5, <1>6, <1>8, <1>9, <1>10

-----------------------------------------------------------------------------
(* The invariant, action by action *)

LEMMA InitOutboxInv == Init => OutboxInv
<1> SUFFICES ASSUME Init PROVE OutboxInv
  OBVIOUS
<1>1. OutboxTypeOK  BY OutboxAssumption, NoDrainType DEF Init, OutboxTypeOK, RowStatuses
<1>2. \A w \in Workers :
        drain[w].todo = {} /\ drain[w].row = NoRow /\ drain[w].stage = "idle"
  BY NoDrainType DEF Init
<1>3. NoRow \notin Rows  BY OutboxAssumption
<1> QED
  BY <1>1, <1>2, <1>3 DEF OutboxInv, SeenCountIsCurrent, InHand, DrainedRowsExist, Works,
                          RowsAreInOnePlace, AnswersAreReal

\* A step that ends a drain and touches no row.
LEMMA LeaveKeeps ==
    ASSUME OutboxInv, NEW w \in Workers, Leave(w), UNCHANGED <<rowVars, accepted, waived>>,
           reported' \subseteq Rows
    PROVE  OutboxInv'
<1>1. OutboxTypeOK  BY DEF OutboxInv
<1>2. OutboxTypeOK'  BY <1>1, LeaveFacts DEF OutboxTypeOK, rowVars
<1>3. /\ drain'[w].stage \in {"idle", "gone"} /\ drain'[w].todo = {} /\ drain'[w].row = NoRow
      /\ \A v \in Workers : v # w => drain'[v] = drain[v]
      /\ NoRow \notin Rows
  BY <1>1, LeaveFacts, OutboxAssumption
<1> QED
  BY <1>2, <1>3 DEF OutboxInv, SeenCountIsCurrent, OwnsRow, InHand, DrainedRowsExist, Works,
                    RowsAreInOnePlace, AnswersAreReal, rowVars

\* A failed attempt that is counted.
LEMMA RescheduleKeeps ==
    ASSUME OutboxInv, NEW w \in Workers, NEW r \in Rows, Works(w, r),
           Reschedule(w, r), UNCHANGED <<reported, accepted, waived>>
    PROVE  OutboxInv'
<1>1. OutboxTypeOK  BY DEF OutboxInv
<1>2. CASE Leave(w) /\ UNCHANGED rowVars  BY <1>1, <1>2, LeaveKeeps DEF OutboxTypeOK
<1>3. CASE ~ (Leave(w) /\ UNCHANGED rowVars)
  <2>1. /\ OwnsRow(w, r)
        /\ rowStatus' = rowStatus
        /\ attempts' = [attempts EXCEPT ![r] = Least(@ + 1, StuckAt)]
        /\ availableIn' = [availableIn EXCEPT ![r] = Minus(Backoff(w, r), drain[w].age)]
        /\ rowOwner' = [rowOwner EXCEPT ![r] = NoWorker]
        /\ rowLeaseLeft' = [rowLeaseLeft EXCEPT ![r] = 0]
        /\ drain' \in [Workers -> DrainRow]
        /\ \/ drain'[w].stage = "ready" /\ drain'[w].row = NoRow
           \/ drain'[w].stage = "reporting" /\ drain'[w].row = r
        /\ drain'[w].todo = drain[w].todo \ {r}
        /\ drain'[w].muted = drain[w].muted
        /\ \A q \in Rows : q # r => drain'[w].seen[q] = drain[w].seen[q]
        /\ \A v \in Workers : v # w => drain'[v] = drain[v]
    BY <1>1, <1>3, RescheduleFacts
  <2>2. OutboxTypeOK'
    <3>1. Least(attempts[r] + 1, StuckAt) \in 0..StuckAt
      BY <1>1, OutboxAssumption DEF OutboxTypeOK, Least
    <3>2. Minus(Backoff(w, r), drain[w].age) \in 0..Horizon
      <4>1. Backoff(w, r) \in 0..Horizon /\ drain[w].age \in 0..Horizon
        BY <1>1, BackoffType DEF OutboxTypeOK, DrainRow
      <4> QED  BY <4>1, OutboxAssumption DEF Minus
    <3> QED  BY <1>1, <2>1, <3>1, <3>2, OutboxAssumption DEF OutboxTypeOK
  <2>3. SeenCountIsCurrent'
    <3> SUFFICES ASSUME NEW v \in Workers, NEW q \in Rows,
                        OwnsRow(v, q)', (q \in drain[v].todo \/ InHand(v, q))'
                 PROVE  drain'[v].seen[q] = attempts'[q]
      BY DEF SeenCountIsCurrent
    <3>1. q # r  BY <1>1, <2>1, OutboxAssumption DEF OwnsRow, OutboxTypeOK
    <3>2. OwnsRow(v, q) /\ attempts'[q] = attempts[q]
      BY <1>1, <2>1, <3>1 DEF OwnsRow, OutboxTypeOK
    <3>3. CASE v = w
      <4>1. q \in drain[v].todo  BY <2>1, <3>1, <3>3, OutboxAssumption DEF InHand
      <4> QED  BY <2>1, <3>1, <3>2, <3>3, <4>1 DEF OutboxInv, SeenCountIsCurrent
    <3>4. CASE v # w
      BY <2>1, <3>2, <3>4 DEF OutboxInv, SeenCountIsCurrent, InHand
    <3> QED  BY <3>3, <3>4
  <2>4. \A v \in Workers, q \in Rows : Works(v, q)' => Works(v, q)
    BY <2>1, OutboxAssumption DEF Works
  <2>5. DrainedRowsExist'  BY <2>1, <2>4 DEF OutboxInv, DrainedRowsExist
  <2>6. RowsAreInOnePlace'
    <3>1. \A v \in Workers : v # w => drain'[v] = drain[v]  BY <2>1
    <3>2. /\ drain'[w].row \notin drain'[w].todo
          /\ drain'[w].stage \in {"idle", "ready"} => drain'[w].row = NoRow
      <4>1. drain[w].todo \subseteq Rows  BY <1>1 DEF OutboxTypeOK, DrainRow
      <4> QED  BY <2>1, <4>1, OutboxAssumption
    <3> QED  BY <3>1, <3>2 DEF OutboxInv, RowsAreInOnePlace
  <2>7. AnswersAreReal'
    <3> SUFFICES ASSUME NEW v \in Workers, NEW q \in Rows
                 PROVE  /\ drain'[v].muted /\ Works(v, q)' => q \in waived
                        /\ drain'[v].stage = "answered" /\ drain'[v].row = q
                              => q \in accepted \cup waived
      BY DEF AnswersAreReal
    <3>1. drain'[v].muted = drain[v].muted  BY <2>1
    <3>2. drain'[v].stage = "answered" => v # w /\ drain'[v] = drain[v]  BY <2>1
    <3> QED  BY <2>4, <3>1, <3>2 DEF OutboxInv, AnswersAreReal
  <2> QED  BY <2>2, <2>3, <2>5, <2>6, <2>7 DEF OutboxInv
<1> QED  BY <1>2, <1>3

LEMMA EnqueueKeeps ==
    ASSUME OutboxInv, NEW w \in Workers, NEW r \in Rows, Enqueue(w, r)
    PROVE  OutboxInv'
<1>1. OutboxTypeOK /\ rowStatus[r] = "absent"  BY DEF OutboxInv, Enqueue
<1>2. \A v \in Workers :
        /\ drain'[v] \in DrainRow
        /\ drain'[v].stage = drain[v].stage /\ drain'[v].todo = drain[v].todo
        /\ drain'[v].row = drain[v].row /\ drain'[v].seen = drain[v].seen
        /\ drain'[v].muted = drain[v].muted
  <2> SUFFICES ASSUME NEW v \in Workers
               PROVE  /\ drain'[v] \in DrainRow
                      /\ drain'[v].stage = drain[v].stage /\ drain'[v].todo = drain[v].todo
                      /\ drain'[v].row = drain[v].row /\ drain'[v].seen = drain[v].seen
                      /\ drain'[v].muted = drain[v].muted
    OBVIOUS
  <2>1. drain[v] \in DrainRow  BY <1>1 DEF OutboxTypeOK
  <2>2. drain'[v] = drain[v] \/ drain'[v] = [drain[v] EXCEPT !.own = drain[v].own \cup {r}]
    BY <1>1 DEF Enqueue, OutboxTypeOK
  <2> QED  BY <2>1, <2>2 DEF DrainRow
<1>3. OutboxTypeOK'
  <2>1. drain' \in [Workers -> DrainRow]
    <3>1. drain' = [v \in Workers |-> drain'[v]]  BY <1>1 DEF Enqueue, OutboxTypeOK
    <3> QED  BY <1>2, <3>1
  <2> QED  BY <1>1, <2>1 DEF Enqueue, OutboxTypeOK, RowStatuses
<1>4. \A v \in Workers, q \in Rows :
        /\ Works(v, q)' <=> Works(v, q)
        /\ InHand(v, q)' <=> InHand(v, q)
        /\ Works(v, q) => q # r /\ rowStatus'[q] = rowStatus[q]
  BY <1>1, <1>2 DEF Works, InHand, OutboxInv, DrainedRowsExist, Enqueue, OutboxTypeOK
<1>5. SeenCountIsCurrent'
  <2> SUFFICES ASSUME NEW v \in Workers, NEW q \in Rows,
                      OwnsRow(v, q)', (q \in drain[v].todo \/ InHand(v, q))'
               PROVE  drain'[v].seen[q] = attempts'[q]
    BY DEF SeenCountIsCurrent
  <2>1. q \in drain[v].todo \/ InHand(v, q)  BY <1>2, <1>4
  <2>2. Works(v, q)  BY <2>1 DEF Works, InHand
  <2>3. OwnsRow(v, q)  BY <1>4, <2>2 DEF OwnsRow, Enqueue
  <2> QED  BY <1>2, <2>1, <2>3 DEF OutboxInv, SeenCountIsCurrent, Enqueue
<1>6. DrainedRowsExist'  BY <1>4 DEF OutboxInv, DrainedRowsExist
<1>7. RowsAreInOnePlace' /\ AnswersAreReal'
  BY <1>2, <1>4 DEF OutboxInv, RowsAreInOnePlace, AnswersAreReal, Enqueue
<1> QED  BY <1>3, <1>5, <1>6, <1>7 DEF OutboxInv

LEMMA ClaimKeeps ==
    ASSUME OutboxInv, NEW w \in Workers, NEW S \in SUBSET Rows, NEW muted \in BOOLEAN,
           Claim(w, S, muted)
    PROVE  OutboxInv'
<1>1. OutboxTypeOK  BY DEF OutboxInv
<1>0. /\ S \subseteq DueRows
      /\ rowOwner' = [r \in Rows |-> IF r \in S THEN w ELSE rowOwner[r]]
      /\ rowLeaseLeft' \in [Rows -> 0..LeaseTicks]
      /\ drain' \in [Workers -> DrainRow]
      /\ drain'[w].stage = "ready" /\ drain'[w].todo = S /\ drain'[w].row = drain[w].row
      /\ drain'[w].muted = muted
      /\ \A r \in S : drain'[w].seen[r] = attempts[r]
      /\ \A v \in Workers : v # w => drain'[v] = drain[v]
      /\ waived' = IF muted THEN waived \cup S ELSE waived
      /\ UNCHANGED <<rowStatus, attempts, availableIn, reported, accepted>>
  BY ClaimFacts, Zenon
<1>2. OutboxTypeOK'
  BY <1>1, <1>0 DEF OutboxTypeOK
<1>3. drain[w].row = NoRow  BY DEF Claim, OutboxInv, RowsAreInOnePlace
<1>4. SeenCountIsCurrent'
  <2> SUFFICES ASSUME NEW v \in Workers, NEW q \in Rows,
                      OwnsRow(v, q)', (q \in drain[v].todo \/ InHand(v, q))'
               PROVE  drain'[v].seen[q] = attempts'[q]
    BY DEF SeenCountIsCurrent
  <2>1. CASE v = w
    BY <1>3, <2>1, <1>0, OutboxAssumption DEF InHand
  <2>2. CASE v # w
    <3>1. q \notin S /\ OwnsRow(v, q)
      BY <2>2, <1>0 DEF OwnsRow
    <3>2. drain'[v] = drain[v] /\ attempts' = attempts  BY <2>2, <1>0
    <3> QED  BY <3>1, <3>2 DEF OutboxInv, SeenCountIsCurrent, InHand
  <2> QED  BY <2>1, <2>2
<1>5. \A q \in S : rowStatus[q] = "pending"  BY <1>0 DEF DueRows, DueRow
<1>6. DrainedRowsExist'
  BY <1>3, <1>5, <1>0, OutboxAssumption DEF OutboxInv, DrainedRowsExist, Works
<1>7. RowsAreInOnePlace'
  BY <1>3, <1>0, OutboxAssumption DEF OutboxInv, RowsAreInOnePlace
<1>8. AnswersAreReal'
  BY <1>3, <1>0, OutboxAssumption DEF OutboxInv, AnswersAreReal, Works
<1> QED  BY <1>2, <1>4, <1>6, <1>7, <1>8 DEF OutboxInv

LEMMA BeginSendKeeps ==
    ASSUME OutboxInv, NEW w \in Workers, NEW r \in Rows, BeginSend(w, r)
    PROVE  OutboxInv'
<1>1. /\ OutboxTypeOK /\ drain[w] \in DrainRow
      /\ r \in drain[w].todo /\ drain[w].row = NoRow
  BY DEF BeginSend, OutboxInv, OutboxTypeOK, RowsAreInOnePlace
<1>2. drain'[w] = [drain[w] EXCEPT !.stage = "sending", !.row = r,
                                   !.todo = drain[w].todo \ {r}]
  BY <1>1 DEF BeginSend, OutboxTypeOK
<1>3. /\ drain'[w] \in DrainRow /\ drain'[w].stage = "sending"
      /\ drain'[w].row = r /\ drain'[w].todo = drain[w].todo \ {r}
      /\ drain'[w].seen = drain[w].seen /\ drain'[w].muted = drain[w].muted
      /\ \A v \in Workers : v # w => drain'[v] = drain[v]
  BY <1>1, <1>2 DEF DrainRow, Stages, BeginSend, OutboxTypeOK
<1>4. OutboxTypeOK'
  <2>1. drain' = [v \in Workers |-> drain'[v]]  BY <1>1 DEF BeginSend, OutboxTypeOK
  <2>2. drain' \in [Workers -> DrainRow]  BY <1>1, <1>3, <2>1 DEF OutboxTypeOK
  <2> QED  BY <1>1, <2>2 DEF BeginSend, rowVars, OutboxTypeOK
<1>5. \A v \in Workers, q \in Rows : Works(v, q)' => Works(v, q)
  BY <1>1, <1>3 DEF Works
<1>6. UNCHANGED rowVars /\ UNCHANGED <<accepted, waived>>  BY DEF BeginSend
<1>7. SeenCountIsCurrent'
  <2> SUFFICES ASSUME NEW v \in Workers, NEW q \in Rows,
                      OwnsRow(v, q)', (q \in drain[v].todo \/ InHand(v, q))'
               PROVE  drain'[v].seen[q] = attempts'[q]
    BY DEF SeenCountIsCurrent
  <2>1. OwnsRow(v, q) /\ attempts' = attempts  BY <1>6 DEF OwnsRow, rowVars
  <2>2. q \in drain[v].todo \/ InHand(v, q)  BY <1>1, <1>3 DEF InHand
  <2> QED  BY <1>3, <2>1, <2>2 DEF OutboxInv, SeenCountIsCurrent
<1>8. DrainedRowsExist'  BY <1>5, <1>6 DEF OutboxInv, DrainedRowsExist, rowVars
<1>9. RowsAreInOnePlace' /\ AnswersAreReal'
  BY <1>1, <1>3, <1>5, <1>6 DEF OutboxInv, RowsAreInOnePlace, AnswersAreReal
<1> QED  BY <1>4, <1>7, <1>8, <1>9 DEF OutboxInv

LEMMA AcceptKeeps ==
    ASSUME OutboxInv, NEW w \in Workers, NEW r \in Rows, Accept(w, r)
    PROVE  OutboxInv'
<1>1. /\ OutboxTypeOK /\ drain[w] \in DrainRow
      /\ drain[w].stage = "sending" /\ drain[w].row = r
  BY DEF Accept, OutboxInv, OutboxTypeOK
<1>2. drain'[w] = [drain[w] EXCEPT !.stage = "answered"]
  BY <1>1 DEF Accept, OutboxTypeOK
<1>3. /\ drain'[w] \in DrainRow /\ drain'[w].stage = "answered"
      /\ drain'[w].row = drain[w].row /\ drain'[w].todo = drain[w].todo
      /\ drain'[w].seen = drain[w].seen /\ drain'[w].muted = drain[w].muted
      /\ \A v \in Workers : v # w => drain'[v] = drain[v]
  BY <1>1, <1>2 DEF DrainRow, Stages, Accept, OutboxTypeOK
<1>4. OutboxTypeOK'
  <2>1. drain' = [v \in Workers |-> drain'[v]]  BY <1>1 DEF Accept, OutboxTypeOK
  <2>2. drain' \in [Workers -> DrainRow]  BY <1>1, <1>3, <2>1 DEF OutboxTypeOK
  <2> QED  BY <1>1, <2>2 DEF Accept, rowVars, OutboxTypeOK
<1>5. /\ UNCHANGED rowVars /\ UNCHANGED waived
      /\ accepted \subseteq accepted'
      /\ r \in accepted' \/ drain[w].muted
  <2>1. drain[w].muted \in BOOLEAN  BY <1>1 DEF DrainRow
  <2> QED  BY <2>1 DEF Accept
<1>6. \A v \in Workers, q \in Rows :
        (Works(v, q)' => Works(v, q)) /\ (InHand(v, q)' => InHand(v, q))
  BY <1>1, <1>3 DEF Works, InHand
<1>7. SeenCountIsCurrent'
  BY <1>3, <1>5, <1>6 DEF OutboxInv, SeenCountIsCurrent, OwnsRow, rowVars
<1>8. DrainedRowsExist'  BY <1>5, <1>6 DEF OutboxInv, DrainedRowsExist, rowVars
<1>9. RowsAreInOnePlace'  BY <1>1, <1>3 DEF OutboxInv, RowsAreInOnePlace
<1>10. AnswersAreReal'
  <2> SUFFICES ASSUME NEW v \in Workers, NEW q \in Rows
               PROVE  /\ drain'[v].muted /\ Works(v, q)' => q \in waived'
                      /\ drain'[v].stage = "answered" /\ drain'[v].row = q
                            => q \in accepted' \cup waived'
    BY DEF AnswersAreReal
  <2>1. drain'[v].muted = drain[v].muted  BY <1>3
  <2>2. drain'[v].muted /\ Works(v, q)' => q \in waived'
    BY <1>5, <1>6, <2>1 DEF OutboxInv, AnswersAreReal
  <2>3. CASE v = w
    <3>1. drain[w].muted => r \in waived
      BY <1>1 DEF OutboxInv, AnswersAreReal, Works
    <3> QED  BY <1>1, <1>3, <1>5, <2>2, <2>3, <3>1
  <2>4. CASE v # w
    BY <1>3, <1>5, <2>2, <2>4 DEF OutboxInv, AnswersAreReal
  <2> QED  BY <2>3, <2>4
<1> QED  BY <1>4, <1>7, <1>8, <1>9, <1>10 DEF OutboxInv

LEMMA MarkDeliveredKeeps ==
    ASSUME OutboxInv, NEW w \in Workers, NEW r \in Rows, MarkDelivered(w, r)
    PROVE  OutboxInv'
<1>1. OutboxTypeOK /\ drain[w].row = r  BY DEF OutboxInv, MarkDelivered
<1>2. UNCHANGED <<reported, accepted, waived>>  BY DEF MarkDelivered
<1>3. CASE Leave(w) /\ UNCHANGED rowVars
  BY <1>1, <1>2, <1>3, LeaveKeeps DEF OutboxTypeOK
<1>4. CASE ~ (Leave(w) /\ UNCHANGED rowVars)
  <2>1. /\ rowStatus' = [rowStatus EXCEPT ![r] = "delivered"]
        /\ ClearLease(r) /\ NextRow(w) /\ UNCHANGED <<attempts, availableIn>>
    BY <1>4 DEF MarkDelivered
  <2>2. /\ drain' \in [Workers -> DrainRow]
        /\ drain'[w].stage = "ready" /\ drain'[w].todo = drain[w].todo
        /\ drain'[w].row = NoRow /\ drain'[w].muted = drain[w].muted
        /\ \A q \in Rows : q # r => drain'[w].seen[q] = drain[w].seen[q]
        /\ \A v \in Workers : v # w => drain'[v] = drain[v]
    BY <1>1, <2>1, NextRowFacts
  <2>3. OutboxTypeOK'
    BY <1>1, <1>2, <2>1, <2>2, OutboxAssumption DEF OutboxTypeOK, ClearLease, RowStatuses
  <2>4. \A v \in Workers, q \in Rows : Works(v, q)' => Works(v, q)
    BY <2>2, OutboxAssumption DEF Works
  <2>5. \A q \in Rows : q # r => rowStatus'[q] = rowStatus[q] /\ rowOwner'[q] = rowOwner[q]
    BY <1>1, <2>1 DEF ClearLease, OutboxTypeOK
  <2>6. rowStatus'[r] = "delivered"  BY <1>1, <2>1 DEF OutboxTypeOK
  <2>7. SeenCountIsCurrent'
    <3> SUFFICES ASSUME NEW v \in Workers, NEW q \in Rows,
                        OwnsRow(v, q)', (q \in drain[v].todo \/ InHand(v, q))'
                 PROVE  drain'[v].seen[q] = attempts'[q]
      BY DEF SeenCountIsCurrent
    <3>1. q # r /\ OwnsRow(v, q)  BY <2>5, <2>6 DEF OwnsRow
    <3>2. q \in drain[v].todo \/ InHand(v, q)
      BY <2>2, <3>1, OutboxAssumption DEF InHand
    <3>3. drain'[v].seen[q] = drain[v].seen[q]  BY <2>2, <3>1
    <3> QED  BY <2>1, <3>1, <3>2, <3>3 DEF OutboxInv, SeenCountIsCurrent
  <2>8. DrainedRowsExist'
    BY <2>4, <2>5, <2>6 DEF OutboxInv, DrainedRowsExist
  <2>9. RowsAreInOnePlace'
    <3>1. drain[w].todo \subseteq Rows  BY <1>1 DEF OutboxTypeOK, DrainRow
    <3> QED  BY <2>2, <3>1, OutboxAssumption DEF OutboxInv, RowsAreInOnePlace
  <2>10. AnswersAreReal'
    <3>1. \A v \in Workers : drain'[v].muted = drain[v].muted  BY <2>2
    <3> QED  BY <1>2, <2>2, <2>4, <3>1 DEF OutboxInv, AnswersAreReal
  <2> QED  BY <2>3, <2>7, <2>8, <2>9, <2>10 DEF OutboxInv
<1> QED  BY <1>3, <1>4

LEMMA ReportKeeps ==
    ASSUME OutboxInv, NEW w \in Workers, NEW r \in Rows, Report(w, r)
    PROVE  OutboxInv'
<1>1. /\ OutboxTypeOK /\ drain[w].row = r /\ drain[w].stage = "reporting"
      /\ NextRow(w) /\ UNCHANGED rowVars /\ UNCHANGED <<accepted, waived>>
      /\ reported' \subseteq Rows
  BY DEF OutboxInv, OutboxTypeOK, Report
<1>2. /\ drain' \in [Workers -> DrainRow]
      /\ drain'[w].stage = "ready" /\ drain'[w].todo = drain[w].todo
      /\ drain'[w].row = NoRow /\ drain'[w].muted = drain[w].muted
      /\ \A q \in Rows : q # r => drain'[w].seen[q] = drain[w].seen[q]
      /\ \A v \in Workers : v # w => drain'[v] = drain[v]
  BY <1>1, NextRowFacts
<1>3. OutboxTypeOK'  BY <1>1, <1>2 DEF OutboxTypeOK, rowVars
<1>4. \A v \in Workers, q \in Rows : Works(v, q)' => Works(v, q)
  BY <1>2, OutboxAssumption DEF Works
<1>5. SeenCountIsCurrent'
  <2> SUFFICES ASSUME NEW v \in Workers, NEW q \in Rows,
                      OwnsRow(v, q)', (q \in drain[v].todo \/ InHand(v, q))'
               PROVE  drain'[v].seen[q] = attempts'[q]
    BY DEF SeenCountIsCurrent
  <2>1. OwnsRow(v, q) /\ attempts' = attempts  BY <1>1 DEF OwnsRow, rowVars
  <2>2. q \in drain[v].todo \/ InHand(v, q)
    BY <1>2, OutboxAssumption DEF InHand
  <2>3. drain'[v].seen[q] = drain[v].seen[q]
    BY <1>1, <1>2, <2>2 DEF OutboxInv, RowsAreInOnePlace, InHand
  <2> QED  BY <2>1, <2>2, <2>3 DEF OutboxInv, SeenCountIsCurrent
<1>6. DrainedRowsExist'  BY <1>1, <1>4 DEF OutboxInv, DrainedRowsExist, rowVars
<1>7. RowsAreInOnePlace'
  <2>1. drain[w].todo \subseteq Rows  BY <1>1 DEF OutboxTypeOK, DrainRow
  <2> QED  BY <1>2, <2>1, OutboxAssumption DEF OutboxInv, RowsAreInOnePlace
<1>8. AnswersAreReal'
  <2>1. \A v \in Workers : drain'[v].muted = drain[v].muted  BY <1>2
  <2> QED  BY <1>1, <1>2, <1>4, <2>1 DEF OutboxInv, AnswersAreReal
<1> QED  BY <1>3, <1>5, <1>6, <1>7, <1>8 DEF OutboxInv

LEMMA PurgeKeeps ==
    ASSUME OutboxInv, NEW r \in Rows, Purge(r)
    PROVE  OutboxInv'
<1>1. OutboxTypeOK  BY DEF OutboxInv
<1>2. OutboxTypeOK'
  BY <1>1, OutboxAssumption DEF Purge, OutboxTypeOK, ClearLease, RowStatuses
<1>3. \A q \in Rows : q # r => /\ rowStatus'[q] = rowStatus[q] /\ rowOwner'[q] = rowOwner[q]
                              /\ attempts'[q] = attempts[q]
  BY <1>1 DEF Purge, OutboxTypeOK, ClearLease
<1>4. rowStatus'[r] = "purged"  BY <1>1 DEF Purge, OutboxTypeOK
<1>5. UNCHANGED <<accepted, waived, drain>>  BY DEF Purge
<1>6. SeenCountIsCurrent'
  BY <1>3, <1>4, <1>5 DEF OutboxInv, SeenCountIsCurrent, OwnsRow, InHand
<1>7. DrainedRowsExist' /\ RowsAreInOnePlace' /\ AnswersAreReal'
  BY <1>3, <1>4, <1>5
  DEF OutboxInv, DrainedRowsExist, RowsAreInOnePlace, AnswersAreReal, Works
<1> QED  BY <1>2, <1>6, <1>7 DEF OutboxInv

LEMMA TickKeeps ==
    ASSUME OutboxInv, Tick
    PROVE  OutboxInv'
<1>1. OutboxTypeOK  BY DEF OutboxInv
<1>2. \A v \in Workers :
        /\ drain'[v] \in DrainRow
        /\ drain'[v].stage = drain[v].stage /\ drain'[v].todo = drain[v].todo
        /\ drain'[v].row = drain[v].row /\ drain'[v].seen = drain[v].seen
        /\ drain'[v].muted = drain[v].muted
  <2> SUFFICES ASSUME NEW d \in DrainRow
               PROVE  /\ Older(d) \in DrainRow
                      /\ Older(d).stage = d.stage /\ Older(d).todo = d.todo
                      /\ Older(d).row = d.row /\ Older(d).seen = d.seen
                      /\ Older(d).muted = d.muted
    BY <1>1 DEF Tick, OutboxTypeOK
  <2> DEFINE age == IF d.stage \in {"idle", "gone"} THEN d.age ELSE Least(d.age + 1, Horizon)
  <2>1. age \in 0..Horizon  BY OutboxAssumption DEF DrainRow, Least
  <2>2. Older(d) = [d EXCEPT !.age = age]  BY DEF Older, DrainRow
  <2> HIDE DEF age
  <2> QED  BY <2>1, <2>2 DEF DrainRow
<1>3. OutboxTypeOK'
  <2>1. \A r \in Rows : /\ Minus(availableIn[r], 1) \in 0..Horizon
                        /\ Minus(rowLeaseLeft[r], 1) \in 0..LeaseTicks
    BY <1>1, OutboxAssumption DEF OutboxTypeOK, Minus
  <2>2. drain' \in [Workers -> DrainRow]  BY <1>1, <1>2 DEF Tick, OutboxTypeOK
  <2> QED  BY <1>1, <2>1, <2>2 DEF Tick, OutboxTypeOK
<1>4. UNCHANGED <<rowStatus, attempts, rowOwner, accepted, waived>>  BY DEF Tick
<1> QED
  BY <1>2, <1>3, <1>4
  DEF OutboxInv, SeenCountIsCurrent, OwnsRow, InHand, DrainedRowsExist, RowsAreInOnePlace,
      AnswersAreReal, Works

LEMMA NextOutboxInv == OutboxInv /\ [Next]_vars => OutboxInv'
<1> SUFFICES ASSUME OutboxInv, [Next]_vars PROVE OutboxInv'
  OBVIOUS
<1>1. CASE UNCHANGED vars
  BY <1>1 DEF vars, rowVars, OutboxInv, OutboxTypeOK, SeenCountIsCurrent, OwnsRow, InHand,
              DrainedRowsExist, RowsAreInOnePlace, AnswersAreReal, Works
<1>2. ASSUME NEW w \in Workers, NEW r \in Rows, Enqueue(w, r)  PROVE OutboxInv'
  BY <1>2, EnqueueKeeps
<1>3. ASSUME NEW w \in Workers, ClaimSome(w)  PROVE OutboxInv'
  BY <1>3, ClaimKeeps DEF ClaimSome
<1>4. ASSUME NEW w \in Workers, DrainStep(w)  PROVE OutboxInv'
  <2>1. CASE EndDrain(w)
    BY <2>1, LeaveKeeps DEF EndDrain, OutboxInv, OutboxTypeOK
  <2>2. ASSUME NEW r \in Rows, TargetFails(w, r)  PROVE OutboxInv'
    BY <2>2, RescheduleKeeps DEF TargetFails, Works
  <2>3. ASSUME NEW r \in Rows, BeginSend(w, r)  PROVE OutboxInv'
    BY <2>3, BeginSendKeeps
  <2>4. ASSUME NEW r \in Rows, Accept(w, r)  PROVE OutboxInv'
    BY <2>4, AcceptKeeps
  <2>5. ASSUME NEW r \in Rows, MarkDelivered(w, r)  PROVE OutboxInv'
    BY <2>5, MarkDeliveredKeeps
  <2>6. ASSUME NEW r \in Rows, SendFails(w, r)  PROVE OutboxInv'
    BY <2>6, RescheduleKeeps DEF SendFails, Works, InHand
  <2>7. ASSUME NEW r \in Rows, Report(w, r)  PROVE OutboxInv'
    BY <2>7, ReportKeeps
  <2> QED  BY <1>4, <2>1, <2>2, <2>3, <2>4, <2>5, <2>6, <2>7 DEF DrainStep
<1>5. ASSUME NEW w \in Workers, Crash(w)  PROVE OutboxInv'
  BY <1>5, LeaveKeeps DEF Crash, OutboxInv, OutboxTypeOK
<1>6. ASSUME NEW r \in Rows, Purge(r)  PROVE OutboxInv'
  BY <1>6, PurgeKeeps
<1>7. CASE Tick  BY <1>7, TickKeeps
<1> QED  BY <1>1, <1>2, <1>3, <1>4, <1>5, <1>6, <1>7 DEF Next

-----------------------------------------------------------------------------
(* Theorems *)

LEMMA OutboxInvariant == Spec => []OutboxInv
BY InitOutboxInv, NextOutboxInv, PTL DEF Spec

\* The outbox rows and the drains in memory keep their types through late answers,
\* crashes and retention.
THEOREM OutboxTypes == Spec => []OutboxTypeOK
<1>1. OutboxInv => OutboxTypeOK  BY DEF OutboxInv
<1> QED  BY <1>1, OutboxInvariant, PTL

\* A drain that still owns a row has its attempt count (drain_once, reschedule_outbox).
THEOREM OutboxSafety == Spec => []SeenCountIsCurrent
<1>1. OutboxInv => SeenCountIsCurrent  BY DEF OutboxInv
<1> QED  BY <1>1, OutboxInvariant, PTL

\* Only the worker's own steps move its drain to another stage.
LEMMA WhoMovesTheStage ==
    ASSUME OutboxInv, [Next]_vars, NEW w \in Workers, drain'[w].stage # drain[w].stage
    PROVE  ClaimSome(w) \/ DrainStep(w) \/ Crash(w)
<1>1. OutboxTypeOK /\ drain[w] \in DrainRow  BY DEF OutboxInv, OutboxTypeOK
<1>2. ~ UNCHANGED drain  OBVIOUS
<1>3. ASSUME NEW v \in Workers, v # w, drain'[w] # drain[w]
      PROVE  ~ ClaimSome(v) /\ ~ DrainStep(v) /\ ~ Crash(v)
  <2>1. ~ Leave(v)  BY <1>1, <1>3 DEF Leave, OutboxTypeOK
  <2>2. ~ NextRow(v)  BY <1>1, <1>3 DEF NextRow, OutboxTypeOK
  <2>3. \A r \in Rows : ~ Reschedule(v, r)
    BY <1>1, <1>3, <2>1 DEF Reschedule, OutboxTypeOK
  <2>4. ~ ClaimSome(v)  BY <1>1, <1>3 DEF ClaimSome, Claim, OutboxTypeOK
  <2>5. \A r \in Rows : ~ BeginSend(v, r) /\ ~ Accept(v, r)
    BY <1>1, <1>3 DEF BeginSend, Accept, OutboxTypeOK
  <2>6. \A r \in Rows : ~ MarkDelivered(v, r) /\ ~ Report(v, r)
    BY <2>1, <2>2 DEF MarkDelivered, Report
  <2>7. \A r \in Rows : ~ TargetFails(v, r) /\ ~ SendFails(v, r)
    BY <2>3 DEF TargetFails, SendFails
  <2>8. ~ EndDrain(v) /\ ~ Crash(v)  BY <2>1 DEF EndDrain, Crash
  <2> QED  BY <2>4, <2>5, <2>6, <2>7, <2>8 DEF DrainStep
<1>4. \A v \in Workers, r \in Rows : ~ Enqueue(v, r)
  <2> SUFFICES ASSUME NEW v \in Workers, NEW r \in Rows, Enqueue(v, r)
               PROVE  drain'[w].stage = drain[w].stage
    OBVIOUS
  <2>1. drain'[w] = drain[w] \/ drain'[w] = [drain[w] EXCEPT !.own = drain[w].own \cup {r}]
    BY <1>1 DEF Enqueue, OutboxTypeOK
  <2> QED  BY <1>1, <2>1 DEF DrainRow
<1>5. \A r \in Rows : ~ Purge(r)  BY <1>2 DEF Purge
<1>6. ~ Tick
  <2> SUFFICES ASSUME Tick PROVE drain'[w].stage = drain[w].stage
    OBVIOUS
  <2>1. drain'[w] = Older(drain[w])  BY DEF Tick
  <2> QED  BY <1>1, <2>1 DEF Older, DrainRow
<1>7. ~ UNCHANGED vars  BY <1>2 DEF vars
<1> QED  BY <1>3, <1>4, <1>5, <1>6, <1>7 DEF Next

\* An answer that comes after the lease was lost is dropped.
THEOREM LateOutboxAnswersAreRefused == Spec => LateAnswersAreRefused
<1>1. ASSUME OutboxInv, [Next]_vars, NEW w \in Workers, NEW r \in Rows,
             InHand(w, r), ~OwnsRow(w, r), drain'[w].stage # drain[w].stage
      PROVE  UNCHANGED rowVars
  <2>1. ClaimSome(w) \/ DrainStep(w) \/ Crash(w)  BY <1>1, WhoMovesTheStage
  <2>2. ~ ClaimSome(w) /\ ~ EndDrain(w)
    BY <1>1 DEF InHand, ClaimSome, Claim, EndDrain
  <2>3. CASE Crash(w)  BY <2>3 DEF Crash
  <2>4. ASSUME NEW q \in Rows, Accept(w, q) \/ Report(w, q) \/ BeginSend(w, q)
        PROVE  UNCHANGED rowVars
    BY <2>4 DEF Accept, Report, BeginSend
  <2>5. ASSUME NEW q \in Rows, TargetFails(w, q)  PROVE FALSE
    BY <1>1, <2>5 DEF InHand, TargetFails
  <2>6. ASSUME NEW q \in Rows, SendFails(w, q)  PROVE UNCHANGED rowVars
    <3>1. q = r /\ Reschedule(w, r)  BY <1>1, <2>6 DEF InHand, SendFails
    <3> QED  BY <1>1, <3>1, RescheduleFacts DEF OutboxInv
  <2>7. ASSUME NEW q \in Rows, MarkDelivered(w, q)  PROVE UNCHANGED rowVars
    <3>1. q = r  BY <1>1, <2>7 DEF InHand, MarkDelivered
    <3>2. \A commit \in MayWrite(w, r) : ~commit  BY <1>1 DEF MayWrite
    <3> QED  BY <2>7, <3>1, <3>2 DEF MarkDelivered
  <2> QED  BY <2>1, <2>2, <2>3, <2>4, <2>5, <2>6, <2>7 DEF DrainStep
<1>2. OutboxInv /\ [Next]_vars =>
        [\A w \in Workers, r \in Rows :
            /\ InHand(w, r) /\ ~OwnsRow(w, r)
            /\ drain'[w].stage # drain[w].stage
            => UNCHANGED rowVars]_vars
  BY <1>1
<1> QED  BY <1>2, OutboxInvariant, PTL DEF Spec, LateAnswersAreRefused

-----------------------------------------------------------------------------
(* Reports and delays *)

\* A second invariant, beside the first: a row about to be reported has failed often
\* enough, or retention has taken it away since.
ReportersHaveCause ==
    \A w \in Workers, r \in Rows :
        drain[w].stage = "reporting" /\ drain[w].row = r =>
            attempts[r] = StuckAt \/ rowStatus[r] = "purged"

\* A step that counts no failure: no new drain reports, and what is written as
\* reported was about to be.
Quiet ==
    /\ \A r \in Rows :
           \/ /\ attempts'[r] = attempts[r]
              /\ rowStatus[r] = "purged" => rowStatus'[r] = "purged"
           \/ attempts'[r] = 0 /\ rowStatus'[r] = "purged"
    /\ \A w \in Workers :
           drain'[w].stage = "reporting" =>
               drain[w].stage = "reporting" /\ drain'[w].row = drain[w].row
    /\ \A r \in reported' \ reported :
           \E w \in Workers : drain[w].stage = "reporting" /\ drain[w].row = r

\* A step that counts a failure of row r in the drain of w.
Counts(w, r) ==
    /\ OwnsRow(w, r) /\ drain[w].seen[r] = attempts[r]
    /\ rowStatus' = rowStatus /\ reported' = reported
    /\ attempts' = [attempts EXCEPT ![r] = Least(@ + 1, StuckAt)]
    /\ availableIn' = [availableIn EXCEPT ![r] = Minus(Backoff(w, r), drain[w].age)]
    /\ drain'[w].stage = "reporting" => drain'[w].row = r
    /\ drain'[w].stage = "reporting" <=> drain[w].seen[r] + 1 >= StuckAt
    /\ \A v \in Workers : v # w => drain'[v] = drain[v]

LEMMA RescheduleCounts ==
    ASSUME OutboxInv, NEW w \in Workers, NEW r \in Rows,
           r \in drain[w].todo \/ InHand(w, r), Reschedule(w, r), UNCHANGED reported
    PROVE  Quiet \/ Counts(w, r)
<1>1. OutboxTypeOK  BY DEF OutboxInv
<1>2. CASE Leave(w) /\ UNCHANGED rowVars
  BY <1>1, <1>2, LeaveFacts DEF Quiet, rowVars
<1>3. CASE ~ (Leave(w) /\ UNCHANGED rowVars)
  <2>1. /\ OwnsRow(w, r)
        /\ rowStatus' = rowStatus
        /\ attempts' = [attempts EXCEPT ![r] = Least(@ + 1, StuckAt)]
        /\ availableIn' = [availableIn EXCEPT ![r] = Minus(Backoff(w, r), drain[w].age)]
        /\ \/ drain'[w].stage = "ready" /\ drain'[w].row = NoRow
           \/ drain'[w].stage = "reporting" /\ drain'[w].row = r
        /\ drain'[w].stage = "reporting" <=> drain[w].seen[r] + 1 >= StuckAt
        /\ \A v \in Workers : v # w => drain'[v] = drain[v]
    BY <1>1, <1>3, RescheduleFacts
  <2>2. drain[w].seen[r] = attempts[r]  BY <2>1 DEF OutboxInv, SeenCountIsCurrent
  <2> QED  BY <2>1, <2>2 DEF Counts
<1> QED  BY <1>2, <1>3

\* Every step counts one failure or none.
LEMMA StepsCountOneFailure ==
    ASSUME OutboxInv, [Next]_vars
    PROVE  Quiet \/ \E w \in Workers, r \in Rows : Counts(w, r)
<1>1. OutboxTypeOK  BY DEF OutboxInv
<1>2. ASSUME NEW w \in Workers, Leave(w), UNCHANGED rowVars, UNCHANGED reported  PROVE Quiet
  BY <1>1, <1>2, LeaveFacts DEF Quiet, rowVars
<1>3. ASSUME UNCHANGED <<rowStatus, attempts, reported>>,
             \A w \in Workers : drain'[w].stage = drain[w].stage /\ drain'[w].row = drain[w].row
      PROVE  Quiet
  BY <1>3 DEF Quiet
<1>4. ASSUME NEW w \in Workers, NEW r \in Rows, Enqueue(w, r)  PROVE Quiet
  <2>1. \A v \in Workers : drain'[v].stage = drain[v].stage /\ drain'[v].row = drain[v].row
    <3> SUFFICES ASSUME NEW v \in Workers
                 PROVE  drain'[v].stage = drain[v].stage /\ drain'[v].row = drain[v].row
      OBVIOUS
    <3>1. drain'[v] = drain[v] \/ drain'[v] = [drain[v] EXCEPT !.own = drain[v].own \cup {r}]
      BY <1>1, <1>4 DEF Enqueue, OutboxTypeOK
    <3> QED  BY <1>1, <3>1 DEF OutboxTypeOK, DrainRow
  <2>2. /\ attempts' = attempts /\ reported' = reported /\ rowStatus[r] = "absent"
        /\ \A q \in Rows : q # r => rowStatus'[q] = rowStatus[q]
    BY <1>1, <1>4 DEF Enqueue, OutboxTypeOK
  <2> QED  BY <2>1, <2>2 DEF Quiet
<1>5. ASSUME NEW w \in Workers, ClaimSome(w)  PROVE Quiet
  <2>1. PICK S \in SUBSET Rows, muted \in BOOLEAN : Claim(w, S, muted)
    BY <1>5 DEF ClaimSome
  <2>2. /\ drain'[w].stage = "ready" /\ UNCHANGED <<rowStatus, attempts, reported>>
        /\ \A v \in Workers : v # w => drain'[v] = drain[v]
    BY <2>1, ClaimFacts
  <2> QED  BY <2>2 DEF Quiet
<1>6. ASSUME NEW w \in Workers, NEW r \in Rows, BeginSend(w, r) \/ Accept(w, r)  PROVE Quiet
  <2>1. UNCHANGED <<rowVars, reported>>  BY <1>6 DEF BeginSend, Accept
  <2>2. \A v \in Workers : v # w => drain'[v] = drain[v]
    BY <1>1, <1>6 DEF BeginSend, Accept, OutboxTypeOK
  <2>3. drain'[w].stage # "reporting"
    BY <1>1, <1>6 DEF BeginSend, Accept, OutboxTypeOK, DrainRow
  <2> QED  BY <2>1, <2>2, <2>3 DEF Quiet, rowVars
<1>7. ASSUME NEW w \in Workers, NEW r \in Rows, MarkDelivered(w, r)  PROVE Quiet
  <2>1. CASE Leave(w) /\ UNCHANGED rowVars  BY <1>2, <1>7, <2>1 DEF MarkDelivered
  <2>2. CASE ~ (Leave(w) /\ UNCHANGED rowVars)
    <3>1. /\ rowStatus' = [rowStatus EXCEPT ![r] = "delivered"]
          /\ NextRow(w) /\ attempts' = attempts /\ reported' = reported /\ OwnsRow(w, r)
      BY <1>7, <2>2 DEF MarkDelivered, MayWrite
    <3>2. rowStatus[r] # "purged" /\ \A q \in Rows : q # r => rowStatus'[q] = rowStatus[q]
      BY <1>1, <3>1 DEF OwnsRow, OutboxTypeOK
    <3>3. drain'[w].stage = "ready" /\ \A v \in Workers : v # w => drain'[v] = drain[v]
      BY <1>1, <3>1, NextRowFacts
    <3> QED  BY <3>1, <3>2, <3>3 DEF Quiet
  <2> QED  BY <2>1, <2>2
<1>8. ASSUME NEW w \in Workers, NEW r \in Rows, Report(w, r)  PROVE Quiet
  <2>1. /\ drain[w].stage = "reporting" /\ drain[w].row = r /\ reported' = reported \cup {r}
        /\ NextRow(w) /\ UNCHANGED rowVars
    BY <1>8 DEF Report
  <2>2. drain'[w].stage = "ready" /\ \A v \in Workers : v # w => drain'[v] = drain[v]
    BY <1>1, <2>1, NextRowFacts
  <2> QED  BY <2>1, <2>2 DEF Quiet, rowVars
<1>9. ASSUME NEW r \in Rows, Purge(r)  PROVE Quiet
  BY <1>1, <1>9 DEF Quiet, Purge, OutboxTypeOK
<1>10. CASE Tick
  <2>1. \A w \in Workers : drain'[w] = Older(drain[w])  BY <1>10 DEF Tick
  <2>2. ASSUME NEW d \in DrainRow  PROVE Older(d).stage = d.stage /\ Older(d).row = d.row
    <3> DEFINE age == IF d.stage \in {"idle", "gone"} THEN d.age ELSE Least(d.age + 1, Horizon)
    <3>1. Older(d) = [d EXCEPT !.age = age]  BY DEF Older, DrainRow
    <3> HIDE DEF age
    <3> QED  BY <3>1 DEF DrainRow
  <2>3. \A w \in Workers : drain'[w].stage = drain[w].stage /\ drain'[w].row = drain[w].row
    BY <1>1, <2>1, <2>2 DEF OutboxTypeOK
  <2> QED  BY <1>3, <1>10, <2>3 DEF Tick
<1>11. CASE UNCHANGED vars  BY <1>3, <1>11 DEF vars, rowVars
<1>12. ASSUME NEW w \in Workers, Crash(w) \/ EndDrain(w)  PROVE Quiet
  BY <1>2, <1>12 DEF Crash, EndDrain
<1>13. ASSUME NEW w \in Workers, NEW r \in Rows, TargetFails(w, r) \/ SendFails(w, r)
       PROVE  Quiet \/ Counts(w, r)
  BY <1>13, RescheduleCounts DEF TargetFails, SendFails
<1>14. ASSUME NEW w \in Workers, DrainStep(w)  PROVE Quiet \/ \E r \in Rows : Counts(w, r)
  BY <1>6, <1>7, <1>8, <1>12, <1>13, <1>14 DEF DrainStep
<1> QED
  BY <1>4, <1>5, <1>9, <1>10, <1>11, <1>12, <1>14 DEF Next

\* What a counted failure does to the count.
LEMMA CountedFacts ==
    ASSUME OutboxInv, NEW w \in Workers, NEW r \in Rows, Counts(w, r)
    PROVE  /\ \A q \in Rows : q # r => attempts'[q] = attempts[q]
           /\ attempts'[r] = StuckAt <=> attempts[r] + 1 >= StuckAt
           /\ attempts'[r] > attempts[r] => attempts'[r] = attempts[r] + 1
           /\ attempts[r] = StuckAt => attempts'[r] = StuckAt
<1>1. attempts \in [Rows -> 0..StuckAt] /\ StuckAt \in Nat
  BY OutboxAssumption DEF OutboxInv, OutboxTypeOK
<1>2. attempts'[r] = Least(attempts[r] + 1, StuckAt)
      /\ \A q \in Rows : q # r => attempts'[q] = attempts[q]
  BY <1>1 DEF Counts
<1>3. attempts[r] \in 0..StuckAt  BY <1>1
<1> QED  BY <1>1, <1>2, <1>3 DEF Least

LEMMA ReportersKeepTheirCause ==
    ASSUME OutboxInv, ReportersHaveCause, [Next]_vars
    PROVE  ReportersHaveCause'
<1>1. CASE Quiet  BY <1>1 DEF Quiet, ReportersHaveCause
<1>2. ASSUME NEW w \in Workers, NEW r \in Rows, Counts(w, r)  PROVE ReportersHaveCause'
  <2> SUFFICES ASSUME NEW v \in Workers, NEW q \in Rows,
                      drain'[v].stage = "reporting", drain'[v].row = q
               PROVE  attempts'[q] = StuckAt \/ rowStatus'[q] = "purged"
    BY DEF ReportersHaveCause
  <2>1. CASE v = w
    <3>1. q = r /\ attempts[r] + 1 >= StuckAt  BY <1>2, <2>1 DEF Counts
    <3> QED  BY <1>2, <3>1, CountedFacts
  <2>2. CASE v # w
    <3>1. attempts[q] = StuckAt \/ rowStatus[q] = "purged"
      BY <1>2, <2>2 DEF Counts, ReportersHaveCause
    <3> QED  BY <1>2, <3>1, CountedFacts DEF Counts
  <2> QED  BY <2>1, <2>2
<1> QED  BY <1>1, <1>2, StepsCountOneFailure

\* A failure waits and is reported by the row's own count, though both are computed
\* from the count of the claim (_reschedule).
THEOREM FailuresAreEscalated == Spec => FailuresEscalateOnTime
<1>1. Init => ReportersHaveCause  BY NoDrainType DEF Init, ReportersHaveCause
<1>2. ASSUME OutboxInv, ReportersHaveCause, [Next]_vars, NEW r \in Rows
      PROVE  /\ r \in reported' \ reported =>
                    attempts[r] = StuckAt \/ rowStatus[r] = "purged"
             /\ attempts'[r] > attempts[r] =>
                    /\ attempts'[r] = StuckAt
                       <=> \E w \in Workers : drain'[w].stage = "reporting" /\ drain'[w].row = r
                    /\ \E w \in Workers :
                           /\ rowOwner[r] = w
                           /\ availableIn'[r] =
                                  Minus(Delays[Least(attempts'[r], Len(Delays))], drain[w].age)
  <2>1. attempts[r] \in 0..StuckAt /\ StuckAt \in Nat
    BY <1>2, OutboxAssumption DEF OutboxInv, OutboxTypeOK
  <2>2. CASE Quiet
    <3>1. r \in reported' \ reported => attempts[r] = StuckAt \/ rowStatus[r] = "purged"
      BY <1>2, <2>2 DEF Quiet, ReportersHaveCause
    <3>2. ~ (attempts'[r] > attempts[r])  BY <2>1, <2>2 DEF Quiet
    <3> QED  BY <3>1, <3>2
  <2>3. ASSUME NEW w \in Workers, NEW q \in Rows, Counts(w, q), attempts'[r] > attempts[r]
        PROVE  /\ attempts'[r] = StuckAt
                  <=> \E v \in Workers : drain'[v].stage = "reporting" /\ drain'[v].row = r
               /\ \E v \in Workers :
                      /\ rowOwner[r] = v
                      /\ availableIn'[r] =
                             Minus(Delays[Least(attempts'[r], Len(Delays))], drain[v].age)
    <3>1. q = r  BY <1>2, <2>1, <2>3, CountedFacts
    <3>2. /\ attempts'[r] = attempts[r] + 1 /\ attempts[r] # StuckAt
          /\ attempts'[r] = StuckAt <=> attempts[r] + 1 >= StuckAt
      BY <1>2, <2>1, <2>3, <3>1, CountedFacts
    <3>3. drain'[w].stage = "reporting" <=> attempts'[r] = StuckAt
      BY <2>3, <3>1, <3>2 DEF Counts
    <3>4. \A v \in Workers : v # w => ~ (drain'[v].stage = "reporting" /\ drain'[v].row = r)
      <4>1. rowStatus[r] # "purged"  BY <2>3, <3>1 DEF Counts, OwnsRow
      <4> QED  BY <1>2, <2>3, <3>2, <4>1 DEF Counts, ReportersHaveCause
    <3>5. drain'[w].stage = "reporting" => drain'[w].row = r  BY <2>3, <3>1 DEF Counts
    <3>6. availableIn'[r] = Minus(Backoff(w, r), drain[w].age)
      BY <1>2, <2>3, <3>1 DEF Counts, OutboxInv, OutboxTypeOK
    <3>7. Backoff(w, r) = Delays[Least(attempts'[r], Len(Delays))]
      BY <2>3, <3>1, <3>2 DEF Counts, Backoff
    <3>8. rowOwner[r] = w  BY <2>3, <3>1 DEF Counts, OwnsRow
    <3> QED  BY <3>3, <3>4, <3>5, <3>6, <3>7, <3>8
  <2>4. ASSUME NEW w \in Workers, NEW q \in Rows, Counts(w, q)  PROVE reported' = reported
    BY <2>4 DEF Counts
  <2> QED  BY <1>2, <2>2, <2>3, <2>4, StepsCountOneFailure
<1>3. OutboxInv /\ ReportersHaveCause /\ [Next]_vars => ReportersHaveCause'
  BY ReportersKeepTheirCause
<1>4. OutboxInv /\ ReportersHaveCause /\ [Next]_vars =>
        [\A r \in Rows :
          /\ r \in reported' \ reported =>
                 attempts[r] = StuckAt \/ rowStatus[r] = "purged"
          /\ attempts'[r] > attempts[r] =>
                 /\ attempts'[r] = StuckAt
                    <=> \E w \in Workers : drain'[w].stage = "reporting" /\ drain'[w].row = r
                 /\ \E w \in Workers :
                        /\ rowOwner[r] = w
                        /\ availableIn'[r] =
                               Minus(Delays[Least(attempts'[r], Len(Delays))], drain[w].age)]_vars
  BY <1>2
<1> QED  BY <1>1, <1>3, <1>4, OutboxInvariant, PTL DEF Spec, FailuresEscalateOnTime

-----------------------------------------------------------------------------
(* The implementation of DeliveryContract *)

\* The outbox delivers at least once, and records only what was delivered.
THEOREM OutboxImplementsDelivery == Spec => ImplementsDelivery
<1>1. Init => Contract!DeliveryInit  BY DEF Init, Contract!DeliveryInit
<1>2. ASSUME OutboxInv, [Next]_vars
      PROVE  [Contract!DeliveryNext]_<<rowStatus, accepted, waived>>
  <2> DEFINE Done == [Contract!DeliveryNext]_<<rowStatus, accepted, waived>>
  <2>1. OutboxTypeOK  BY <1>2 DEF OutboxInv
  <2>2. ASSUME UNCHANGED rowStatus, UNCHANGED <<accepted, waived>>  PROVE Done
    BY <2>2
  <2>3. ASSUME NEW w \in Workers, NEW r \in Rows, Enqueue(w, r)  PROVE Done
    BY <2>3 DEF Enqueue, Contract!Owe, Contract!DeliveryNext
  <2>4. ASSUME NEW w \in Workers, NEW S \in SUBSET Rows, NEW muted \in BOOLEAN,
               Claim(w, S, muted)
        PROVE  Done
    <3>1. \A r \in S : rowStatus[r] = "pending"
      BY <2>4 DEF Claim, MayClaim, DueRows, DueRow
    <3>2. CASE muted
      BY <2>4, <3>1, <3>2 DEF Claim, Contract!Waive, Contract!DeliveryNext
    <3>3. CASE ~muted  BY <2>4, <3>3 DEF Claim
    <3> QED  BY <3>2, <3>3
  <2>5. ASSUME NEW w \in Workers, NEW r \in Rows, Accept(w, r)  PROVE Done
    <3>1. rowStatus[r] # "absent"
      BY <1>2, <2>5 DEF Accept, OutboxInv, DrainedRowsExist, Works
    <3>2. drain[w].muted \in BOOLEAN  BY <2>1 DEF OutboxTypeOK, DrainRow
    <3> QED  BY <2>5, <3>1, <3>2 DEF Accept, rowVars, Contract!Deliver, Contract!DeliveryNext
  <2>6. ASSUME NEW w \in Workers, NEW r \in Rows, MarkDelivered(w, r)  PROVE Done
    <3>1. r \in accepted \cup waived
      BY <1>2, <2>6 DEF MarkDelivered, OutboxInv, AnswersAreReal
    <3>2. UNCHANGED rowVars \/ (OwnsRow(w, r) /\ rowStatus' = [rowStatus EXCEPT ![r] = "delivered"])
      <4>1. PICK commit \in MayWrite(w, r) :
              IF commit THEN rowStatus' = [rowStatus EXCEPT ![r] = "delivered"]
              ELSE UNCHANGED rowVars
        BY <2>6 DEF MarkDelivered
      <4>2. commit => OwnsRow(w, r)  BY DEF MayWrite
      <4>3. commit \in BOOLEAN  BY DEF MayWrite, OwnsRow
      <4> QED  BY <4>1, <4>2, <4>3
    <3>3. UNCHANGED <<accepted, waived>>  BY <2>6 DEF MarkDelivered
    <3> QED  BY <3>1, <3>2, <3>3 DEF OwnsRow, rowVars, Contract!Record, Contract!DeliveryNext
  <2>7. ASSUME NEW w \in Workers, NEW r \in Rows, TargetFails(w, r) \/ SendFails(w, r)
        PROVE  Done
    <3>1. Reschedule(w, r) /\ UNCHANGED <<accepted, waived>>
      BY <2>7 DEF TargetFails, SendFails
    <3>2. UNCHANGED rowStatus  BY <2>1, <3>1, RescheduleFacts DEF rowVars
    <3> QED  BY <2>2, <3>1, <3>2
  <2>8. ASSUME NEW r \in Rows, Purge(r)  PROVE Done
    BY <2>8 DEF Purge, Contract!Forget, Contract!DeliveryNext
  <2>9. ASSUME NEW w \in Workers, NEW r \in Rows, BeginSend(w, r) \/ Report(w, r)  PROVE Done
    BY <2>2, <2>9 DEF BeginSend, Report, rowVars
  <2>10. ASSUME NEW w \in Workers, EndDrain(w) \/ Crash(w)  PROVE Done
    BY <2>2, <2>10 DEF EndDrain, Crash, rowVars
  <2>11. ASSUME Tick \/ UNCHANGED vars  PROVE Done
    BY <2>2, <2>11 DEF Tick, vars, rowVars
  <2> HIDE DEF Done
  <2>12. ASSUME NEW w \in Workers, ClaimSome(w)  PROVE Done
    <3>1. PICK S \in SUBSET Rows, muted \in BOOLEAN : Claim(w, S, muted)
      BY <2>12 DEF ClaimSome
    <3> QED  BY <2>4, <3>1, Zenon
  <2>13. ASSUME NEW w \in Workers, DrainStep(w)  PROVE Done
    BY <2>5, <2>6, <2>7, <2>9, <2>10, <2>13 DEF DrainStep
  <2>14. Done
    BY <1>2, <2>3, <2>8, <2>10, <2>11, <2>12, <2>13 DEF Next
  <2> QED  BY <2>14 DEF Done
<1>3. OutboxInv /\ [Next]_vars => [Contract!DeliveryNext]_(Contract!deliveryVars)
  BY <1>2 DEF Contract!deliveryVars
<1> QED
  BY <1>1, <1>3, OutboxInvariant, PTL DEF Spec, ImplementsDelivery, Contract!DeliverySpec
=============================================================================
