--------------------------- MODULE Platform_proofs ---------------------------
(***************************************************************************)
(* Proofs about ControlPlane (part 1) and about Platform, its composition  *)
(* with MonitorRunner (part 2), for every set of monitors, tokens, workers *)
(* and field values and every value of the bounds.                         *)
(***************************************************************************)
EXTENDS Platform, MonitorRunner_proofs

-----------------------------------------------------------------------------
(* Part 1: the control plane *)

(***************************************************************************)
(* The inductive invariant.  A receipt's row is already spent, so its offer *)
(* is the only copy of it; offers about a monitor name one, and the two    *)
(* kinds of candidate are offered only for the statuses whose activation   *)
(* keeps or ends them.                                                     *)
(***************************************************************************)
ReceiptsAreSpent ==
    call.stage = "receipt" => call.token \in Tokens /\ pending[call.token].state = "gone"

PlansNameAMonitor ==
    call.stage = "planning" => call.payload.action = "update" /\ call.payload.monitor \in Monitors

CallsServeAnUpdate == call.stage # "idle" => done < batch

WellFormed(p) ==
    /\ p.action \in {"create", "select_url"} => p.monitor = NoMonitor
    /\ p.action \in {"pause", "resume", "delete", "update", "repair_activation"} =>
           p.monitor \in Monitors
    /\ p.action = "update" => p.expected \in {"active", "paused_user"}
    /\ p.action = "repair_activation" => p.expected = "needs_review"

OffersAreWellFormed == \A t \in Tokens : LiveOffer(t) => WellFormed(OfferOf(t))

\* ControlTypeOK without the registry's rows.
ControlTypes ==
    /\ pending \in [Tokens -> TokenRow]
    /\ shown \subseteq Tokens
    /\ queue \in Seq(Updates)
    /\ done \in Nat /\ batch \in Nat /\ done <= batch /\ batch <= Len(queue)
    /\ call \in CallRow

ControlInv ==
    /\ RegistryInv
    /\ ControlTypes
    /\ ReceiptsAreSpent
    /\ PlansNameAMonitor
    /\ CallsServeAnUpdate
    /\ OffersAreWellFormed
    /\ UpdateOffersAreTheirOwn

-----------------------------------------------------------------------------
(* Types of the rows and calls that actions write *)

LEMMA PayloadTypes ==
    /\ NoPayload \in Payload
    /\ NoRow \in TokenRow /\ GoneRow \in TokenRow
    /\ GoneRow.state = "gone"
    /\ \A p \in Payload : OpenRow(p) \in TokenRow
    /\ \A action \in Actions : Plain(action) \in Payload
BY RegistryAssumption, ControlAssumption
DEF NoPayload, Payload, Actions, NoRow, GoneRow, OpenRow, TokenRow, Plain

LEMMA CallTypes ==
    /\ NoCall \in CallRow /\ NoCall.stage = "idle"
    /\ \A S \in SUBSET Tokens :
           [NoCall EXCEPT !.stage = "replying", !.offers = S] \in CallRow
    /\ \A p \in Payload : [NoCall EXCEPT !.stage = "planning", !.payload = p] \in CallRow
    /\ [NoCall EXCEPT !.stage = "proposing"] \in CallRow
    /\ \A t \in Tokens, p \in Payload :
           [NoCall EXCEPT !.stage = "receipt", !.token = t, !.payload = p] \in CallRow
BY PayloadTypes DEF NoCall, CallRow

LEMMA AboutType ==
    ASSUME RegistryInv, NEW m \in Monitors, status[m] # "absent",
           NEW action \in Actions, NEW c \in 0..MaxVersion
    PROVE  About(action, m, c) \in Payload
BY DEF About, Payload, RegistryInv, RegistryTypeOK

\* An update is served from within the batch.
LEMMA ServingFacts ==
    ASSUME ControlTypes, NEW u, Serving(u)
    PROVE  done + 1 \in Nat /\ done + 1 <= batch
BY DEF ControlTypes, Serving

-----------------------------------------------------------------------------
(* Registry steps *)

\* Time passing for the token rows alone is no step of the registry.
LEMMA TickIsRegistryTick ==
    ASSUME RegistryInv, nextIn' = TickDown(nextIn), leaseLeft' = TickDown(leaseLeft),
           UNCHANGED <<status, active, versions, owner, generation>>
    PROVE  TickRegistry \/ UNCHANGED registryVars
<1>1. CASE \E m \in Monitors : nextIn[m] > 0 \/ leaseLeft[m] > 0
  BY <1>1 DEF TickRegistry
<1>2. CASE ~\E m \in Monitors : nextIn[m] > 0 \/ leaseLeft[m] > 0
  <2>1. TickDown(nextIn) = nextIn
    BY <1>2 DEF TickDown, RegistryInv, RegistryTypeOK
  <2>2. TickDown(leaseLeft) = leaseLeft
    BY <1>2 DEF TickDown, RegistryInv, RegistryTypeOK
  <2> QED  BY <2>1, <2>2 DEF registryVars
<1> QED  BY <1>1, <1>2

\* Receipts carry what their previews captured: what they do is an operation of
\* the registry on its current status and version.
LEMMA PerformIsLifecycle ==
    ASSUME ControlInv, NEW p \in Payload, WellFormed(p), Perform(p)
    PROVE  \E m \in Monitors : LifecycleNext(m)
<1> DEFINE m == p.monitor
<1>1. CASE p.action = "create"
  BY <1>1 DEF Perform, LifecycleNext
<1>2. CASE p.action = "pause" \/ p.action = "resume"
  <2>1. PICK target \in {"paused_user", "active"} :
          TransitionStatusExact(m, p.expected, p.version, target)
    BY <1>2 DEF Perform
  <2>2. p.expected = status[m] /\ p.version = active[m]
    BY <2>1 DEF TransitionStatusExact, Unchanged
  <2>3. m \in Monitors  BY <1>2 DEF WellFormed
  <2> QED  BY <2>1, <2>2, <2>3 DEF LifecycleNext
<1>3. CASE p.action = "delete"
  <2>1. SoftDeleteExact(m, p.expected, p.version)  BY <1>3 DEF Perform
  <2>2. p.expected = status[m] /\ p.version = active[m]
    BY <2>1 DEF SoftDeleteExact, Unchanged
  <2>3. m \in Monitors  BY <1>3 DEF WellFormed
  <2> QED  BY <2>1, <2>2, <2>3 DEF LifecycleNext
<1>4. CASE p.action = "update"
  <2>1. ActivateCandidateExact(m, p.candidate, "codex-control", p.expected, p.version, p.expected)
    BY <1>4 DEF Perform
  <2>2. /\ p.expected = status[m] /\ p.version = active[m]
        /\ p.candidate \in DOMAIN versions[m]
    BY <2>1 DEF ActivateCandidateExact, Activable, Unchanged
  <2>3. m \in Monitors /\ p.expected \in {"active", "paused_user"}  BY <1>4 DEF WellFormed
  <2>4. p.candidate \in 1..MaxVersion
    BY <2>2, <2>3, LenProperties, RegistryAssumption
    DEF Payload, ControlInv, RegistryInv, RegistryTypeOK
  <2> QED  BY <2>1, <2>2, <2>3, <2>4 DEF LifecycleNext
<1>5. CASE p.action = "repair_activation"
  <2>1. ActivateCandidateExact(m, p.candidate, "scrapling-adaptive", "needs_review", p.version, "active")
    BY <1>5 DEF Perform
  <2>2. /\ status[m] = "needs_review" /\ p.version = active[m]
        /\ p.candidate \in DOMAIN versions[m]
    BY <2>1 DEF ActivateCandidateExact, Activable, Unchanged
  <2>3. m \in Monitors  BY <1>5 DEF WellFormed
  <2>4. p.candidate \in 1..MaxVersion
    BY <2>2, <2>3, LenProperties, RegistryAssumption
    DEF Payload, ControlInv, RegistryInv, RegistryTypeOK
  <2> QED  BY <2>1, <2>2, <2>3, <2>4 DEF LifecycleNext
<1> QED  BY <1>1, <1>2, <1>3, <1>4, <1>5 DEF Perform

\* The receipt under way is an offer that can still be used.
LEMMA ReceiptIsLive ==
    ASSUME ControlInv, call.stage = "receipt"
    PROVE  /\ call.token \in Tokens /\ call.payload \in Payload
           /\ LiveOffer(call.token) /\ OfferOf(call.token) = call.payload
           /\ WellFormed(call.payload)
<1>1. /\ call.token \in Tokens /\ pending[call.token].state = "gone"
      /\ call.payload \in Payload
  BY DEF ControlInv, ReceiptsAreSpent, ControlTypes, CallRow
<1>2. LiveOffer(call.token) /\ OfferOf(call.token) = call.payload
  BY <1>1 DEF LiveOffer, OfferOf
<1> QED  BY <1>1, <1>2 DEF ControlInv, OffersAreWellFormed

\* What the owner, the polling loop and the handlers do to the registry is an
\* operation on some monitor as it is now.
LEMMA OwnerSideIsLifecycle ==
    ASSUME ControlInv, (\E u \in Updates : Send(u)) \/ Poll \/ PollFails \/ Handle
    PROVE  (\E m \in Monitors : LifecycleNext(m)) \/ UNCHANGED registryVars
<1>1. CASE Confirm
  <2>1. Perform(call.payload) /\ call.stage = "receipt"  BY <1>1 DEF Confirm
  <2> QED  BY <2>1, ReceiptIsLive, PerformIsLifecycle
<1>2. ASSUME NEW t \in Tokens, StageUpdate(t)
      PROVE  \E m \in Monitors : LifecycleNext(m)
  <2> DEFINE p == call.payload
  <2>1. call.stage = "planning" /\ StageCandidate(p.monitor, p.expected, p.version)
    BY <1>2 DEF StageUpdate
  <2>2. p.monitor \in Monitors  BY <2>1 DEF ControlInv, PlansNameAMonitor
  <2>3. p.expected = status[p.monitor] /\ p.version = active[p.monitor]
    BY <2>1 DEF StageCandidate, Unchanged
  <2> QED  BY <2>1, <2>2, <2>3 DEF LifecycleNext
<1>3. ASSUME (\E u \in Updates : Send(u)) \/ Poll \/ PollFails \/ HandlerEnds
             \/ SendReply \/ ConfirmChoice
      PROVE  UNCHANGED registryVars
  BY <1>3 DEF Send, Poll, PollFails, HandlerEnds, SendReply, ConfirmChoice
<1>4. ASSUME NEW operation \in Operations, NEW t \in Tokens,
             Consume(operation, t) \/ Deny(operation, t)
      PROVE  UNCHANGED registryVars
  BY <1>4 DEF Consume, Deny
<1>5. ASSUME Preview, \A t \in Tokens : ~StageUpdate(t)
      PROVE  UNCHANGED registryVars
  <2>1. ASSUME NEW t \in Tokens, Propose(t)  PROVE UNCHANGED registryVars
    BY <2>1 DEF Propose
  <2>2. ASSUME NEW m \in Monitors, NEW t \in Tokens,
               (\E action \in {"pause", "resume", "delete"} : PreviewState(m, t, action))
               \/ PreviewRepair(m, t)
        PROVE  UNCHANGED registryVars
    BY <2>2 DEF PreviewState, PreviewRepair
  <2>3. ASSUME (\E m \in Monitors : BeginUpdate(m)) \/ BeginProposal
               \/ (\E S \in SUBSET Tokens : OfferChoices(S))
        PROVE  UNCHANGED registryVars
    BY <2>3 DEF BeginUpdate, BeginProposal, OfferChoices
  <2> QED  BY <1>5, <2>1, <2>2, <2>3 DEF Preview
<1> QED  BY <1>1, <1>2, <1>3, <1>4, <1>5 DEF Handle, Decide

LEMMA ControlStepsRegistry ==
    ASSUME ControlInv, [ControlNext]_controlVars
    PROVE  [RegistryNext]_registryVars
<1>1. CASE Others
  <2>1. CASE LeaseNext  BY <2>1 DEF RegistryNext
  <2>2. ASSUME NEW m \in Monitors, StoreCandidate(m, active[m])
        PROVE  RegistryNext
    BY <2>2 DEF RegistryNext, LifecycleNext
  <2> QED  BY <1>1, <2>1, <2>2 DEF Others
<1>2. CASE ControlTick
  BY <1>2, TickIsRegistryTick DEF ControlTick, ControlInv, RegistryNext
<1>3. CASE ControlCrash \/ UNCHANGED controlVars
  BY <1>3 DEF ControlCrash, controlVars
<1>4. CASE (\E u \in Updates : Send(u)) \/ Poll \/ PollFails \/ Handle
  BY <1>4, OwnerSideIsLifecycle DEF RegistryNext
<1> QED  BY <1>1, <1>2, <1>3, <1>4 DEF ControlNext

-----------------------------------------------------------------------------
(* Offers *)

\* The candidate an offer names is still there, as it was.
RowKept(p) ==
    /\ p.candidate \in DOMAIN versions'[p.monitor]
    /\ versions'[p.monitor][p.candidate] = versions[p.monitor][p.candidate]

OfferKept(t) ==
    /\ LiveOffer(t) /\ OfferOf(t)' = OfferOf(t)
    /\ OfferOf(t).action = "update" => RowKept(OfferOf(t))

\* An update offer made in this step, alone, with a row staged in this step.
FreshUpdate(S, p) ==
    /\ \A t, u \in S : t = u
    /\ p.candidate \in DOMAIN versions'[p.monitor]
    /\ p.candidate \notin DOMAIN versions[p.monitor]
    /\ versions'[p.monitor][p.candidate] =
          [author |-> "codex-control", parent |-> p.version, approved |-> FALSE]

\* Every offer after a step is one from before, its row untouched, or one of S.
LEMMA OffersStep ==
    ASSUME ControlInv, NEW S \in SUBSET Tokens, NEW p, WellFormed(p),
           \A t \in Tokens : LiveOffer(t)' => OfferKept(t) \/ (t \in S /\ OfferOf(t)' = p),
           p.action = "update" => FreshUpdate(S, p)
    PROVE  OffersAreWellFormed' /\ UpdateOffersAreTheirOwn'
<1>1. OffersAreWellFormed'
  <2> SUFFICES ASSUME NEW t \in Tokens, LiveOffer(t)'
               PROVE  WellFormed(OfferOf(t)')
    BY DEF OffersAreWellFormed, WellFormed
  <2> QED  BY DEF OfferKept, ControlInv, OffersAreWellFormed
<1>2. ASSUME NEW t \in Tokens, LiveOffer(t)', OfferOf(t)'.action = "update"
      PROVE  LET q == OfferOf(t)' IN
             /\ q.candidate \in DOMAIN versions'[q.monitor]
             /\ versions'[q.monitor][q.candidate].author = "codex-control"
             /\ ~versions'[q.monitor][q.candidate].approved
             /\ versions'[q.monitor][q.candidate].parent = q.version
  <2>1. CASE OfferKept(t)
    BY <1>2, <2>1 DEF OfferKept, RowKept, ControlInv, UpdateOffersAreTheirOwn
  <2>2. CASE t \in S /\ OfferOf(t)' = p
    BY <1>2, <2>2 DEF FreshUpdate
  <2> QED  BY <1>2, <2>1, <2>2
<1>3. ASSUME NEW t \in Tokens, LiveOffer(t)', OfferOf(t)'.action = "update",
             NEW u \in Tokens \ {t}, LiveOffer(u)', OfferOf(u)'.action = "update"
      PROVE  <<OfferOf(u)'.monitor, OfferOf(u)'.candidate>>
                 # <<OfferOf(t)'.monitor, OfferOf(t)'.candidate>>
  <2>1. CASE OfferKept(t) /\ OfferKept(u)
    BY <1>3, <2>1 DEF OfferKept, ControlInv, UpdateOffersAreTheirOwn
  <2>2. ASSUME NEW a \in Tokens, OfferKept(a), OfferOf(a)'.action = "update",
               NEW b \in S, OfferOf(b)' = p, p.action = "update"
        PROVE  <<OfferOf(a)'.monitor, OfferOf(a)'.candidate>> # <<p.monitor, p.candidate>>
    <3>1. OfferOf(a)'.candidate \in DOMAIN versions[OfferOf(a)'.monitor]
      BY <2>2 DEF OfferKept, ControlInv, UpdateOffersAreTheirOwn
    <3>2. p.candidate \notin DOMAIN versions[p.monitor]  BY <2>2 DEF FreshUpdate
    <3> QED  BY <3>1, <3>2
  <2>3. ~(t \in S /\ OfferOf(t)' = p /\ u \in S /\ OfferOf(u)' = p)
    BY <1>3 DEF FreshUpdate
  <2> QED  BY <1>3, <2>1, <2>2, <2>3
<1>4. UpdateOffersAreTheirOwn'
  BY <1>2, <1>3, Zenon DEF UpdateOffersAreTheirOwn
<1> QED  BY <1>1, <1>4

\* Steps that make no offer and change no version row.
LEMMA OffersOnlyEnd ==
    ASSUME ControlInv, UNCHANGED versions,
           \A t \in Tokens : LiveOffer(t)' => LiveOffer(t) /\ OfferOf(t)' = OfferOf(t)
    PROVE  OffersAreWellFormed' /\ UpdateOffersAreTheirOwn'
<1>1. WellFormed(NoPayload)  BY DEF WellFormed, NoPayload
<1>2. ASSUME NEW t \in Tokens, LiveOffer(t)'
      PROVE  OfferKept(t)
  BY <1>2 DEF OfferKept, RowKept, ControlInv, UpdateOffersAreTheirOwn
<1>3. NoPayload.action # "update"  BY DEF NoPayload
<1> QED  BY <1>1, <1>2, <1>3, OffersStep

-----------------------------------------------------------------------------
(* Every step keeps the control plane's part of the invariant *)

ControlPart ==
    /\ ControlTypes
    /\ ReceiptsAreSpent
    /\ PlansNameAMonitor
    /\ CallsServeAnUpdate
    /\ OffersAreWellFormed
    /\ UpdateOffersAreTheirOwn

LEMMA SendKeeps ==
    ASSUME ControlInv, NEW u \in Updates, Send(u)
    PROVE  ControlPart'
<1>1. queue \in Seq(Updates) /\ Len(queue) \in Nat
  BY LenProperties DEF ControlInv, ControlTypes
<1>2. queue' \in Seq(Updates) /\ Len(queue') = Len(queue) + 1
  BY <1>1, AppendProperties DEF Send
<1>3. UNCHANGED <<pending, shown, batch, done, call, versions>>
  BY DEF Send, registryVars
<1>4. ControlTypes'  BY <1>1, <1>2, <1>3 DEF ControlInv, ControlTypes
<1>5. ReceiptsAreSpent' /\ PlansNameAMonitor' /\ CallsServeAnUpdate'
  BY <1>3 DEF ControlInv, ReceiptsAreSpent, PlansNameAMonitor, CallsServeAnUpdate
<1>6. OffersAreWellFormed' /\ UpdateOffersAreTheirOwn'
  BY <1>3, OffersOnlyEnd DEF LiveOffer, OfferOf
<1> QED  BY <1>4, <1>5, <1>6 DEF ControlPart

LEMMA PollKeeps ==
    ASSUME ControlInv, Poll \/ PollFails
    PROVE  ControlPart'
<1>1. /\ queue \in Seq(Updates) /\ Len(queue) \in Nat
      /\ batch \in Nat /\ batch <= Len(queue)
  BY LenProperties DEF ControlInv, ControlTypes
<1>2. /\ queue' = SubSeq(queue, batch + 1, Len(queue))
      /\ batch' \in {Len(queue) - batch, 0} /\ done' = 0
  BY DEF Poll, PollFails
<1>3. queue' \in Seq(Updates) /\ Len(queue') = Len(queue) - batch
  BY <1>1, <1>2, SubSeqProperties
<1>4. UNCHANGED <<pending, shown, call, versions>> /\ call.stage = "idle"
  BY DEF Poll, PollFails, registryVars
<1>5. ControlTypes'  BY <1>1, <1>2, <1>3, <1>4 DEF ControlInv, ControlTypes
<1>6. ReceiptsAreSpent' /\ PlansNameAMonitor' /\ CallsServeAnUpdate'
  BY <1>4 DEF ControlInv, ReceiptsAreSpent, PlansNameAMonitor, CallsServeAnUpdate
<1>7. OffersAreWellFormed' /\ UpdateOffersAreTheirOwn'
  BY <1>4, OffersOnlyEnd DEF LiveOffer, OfferOf
<1> QED  BY <1>5, <1>6, <1>7 DEF ControlPart

\* A handler that returns, raises, is refused its token or dies with its process.
LEMMA EndKeeps ==
    ASSUME ControlInv, HandlerEnds \/ SendReply \/ ControlCrash
                       \/ (\E operation \in Operations, t \in Tokens : Deny(operation, t))
    PROVE  ControlPart'
<1>1. call' = NoCall /\ UNCHANGED <<pending, queue, versions>>
  BY DEF HandlerEnds, SendReply, ControlCrash, Deny, Finished, registryVars
<1>2. call' \in CallRow /\ call'.stage = "idle"  BY <1>1, CallTypes
<1>3. shown' \subseteq Tokens
  BY DEF HandlerEnds, SendReply, ControlCrash, Deny, ControlInv, ControlTypes, CallRow
<1>4. done' \in Nat /\ batch' \in Nat /\ done' <= batch' /\ batch' <= Len(queue)
  <2>1. CASE ControlCrash
    BY <2>1, LenProperties DEF ControlCrash, ControlInv, ControlTypes
  <2>2. ASSUME ~ControlCrash  PROVE done' = done + 1 /\ batch' = batch
    BY <2>2 DEF HandlerEnds, SendReply, Deny, Finished
  <2>3. ASSUME ~ControlCrash  PROVE done < batch
    <3>1. ASSUME NEW u, Serving(u)  PROVE done < batch
      BY <3>1 DEF Serving
    <3>2. call.stage # "idle" => done < batch
      BY DEF ControlInv, CallsServeAnUpdate
    <3> QED  BY <2>3, <3>1, <3>2 DEF HandlerEnds, SendReply, Deny
  <2> QED  BY <2>1, <2>2, <2>3 DEF ControlInv, ControlTypes
<1>5. ControlTypes'  BY <1>1, <1>2, <1>3, <1>4 DEF ControlInv, ControlTypes
<1>6. ReceiptsAreSpent' /\ PlansNameAMonitor' /\ CallsServeAnUpdate'
  BY <1>2 DEF ReceiptsAreSpent, PlansNameAMonitor, CallsServeAnUpdate
<1>7. OffersAreWellFormed' /\ UpdateOffersAreTheirOwn'
  BY <1>1, <1>2, OffersOnlyEnd DEF LiveOffer, OfferOf
<1> QED  BY <1>5, <1>6, <1>7 DEF ControlPart

\* The steps that only move the call on: to the planner, to a proposal.
LEMMA CallMovesKeep ==
    ASSUME ControlInv,
           (\E m \in Monitors : BeginUpdate(m)) \/ BeginProposal \/ ConfirmChoice
    PROVE  ControlPart'
<1>1. UNCHANGED <<pending, shown, queue, batch, done, versions>>
  BY DEF BeginUpdate, BeginProposal, ConfirmChoice, registryVars
<1>2. done < batch
  BY DEF BeginUpdate, BeginProposal, ConfirmChoice, Serving, ControlInv, CallsServeAnUpdate
<1> DEFINE Moved == /\ call' \in CallRow
                    /\ call'.stage # "receipt"
                    /\ call'.stage = "planning" =>
                          /\ call'.payload.action = "update"
                          /\ call'.payload.monitor \in Monitors
<1>3. Moved
  <2>1. ASSUME NEW m \in Monitors, BeginUpdate(m)
        PROVE  Moved
    <3> DEFINE p == About("update", m, 0)
    <3>1. p \in Payload
      <4>1. status[m] # "absent"  BY <2>1 DEF BeginUpdate
      <4>2. "update" \in Actions  BY DEF Actions
      <4>3. 0 \in 0..MaxVersion  BY RegistryAssumption
      <4>4. RegistryInv  BY DEF ControlInv
      <4> QED  BY <4>1, <4>2, <4>3, <4>4, AboutType
    <3>2. p.action = "update" /\ p.monitor = m  BY DEF About
    <3>3. call' = [NoCall EXCEPT !.stage = "planning", !.payload = p]
      BY <2>1 DEF BeginUpdate
    <3> HIDE DEF p
    <3>4. call'.stage = "planning" /\ call'.payload = p  BY <3>3 DEF NoCall
    <3> QED  BY <3>1, <3>2, <3>3, <3>4, CallTypes
  <2>2. CASE BeginProposal \/ ConfirmChoice
    <3>1. call' = [NoCall EXCEPT !.stage = "proposing"]
      BY <2>2 DEF BeginProposal, ConfirmChoice
    <3>2. call'.stage = "proposing"  BY <3>1 DEF NoCall
    <3> QED  BY <3>1, <3>2, CallTypes
  <2> QED  BY <2>1, <2>2
<1>4. ControlTypes'  BY <1>1, <1>3 DEF ControlInv, ControlTypes
<1>5. ReceiptsAreSpent' /\ PlansNameAMonitor' /\ CallsServeAnUpdate'
  BY <1>1, <1>2, <1>3 DEF ReceiptsAreSpent, PlansNameAMonitor, CallsServeAnUpdate
<1>6. OffersAreWellFormed' /\ UpdateOffersAreTheirOwn'
  BY <1>1, <1>3, OffersOnlyEnd DEF LiveOffer, OfferOf
<1> QED  BY <1>4, <1>5, <1>6 DEF ControlPart

LEMMA ConsumeKeeps ==
    ASSUME ControlInv, NEW operation \in Operations, NEW t \in Tokens, Consume(operation, t)
    PROVE  ControlPart'
<1> DEFINE p == pending[t].payload
<1>1. /\ pending[t].state = "open" /\ p \in Payload
      /\ pending' = [pending EXCEPT ![t] = GoneRow]
      /\ UNCHANGED <<shown, queue, batch, done, versions>>
      /\ done < batch
      /\ call.stage = "idle"
  BY DEF Consume, Usable, Spend, Serving, Reply, registryVars, ControlInv, ControlTypes, TokenRow
<1>2. /\ pending' \in [Tokens -> TokenRow]
      /\ pending'[t].state = "gone"
      /\ \A u \in Tokens \ {t} : pending'[u] = pending[u]
  BY <1>1, PayloadTypes DEF ControlInv, ControlTypes
<1>3. /\ call' \in CallRow
      /\ \/ call'.stage = "receipt" /\ call'.token = t /\ call'.payload = p
         \/ call'.stage = "replying"
  <2>1. CASE operation = "confirm"
    <3>1. call' = [NoCall EXCEPT !.stage = "receipt", !.token = t, !.payload = p]
      BY <2>1 DEF Consume
    <3> HIDE DEF p
    <3>2. call'.stage = "receipt" /\ call'.token = t /\ call'.payload = p
      BY <3>1 DEF NoCall
    <3> QED  BY <1>1, <3>1, <3>2, CallTypes
  <2>2. CASE operation # "confirm"
    <3>1. call' = [NoCall EXCEPT !.stage = "replying", !.offers = {}]
      BY <2>2 DEF Consume, Reply
    <3>2. call'.stage = "replying"  BY <3>1 DEF NoCall
    <3> QED  BY <3>1, <3>2, CallTypes
  <2> QED  BY <2>1, <2>2
<1>4. ControlTypes'  BY <1>1, <1>2, <1>3 DEF ControlInv, ControlTypes
<1>5. ReceiptsAreSpent' /\ PlansNameAMonitor' /\ CallsServeAnUpdate'
  BY <1>1, <1>2, <1>3 DEF ReceiptsAreSpent, PlansNameAMonitor, CallsServeAnUpdate
<1>6. OffersAreWellFormed' /\ UpdateOffersAreTheirOwn'
  BY <1>1, <1>2, <1>3, OffersOnlyEnd DEF LiveOffer, OfferOf
<1> QED  BY <1>4, <1>5, <1>6 DEF ControlPart

\* A preview issues tokens for p, revoked again or not, and replies.
LEMMA IssueKeeps ==
    ASSUME ControlInv, NEW S \in SUBSET Tokens, NEW p \in Payload, WellFormed(p),
           Issue(S, p) \/ IssueAndRevoke(S),
           NEW T \in SUBSET Tokens, Reply(T), done < batch, call.stage # "receipt",
           \A t \in Tokens : LiveOffer(t) /\ OfferOf(t).action = "update" => RowKept(OfferOf(t)),
           p.action = "update" => FreshUpdate(S, p)
    PROVE  ControlPart'
<1>1. /\ S \subseteq Tokens
      /\ \A t \in S : pending[t].state = "none"
      /\ \/ pending' = [t \in Tokens |-> IF t \in S THEN OpenRow(p) ELSE pending[t]]
         \/ pending' = [t \in Tokens |-> IF t \in S THEN GoneRow ELSE pending[t]]
  BY DEF Issue, IssueAndRevoke, Unissued
<1>2. pending' \in [Tokens -> TokenRow]
  <2>1. pending \in [Tokens -> TokenRow]  BY DEF ControlInv, ControlTypes
  <2>2. OpenRow(p) \in TokenRow /\ GoneRow \in TokenRow  BY PayloadTypes
  <2> QED  BY <1>1, <2>1, <2>2
<1>3. /\ call' \in CallRow /\ call'.stage = "replying"
      /\ UNCHANGED <<shown, queue, batch, done>>
  <2>1. call' = [NoCall EXCEPT !.stage = "replying", !.offers = T]
        /\ UNCHANGED <<shown, queue, batch, done>>
    BY DEF Reply
  <2>2. call'.stage = "replying"  BY <2>1 DEF NoCall
  <2> QED  BY <2>1, <2>2, CallTypes
<1>4. ControlTypes'  BY <1>2, <1>3 DEF ControlInv, ControlTypes
<1>5. ReceiptsAreSpent' /\ PlansNameAMonitor' /\ CallsServeAnUpdate'
  BY <1>3 DEF ReceiptsAreSpent, PlansNameAMonitor, CallsServeAnUpdate
<1>6. ASSUME NEW t \in Tokens, LiveOffer(t)'
      PROVE  OfferKept(t) \/ (t \in S /\ OfferOf(t)' = p)
  <2>1. pending'[t].state = "open" /\ OfferOf(t)' = pending'[t].payload
    BY <1>3, <1>6 DEF LiveOffer, OfferOf
  <2>2. CASE t \in S
    <3>1. pending'[t] = OpenRow(p) \/ pending'[t] = GoneRow  BY <1>1, <2>2
    <3>2. OpenRow(p).payload = p /\ GoneRow.state = "gone"  BY PayloadTypes DEF OpenRow
    <3> QED  BY <2>1, <2>2, <3>1, <3>2
  <2>3. CASE t \notin S
    <3>1. pending'[t] = pending[t]  BY <1>1, <2>3
    <3>2. LiveOffer(t) /\ OfferOf(t)' = OfferOf(t)  BY <2>1, <3>1 DEF LiveOffer, OfferOf
    <3> QED  BY <3>2 DEF OfferKept
  <2> QED  BY <2>2, <2>3
<1>7. OffersAreWellFormed' /\ UpdateOffersAreTheirOwn'
  BY <1>6, OffersStep
<1> QED  BY <1>4, <1>5, <1>7 DEF ControlPart

\* Rows that no step touches keep every update offer.
LEMMA RowsUntouched ==
    ASSUME ControlInv, UNCHANGED versions
    PROVE  \A t \in Tokens : LiveOffer(t) /\ OfferOf(t).action = "update" => RowKept(OfferOf(t))
BY DEF RowKept, ControlInv, UpdateOffersAreTheirOwn

\* Nor does a row appended to a monitor's versions.
LEMMA RowsAppended ==
    ASSUME ControlInv, NEW m \in Monitors, NEW author, NEW parent, NEW approved \in BOOLEAN,
           AddVersion(m, author, parent, approved)
    PROVE  /\ \A t \in Tokens :
                 LiveOffer(t) /\ OfferOf(t).action = "update" => RowKept(OfferOf(t))
           /\ Len(versions[m]) + 1 \in DOMAIN versions'[m]
           /\ Len(versions[m]) + 1 \notin DOMAIN versions[m]
           /\ Len(versions[m]) + 1 \in 0..MaxVersion
           /\ versions'[m][Len(versions[m]) + 1] =
                 [author |-> author, parent |-> parent, approved |-> approved]
<1> DEFINE row == [author |-> author, parent |-> parent, approved |-> approved]
           s == versions[m]
<1>1. /\ Len(s) < MaxVersion /\ versions' = [versions EXCEPT ![m] = Append(s, row)]
      /\ versions \in [Monitors -> Seq(VersionRow)]
  BY DEF AddVersion, ControlInv, RegistryInv, RegistryTypeOK
<1>2. s \in Seq(VersionRow) /\ Len(s) \in Nat /\ DOMAIN s = 1..Len(s)
  BY <1>1, LenProperties
<1> HIDE DEF row
<1>3. /\ DOMAIN Append(s, row) = 1..Len(s) + 1
      /\ \A i \in 1..Len(s) : Append(s, row)[i] = s[i]
      /\ Append(s, row)[Len(s) + 1] = row
  BY <1>2
<1>4. versions'[m] = Append(s, row) /\ \A n \in Monitors \ {m} : versions'[n] = versions[n]
  BY <1>1
<1>5. ASSUME NEW t \in Tokens, LiveOffer(t), OfferOf(t).action = "update"
      PROVE  RowKept(OfferOf(t))
  <2>1. OfferOf(t).monitor \in Monitors
        /\ OfferOf(t).candidate \in DOMAIN versions[OfferOf(t).monitor]
    BY <1>5 DEF ControlInv, OffersAreWellFormed, WellFormed, UpdateOffersAreTheirOwn
  <2> QED  BY <2>1, <1>2, <1>3, <1>4 DEF RowKept
<1> QED  BY <1>1, <1>2, <1>3, <1>4, <1>5, RegistryAssumption DEF row

LEMMA PreviewMonitorKeeps ==
    ASSUME ControlInv, NEW m \in Monitors, NEW t \in Tokens,
           \/ \E action \in {"pause", "resume", "delete"} : PreviewState(m, t, action)
           \/ PreviewRepair(m, t)
    PROVE  ControlPart'
<1>1. PICK action \in {"pause", "resume", "delete", "repair_activation"}, c \in DOMAIN versions[m] \cup {0} :
        /\ Serving(Ask) /\ Issue({t}, About(action, m, c)) /\ Reply({t})
        /\ status[m] # "absent" /\ UNCHANGED registryVars
        /\ action = "repair_activation" => status[m] = "needs_review"
  <2>1. CASE PreviewRepair(m, t)
    <3>1. PICK c \in Repairs(m) : Issue({t}, About("repair_activation", m, c))
      BY <2>1 DEF PreviewRepair
    <3>2. c \in DOMAIN versions[m]  BY DEF Repairs
    <3> QED  BY <2>1, <3>1, <3>2 DEF PreviewRepair
  <2>2. ASSUME NEW a \in {"pause", "resume", "delete"}, PreviewState(m, t, a)
        PROVE  /\ Serving(Ask) /\ Issue({t}, About(a, m, 0)) /\ Reply({t})
               /\ status[m] # "absent" /\ UNCHANGED registryVars
    BY <2>2 DEF PreviewState
  <2> QED  BY <2>1, <2>2
<1> DEFINE p == About(action, m, c)
<1>2. p \in Payload /\ WellFormed(p) /\ p.action # "update"
  <2>1. action \in Actions  BY DEF Actions
  <2>2. c \in 0..MaxVersion
    <3>1. versions[m] \in Seq(VersionRow)  BY DEF ControlInv, RegistryInv, RegistryTypeOK
    <3>2. DOMAIN versions[m] = 1..Len(versions[m])  BY <3>1, LenProperties
    <3>3. Len(versions[m]) <= MaxVersion
      BY <1>1 DEF ControlInv, RegistryInv, Lineage, Line
    <3> QED  BY <3>1, <3>2, <3>3, LenProperties, RegistryAssumption
  <2>3. RegistryInv  BY DEF ControlInv
  <2>4. p \in Payload  BY <1>1, <2>1, <2>2, <2>3, AboutType
  <2>5. WellFormed(p) /\ p.action # "update"  BY <1>1 DEF WellFormed, About
  <2> QED  BY <2>4, <2>5
<1>3. done < batch /\ call.stage # "receipt"  BY <1>1 DEF Serving
<1>4. UNCHANGED versions  BY <1>1 DEF registryVars
<1> HIDE DEF p
<1>5. {t} \in SUBSET Tokens /\ Issue({t}, p) /\ Reply({t})  BY <1>1 DEF p
<1> QED  BY <1>2, <1>3, <1>4, <1>5, RowsUntouched, IssueKeeps

LEMMA PlainPreviewsKeep ==
    ASSUME ControlInv,
           (\E t \in Tokens : Propose(t)) \/ (\E S \in SUBSET Tokens : OfferChoices(S))
    PROVE  ControlPart'
<1>1. PICK S \in SUBSET Tokens, T \in SUBSET Tokens, action \in {"create", "select_url"} :
        /\ Issue(S, Plain(action)) \/ IssueAndRevoke(S)
        /\ Reply(T) /\ UNCHANGED registryVars
        /\ done < batch /\ call.stage # "receipt"
  <2>1. ASSUME NEW t \in Tokens, Propose(t)
        PROVE  /\ \/ Issue({t}, Plain("create")) /\ Reply({t})
                  \/ IssueAndRevoke({t}) /\ Reply({})
               /\ UNCHANGED registryVars /\ done < batch /\ call.stage # "receipt"
    BY <2>1 DEF Propose, ControlInv, CallsServeAnUpdate
  <2>2. ASSUME NEW S \in SUBSET Tokens, OfferChoices(S)
        PROVE  /\ \/ Issue(S, Plain("select_url")) /\ Reply(S)
                  \/ IssueAndRevoke(S) /\ Reply({})
               /\ UNCHANGED registryVars /\ done < batch /\ call.stage # "receipt"
    BY <2>2 DEF OfferChoices, Serving
  <2>3. {} \in SUBSET Tokens /\ \A t \in Tokens : {t} \in SUBSET Tokens  OBVIOUS
  <2> QED  BY <2>1, <2>2, <2>3
<1> DEFINE p == Plain(action)
<1>2. p \in Payload
  <2>1. action \in Actions  BY DEF Actions
  <2> QED  BY <2>1, PayloadTypes
<1>3. WellFormed(p) /\ p.action # "update"  BY DEF WellFormed, Plain, NoPayload
<1>4. UNCHANGED versions  BY <1>1 DEF registryVars
<1>5. Issue(S, p) \/ IssueAndRevoke(S)  BY <1>1
<1> HIDE DEF p
<1> QED  BY <1>1, <1>2, <1>3, <1>4, <1>5, RowsUntouched, IssueKeeps

LEMMA StageUpdateKeeps ==
    ASSUME ControlInv, NEW t \in Tokens, StageUpdate(t)
    PROVE  ControlPart'
<1>1. PICK q \in Payload : q = call.payload
  BY DEF ControlInv, ControlTypes, CallRow
<1>2. PICK m \in Monitors : m = q.monitor
  BY <1>1 DEF StageUpdate, ControlInv, PlansNameAMonitor
<1>3. PICK c : c = Len(versions[m]) + 1
  OBVIOUS
<1> DEFINE p == [q EXCEPT !.candidate = c]
<1>4. /\ call.stage = "planning" /\ Issue({t}, p) /\ Reply({t})
      /\ StageCandidate(m, q.expected, q.version)
  BY <1>1, <1>2, <1>3 DEF StageUpdate
<1>5. q.action = "update"
  BY <1>1, <1>4 DEF ControlInv, PlansNameAMonitor
<1>6. /\ AddVersion(m, "codex-control", q.version, FALSE)
      /\ q.expected \in {"active", "paused_user"}
  BY <1>4 DEF StageCandidate
<1>7. /\ \A u \in Tokens : LiveOffer(u) /\ OfferOf(u).action = "update" => RowKept(OfferOf(u))
      /\ c \in DOMAIN versions'[m] /\ c \notin DOMAIN versions[m] /\ c \in 0..MaxVersion
      /\ versions'[m][c] = [author |-> "codex-control", parent |-> q.version, approved |-> FALSE]
  <2>1. FALSE \in BOOLEAN  OBVIOUS
  <2> QED  BY <1>3, <1>6, <2>1, RowsAppended
<1>8. /\ p \in Payload /\ p.candidate = c /\ p.monitor = m /\ p.version = q.version
      /\ p.action = "update" /\ p.expected = q.expected
  BY <1>2, <1>5, <1>7 DEF Payload
<1> HIDE DEF p
<1>9. WellFormed(p)  BY <1>6, <1>8 DEF WellFormed
<1>10. FreshUpdate({t}, p)  BY <1>7, <1>8 DEF FreshUpdate
<1>11. done < batch /\ call.stage # "receipt"
  BY <1>4 DEF ControlInv, CallsServeAnUpdate
<1>12. {t} \in SUBSET Tokens  OBVIOUS
<1> QED  BY <1>4, <1>7, <1>8, <1>9, <1>10, <1>11, <1>12, IssueKeeps

\* A confirmation approves at most the row of its own offer.
LEMMA ConfirmKeeps ==
    ASSUME ControlInv, Confirm
    PROVE  ControlPart'
<1> DEFINE p == call.payload
<1>1. /\ call.stage = "receipt" /\ Perform(p) /\ Reply({}) /\ UNCHANGED pending
  BY DEF Confirm
<1>2. /\ call.token \in Tokens /\ LiveOffer(call.token) /\ OfferOf(call.token) = p
      /\ WellFormed(p) /\ p \in Payload
  BY <1>1, ReceiptIsLive
<1>3. /\ call' \in CallRow /\ call'.stage = "replying"
      /\ UNCHANGED <<shown, queue, batch, done>>
  <2>1. call' = [NoCall EXCEPT !.stage = "replying", !.offers = {}]
        /\ UNCHANGED <<shown, queue, batch, done>>
    BY <1>1 DEF Reply
  <2>2. call'.stage = "replying"  BY <2>1 DEF NoCall
  <2> QED  BY <2>1, <2>2, CallTypes
<1>4. ControlTypes'  BY <1>1, <1>3 DEF ControlInv, ControlTypes
<1>5. ReceiptsAreSpent' /\ PlansNameAMonitor' /\ CallsServeAnUpdate'
  BY <1>1, <1>3 DEF ReceiptsAreSpent, PlansNameAMonitor, CallsServeAnUpdate, ControlInv
<1>6. ASSUME NEW t \in Tokens, t # call.token, LiveOffer(t), OfferOf(t).action = "update"
      PROVE  RowKept(OfferOf(t))
  <2> DEFINE o == OfferOf(t)
  <2>1. /\ o.monitor \in Monitors /\ o.candidate \in DOMAIN versions[o.monitor]
        /\ versions[o.monitor][o.candidate].author = "codex-control"
    BY <1>6 DEF ControlInv, OffersAreWellFormed, WellFormed, UpdateOffersAreTheirOwn
  <2>2. CASE p.action \in {"pause", "resume", "delete"}
    <3>1. UNCHANGED versions
      BY <1>1, <2>2 DEF Perform, TransitionStatusExact, SoftDeleteExact
    <3> QED  BY <2>1, <3>1 DEF RowKept
  <2>3. CASE p.action = "create"
    <3>1. PICK m \in Monitors : AddVersion(m, "owner", 0, TRUE)
      BY <1>1, <2>3 DEF Perform, CreateMonitor
    <3> QED  BY <1>6, <3>1, RowsAppended
  <2>4. CASE p.action \in {"update", "repair_activation"}
    <3>1. PICK author \in {"codex-control", "scrapling-adaptive"} :
            /\ p.candidate \in DOMAIN versions[p.monitor]
            /\ versions[p.monitor][p.candidate].author = author
            /\ versions' = [versions EXCEPT ![p.monitor][p.candidate].approved = TRUE]
            /\ author = "codex-control" => p.action = "update"
      BY <1>1, <2>4 DEF Perform, ActivateCandidateExact, Activable
    <3>2. <<p.monitor, p.candidate>> # <<o.monitor, o.candidate>>
      <4>1. CASE author = "codex-control"
        BY <1>2, <1>6, <3>1, <4>1 DEF ControlInv, UpdateOffersAreTheirOwn
      <4>2. CASE author # "codex-control"
        BY <2>1, <3>1, <4>2
      <4> QED  BY <4>1, <4>2
    <3>3. p.monitor \in Monitors  BY <1>2, <2>4 DEF WellFormed
    <3>4. versions \in [Monitors -> Seq(VersionRow)]
      BY DEF ControlInv, RegistryInv, RegistryTypeOK
    <3>5. DOMAIN versions'[o.monitor] = DOMAIN versions[o.monitor]
      BY <2>1, <3>1, <3>3, <3>4
    <3>6. versions'[o.monitor][o.candidate] = versions[o.monitor][o.candidate]
      BY <2>1, <3>1, <3>2, <3>3, <3>4
    <3> QED  BY <2>1, <3>5, <3>6 DEF RowKept
  <2> QED  BY <1>1, <2>2, <2>3, <2>4 DEF Perform
<1>7. ASSUME NEW t \in Tokens, LiveOffer(t)'
      PROVE  OfferKept(t)
  <2>1. pending[t].state = "open"  BY <1>1, <1>3, <1>7 DEF LiveOffer
  <2>2. t # call.token  BY <1>1, <2>1 DEF ControlInv, ReceiptsAreSpent
  <2>3. LiveOffer(t) /\ OfferOf(t)' = OfferOf(t)  BY <1>1, <2>1 DEF LiveOffer, OfferOf
  <2> QED  BY <1>6, <2>2, <2>3 DEF OfferKept
<1>8. WellFormed(NoPayload) /\ NoPayload.action # "update"  BY DEF WellFormed, NoPayload
<1>9. OffersAreWellFormed' /\ UpdateOffersAreTheirOwn'
  BY <1>7, <1>8, OffersStep
<1> QED  BY <1>4, <1>5, <1>9 DEF ControlPart

LEMMA OthersKeep ==
    ASSUME ControlInv, Others
    PROVE  ControlPart'
<1>1. UNCHANGED <<pending, shown, queue, batch, done, call>>
  BY DEF Others, chatVars
<1>2. ControlTypes' /\ ReceiptsAreSpent' /\ PlansNameAMonitor' /\ CallsServeAnUpdate'
  BY <1>1 DEF ControlInv, ControlTypes, ReceiptsAreSpent, PlansNameAMonitor, CallsServeAnUpdate
<1>3. ASSUME NEW t \in Tokens, LiveOffer(t), OfferOf(t).action = "update"
      PROVE  RowKept(OfferOf(t))
  <2>1. ASSUME LeaseNext  PROVE UNCHANGED versions
    BY <2>1 DEF LeaseNext, ClaimDue, ClaimMonitor, TakeLeases, ReleaseLease, TransitionMonitorStatus
  <2>2. ASSUME NEW m \in Monitors, StoreCandidate(m, active[m])
        PROVE  RowKept(OfferOf(t))
    <3>1. PICK v : AddVersion(m, "scrapling-adaptive", v, FALSE)
      BY <2>2 DEF StoreCandidate
    <3>2. FALSE \in BOOLEAN  OBVIOUS
    <3> QED  BY <1>3, <3>1, <3>2, RowsAppended
  <2> QED  BY <1>3, <2>1, <2>2, RowsUntouched DEF Others
<1>4. ASSUME NEW t \in Tokens, LiveOffer(t)'
      PROVE  OfferKept(t)
  <2>1. LiveOffer(t) /\ OfferOf(t)' = OfferOf(t)  BY <1>1, <1>4 DEF LiveOffer, OfferOf
  <2> QED  BY <1>3, <2>1 DEF OfferKept
<1>5. WellFormed(NoPayload) /\ NoPayload.action # "update"  BY DEF WellFormed, NoPayload
<1>6. OffersAreWellFormed' /\ UpdateOffersAreTheirOwn'
  BY <1>4, <1>5, OffersStep
<1> QED  BY <1>2, <1>6 DEF ControlPart

\* The clock moves nothing but how long a token is left.
LEMMA TickRows ==
    ASSUME ControlInv, ControlTick
    PROVE  /\ pending' \in [Tokens -> TokenRow]
           /\ \A t \in Tokens : /\ pending'[t].state = pending[t].state
                               /\ pending'[t].payload = pending[t].payload
                               /\ pending'[t].left <= pending[t].left
<1> USE ControlAssumption DEF TokenRow
<1>1. pending \in [Tokens -> TokenRow]  BY DEF ControlInv, ControlTypes
<1>2. pending' = [t \in Tokens |->
          [pending[t] EXCEPT !.left = IF @ > 0 THEN @ - 1 ELSE @]]
  BY DEF ControlTick
<1>3. ASSUME NEW t \in Tokens
      PROVE  /\ pending'[t] \in TokenRow
             /\ pending'[t].state = pending[t].state
             /\ pending'[t].payload = pending[t].payload
             /\ pending'[t].left <= pending[t].left
  <2>1. pending'[t] = [pending[t] EXCEPT !.left = IF @ > 0 THEN @ - 1 ELSE @]
    BY <1>2
  <2>2. pending[t] \in TokenRow  BY <1>1
  <2> QED  BY <2>1, <2>2
<1> QED  BY <1>2, <1>3

LEMMA TickKeeps ==
    ASSUME ControlInv, ControlTick
    PROVE  ControlPart'
<1>1. UNCHANGED <<versions, shown, queue, batch, done, call>>  BY DEF ControlTick
<1>2. ControlTypes' /\ ReceiptsAreSpent' /\ PlansNameAMonitor' /\ CallsServeAnUpdate'
  BY <1>1, TickRows
  DEF ControlInv, ControlTypes, ReceiptsAreSpent, PlansNameAMonitor, CallsServeAnUpdate
<1>3. OffersAreWellFormed' /\ UpdateOffersAreTheirOwn'
  BY <1>1, TickRows, OffersOnlyEnd DEF LiveOffer, OfferOf
<1> QED  BY <1>2, <1>3 DEF ControlPart

LEMMA InitControlInv == ControlInit => ControlInv
<1> SUFFICES ASSUME ControlInit PROVE ControlInv
  OBVIOUS
<1>1. RegistryInv  BY InitRegistryInv DEF ControlInit
<1>2. NoRow \in TokenRow /\ NoRow.state = "none"  BY PayloadTypes DEF NoRow
<1>3. NoCall \in CallRow /\ NoCall.stage = "idle"  BY CallTypes
<1>4. ControlTypes  BY <1>2, <1>3, EmptySeq DEF ControlInit, ControlTypes
<1>5. ReceiptsAreSpent /\ PlansNameAMonitor /\ CallsServeAnUpdate
  BY <1>3 DEF ControlInit, ReceiptsAreSpent, PlansNameAMonitor, CallsServeAnUpdate
<1>6. \A t \in Tokens : ~LiveOffer(t)  BY <1>2, <1>3 DEF ControlInit, LiveOffer
<1>7. OffersAreWellFormed /\ UpdateOffersAreTheirOwn
  BY <1>6 DEF OffersAreWellFormed, UpdateOffersAreTheirOwn
<1> QED  BY <1>1, <1>4, <1>5, <1>7 DEF ControlInv

LEMMA NextControlInv == ControlInv /\ [ControlNext]_controlVars => ControlInv'
<1> SUFFICES ASSUME ControlInv, [ControlNext]_controlVars PROVE ControlInv'
  OBVIOUS
<1>1. RegistryInv'
  BY ControlStepsRegistry, NextRegistryInv DEF ControlInv
<1>2. ASSUME UNCHANGED controlVars  PROVE ControlPart'
  <2>1. UNCHANGED <<pending, shown, queue, batch, done, call, versions>>
    BY <1>2 DEF controlVars, chatVars, registryVars
  <2>2. ControlTypes' /\ ReceiptsAreSpent' /\ PlansNameAMonitor' /\ CallsServeAnUpdate'
    BY <2>1 DEF ControlInv, ControlTypes, ReceiptsAreSpent, PlansNameAMonitor, CallsServeAnUpdate
  <2>3. OffersAreWellFormed' /\ UpdateOffersAreTheirOwn'
    BY <2>1, OffersOnlyEnd DEF LiveOffer, OfferOf
  <2> QED  BY <2>2, <2>3 DEF ControlPart
<1>3. ASSUME Preview  PROVE ControlPart'
  <2>1. ASSUME NEW t \in Tokens, StageUpdate(t) \/ Propose(t)
        PROVE  ControlPart'
    BY <2>1, StageUpdateKeeps, PlainPreviewsKeep
  <2>2. ASSUME NEW m \in Monitors, NEW t \in Tokens,
               (\E action \in {"pause", "resume", "delete"} : PreviewState(m, t, action))
               \/ PreviewRepair(m, t)
        PROVE  ControlPart'
    BY <2>2, PreviewMonitorKeeps
  <2>3. CASE (\E m \in Monitors : BeginUpdate(m)) \/ BeginProposal
    BY <2>3, CallMovesKeep
  <2>4. CASE \E S \in SUBSET Tokens : OfferChoices(S)
    BY <2>4, PlainPreviewsKeep
  <2> QED  BY <1>3, <2>1, <2>2, <2>3, <2>4 DEF Preview
<1>4. ASSUME Decide  PROVE ControlPart'
  <2>1. ASSUME NEW operation \in Operations, NEW t \in Tokens, Consume(operation, t)
        PROVE  ControlPart'
    BY <2>1, ConsumeKeeps
  <2>2. ASSUME NEW operation \in Operations, NEW t \in Tokens, Deny(operation, t)
        PROVE  ControlPart'
    BY <2>2, EndKeeps
  <2> QED  BY <1>4, <2>1, <2>2, ConfirmKeeps, CallMovesKeep DEF Decide
<1>5. ControlPart'
  BY <1>2, <1>3, <1>4, SendKeeps, PollKeeps, EndKeeps, OthersKeep, TickKeeps DEF ControlNext, Handle
<1> QED  BY <1>1, <1>5, Zenon DEF ControlInv, ControlPart

LEMMA ControlInvariant == ControlSpec => []ControlInv
BY InitControlInv, NextControlInv, PTL DEF ControlSpec

\* Tokens, the call under way, the queue and the rows keep their types.
THEOREM ControlTypesHold == ControlSpec => []ControlTypeOK
<1>1. ControlInv => ControlTypeOK
  BY DEF ControlInv, ControlTypes, ControlTypeOK, RegistryInv
<1> QED  BY <1>1, ControlInvariant, PTL

\* An update button that can still be used names a candidate of its own, whatever
\* else was confirmed in the meantime (PendingActionService.consume, _confirm_candidate).
THEOREM ControlSafety == ControlSpec => []UpdateOffersAreTheirOwn
<1>1. ControlInv => UpdateOffersAreTheirOwn  BY DEF ControlInv
<1> QED  BY <1>1, ControlInvariant, PTL

-----------------------------------------------------------------------------
(* The control plane implements the contract of approvals *)

\* Offers that end, in a step that leaves the monitors alone.
LEMMA OffersLapse ==
    ASSUME UNCHANGED <<status, active>>,
           \A t \in Tokens : Approval(t)' = Approval(t) \/ Approval(t)' = Approving!Spent
    PROVE  Approving!ApprovalNext
<1> DEFINE S == {t \in Tokens : Approval(t)' = Approving!Spent}
<1>1. [t \in Tokens |-> Approval(t)]' =
          [t \in Tokens |-> IF t \in S THEN Approving!Spent ELSE [u \in Tokens |-> Approval(u)][t]]
  OBVIOUS
<1>2. Approving!Lapse(S)  BY <1>1 DEF Approving!Lapse, Approving!Spend
<1> QED  BY <1>2 DEF Approving!ApprovalNext

\* Tokens issued for p, which shows the monitor as it is.
LEMMA TokensIssued ==
    ASSUME UNCHANGED <<status, active>>, NEW S \in SUBSET Tokens, NEW p, Approving!ShowsNow(p),
           \A t \in S : Approval(t) = Approving!Unused /\ Approval(t)' = Approving!Offered(p),
           \A t \in Tokens \ S : Approval(t)' = Approval(t)
    PROVE  Approving!ApprovalNext
<1>1. \A t \in S : Approval(t)'.payload = p  BY DEF Approving!Offered
<1>2. Approving!Offer(S)
  BY <1>1 DEF Approving!Offer, Approving!ShowsNow
<1> QED  BY <1>2 DEF Approving!ApprovalNext

\* A handler without a receipt leaves what its rows say.
LEMMA ApprovalOfRow ==
    ASSUME NEW t \in Tokens, ~(call.stage = "receipt" /\ call.token = t)
    PROVE  Approval(t) = IF pending[t].state = "open" /\ pending[t].left > 0
                         THEN Approving!Offered(pending[t].payload)
                         ELSE IF pending[t].state = "none" THEN Approving!Unused
                         ELSE Approving!Spent
BY DEF Approval, Approving!Offered, Approving!Unused, Approving!Spent

LEMMA IssueOffers ==
    ASSUME ControlInv, NEW S \in SUBSET Tokens, NEW p \in Payload, Approving!ShowsNow(p),
           Issue(S, p) \/ IssueAndRevoke(S), NEW T, Reply(T),
           call.stage # "receipt", UNCHANGED <<status, active>>
    PROVE  Approving!ApprovalNext
<1>1. call'.stage = "replying"  BY DEF Reply, NoCall
<1>2. \A t \in S : pending[t].state = "none"  BY DEF Issue, IssueAndRevoke, Unissued
<1>3. \A t \in Tokens : Approval(t) = IF pending[t].state = "open" /\ pending[t].left > 0
                                     THEN Approving!Offered(pending[t].payload)
                                     ELSE IF pending[t].state = "none" THEN Approving!Unused
                                     ELSE Approving!Spent
  BY ApprovalOfRow
<1>4. \A t \in Tokens : Approval(t)' = IF pending'[t].state = "open" /\ pending'[t].left > 0
                                      THEN Approving!Offered(pending'[t].payload)
                                      ELSE IF pending'[t].state = "none" THEN Approving!Unused
                                      ELSE Approving!Spent
  BY <1>1 DEF Approval, Approving!Offered, Approving!Unused, Approving!Spent
<1>5. CASE Issue(S, p)
  <2>1. pending' = [t \in Tokens |-> IF t \in S THEN OpenRow(p) ELSE pending[t]]
    BY <1>5 DEF Issue
  <2>2. OpenRow(p).state = "open" /\ OpenRow(p).left > 0 /\ OpenRow(p).payload = p
    BY ControlAssumption DEF OpenRow
  <2>3. \A t \in S : Approval(t) = Approving!Unused /\ Approval(t)' = Approving!Offered(p)
    BY <1>2, <1>3, <1>4, <2>1, <2>2
  <2>4. \A t \in Tokens \ S : Approval(t)' = Approval(t)
    BY <1>3, <1>4, <2>1
  <2> QED  BY <2>3, <2>4, TokensIssued
<1>6. CASE IssueAndRevoke(S)
  <2>1. pending' = [t \in Tokens |-> IF t \in S THEN GoneRow ELSE pending[t]]
    BY <1>6 DEF IssueAndRevoke
  <2>2. \A t \in Tokens : Approval(t)' = Approval(t) \/ Approval(t)' = Approving!Spent
    BY <1>3, <1>4, <2>1, PayloadTypes
  <2> QED  BY <2>2, OffersLapse
<1> QED  BY <1>5, <1>6

LEMMA PreviewsOffer ==
    ASSUME ControlInv, Preview
    PROVE  [Approving!ApprovalNext]_(Approving!approvalVars)
<1>1. ASSUME NEW m \in Monitors, NEW t \in Tokens, NEW action \in Actions,
             NEW c \in 0..MaxVersion, status[m] # "absent",
             Serving(Ask), Issue({t}, About(action, m, c)), Reply({t}), UNCHANGED registryVars
      PROVE  Approving!ApprovalNext
  <2> DEFINE p == About(action, m, c)
  <2>1. p \in Payload  BY <1>1, AboutType DEF ControlInv
  <2>2. Approving!ShowsNow(p)  BY DEF Approving!ShowsNow, About
  <2>3. call.stage # "receipt" /\ UNCHANGED <<status, active>>
    BY <1>1 DEF Serving, registryVars
  <2>4. Issue({t}, p) /\ Reply({t}) /\ {t} \in SUBSET Tokens  BY <1>1
  <2> HIDE DEF p
  <2> QED  BY <2>1, <2>2, <2>3, <2>4, IssueOffers
<1>2. ASSUME NEW m \in Monitors, NEW t \in Tokens,
             NEW action \in {"pause", "resume", "delete"}, PreviewState(m, t, action)
      PROVE  Approving!ApprovalNext
  <2>1. action \in Actions  BY DEF Actions
  <2>2. 0 \in 0..MaxVersion  BY RegistryAssumption
  <2>3. status[m] # "absent"  BY <1>2 DEF PreviewState
  <2> QED  BY <1>1, <1>2, <2>1, <2>2, <2>3 DEF PreviewState
<1>3. ASSUME NEW m \in Monitors, NEW t \in Tokens, PreviewRepair(m, t)
      PROVE  Approving!ApprovalNext
  <2>1. PICK c \in Repairs(m) : Issue({t}, About("repair_activation", m, c))
    BY <1>3 DEF PreviewRepair
  <2>2. c \in 0..MaxVersion
    <3>1. versions[m] \in Seq(VersionRow)  BY DEF ControlInv, RegistryInv, RegistryTypeOK
    <3>2. DOMAIN versions[m] = 1..Len(versions[m])  BY <3>1, LenProperties
    <3>3. Len(versions[m]) <= MaxVersion
      BY <1>3 DEF PreviewRepair, ControlInv, RegistryInv, Lineage, Line
    <3> QED  BY <3>1, <3>2, <3>3, LenProperties, RegistryAssumption DEF Repairs
  <2>3. "repair_activation" \in Actions  BY DEF Actions
  <2>4. status[m] # "absent"  BY <1>3 DEF PreviewRepair
  <2> QED  BY <1>1, <1>3, <2>1, <2>2, <2>3, <2>4 DEF PreviewRepair
<1>4. ASSUME (\E t \in Tokens : Propose(t)) \/ (\E S \in SUBSET Tokens : OfferChoices(S))
      PROVE  Approving!ApprovalNext
  <2>1. PICK S \in SUBSET Tokens, T \in SUBSET Tokens, action \in {"create", "select_url"} :
          /\ Issue(S, Plain(action)) \/ IssueAndRevoke(S)
          /\ Reply(T) /\ UNCHANGED registryVars /\ call.stage # "receipt"
    <3>1. ASSUME NEW t \in Tokens, Propose(t)
          PROVE  /\ \/ Issue({t}, Plain("create")) /\ Reply({t})
                    \/ IssueAndRevoke({t}) /\ Reply({})
                 /\ UNCHANGED registryVars /\ call.stage # "receipt"
      BY <3>1 DEF Propose
    <3>2. ASSUME NEW S \in SUBSET Tokens, OfferChoices(S)
          PROVE  /\ \/ Issue(S, Plain("select_url")) /\ Reply(S)
                    \/ IssueAndRevoke(S) /\ Reply({})
                 /\ UNCHANGED registryVars /\ call.stage # "receipt"
      BY <3>2 DEF OfferChoices, Serving
    <3>3. {} \in SUBSET Tokens /\ \A t \in Tokens : {t} \in SUBSET Tokens  OBVIOUS
    <3> QED  BY <1>4, <3>1, <3>2, <3>3
  <2> DEFINE p == Plain(action)
  <2>2. action \in Actions  BY DEF Actions
  <2>3. p \in Payload  BY <2>2, PayloadTypes
  <2>4. Approving!ShowsNow(p)
    BY ControlAssumption DEF Approving!ShowsNow, Plain, NoPayload
  <2>5. UNCHANGED <<status, active>>  BY <2>1 DEF registryVars
  <2>6. Issue(S, p) \/ IssueAndRevoke(S)  BY <2>1
  <2> HIDE DEF p
  <2> QED  BY <2>1, <2>3, <2>4, <2>5, <2>6, IssueOffers
<1>5. ASSUME NEW t \in Tokens, StageUpdate(t)
      PROVE  Approving!ApprovalNext
  <2>1. PICK q \in Payload : q = call.payload
    BY DEF ControlInv, ControlTypes, CallRow
  <2>2. PICK c : c = Len(versions[q.monitor]) + 1
    OBVIOUS
  <2> DEFINE p == [q EXCEPT !.candidate = c]
  <2>3. /\ call.stage = "planning" /\ Issue({t}, p) /\ Reply({t})
        /\ StageCandidate(q.monitor, q.expected, q.version)
    BY <1>5, <2>1, <2>2 DEF StageUpdate
  <2>4. q.monitor \in Monitors  BY <2>1, <2>3 DEF ControlInv, PlansNameAMonitor
  <2>5. /\ q.expected = status[q.monitor] /\ q.version = active[q.monitor]
        /\ UNCHANGED <<status, active>>
        /\ AddVersion(q.monitor, "codex-control", q.version, FALSE)
    BY <2>3 DEF StageCandidate, Unchanged
  <2>6. c \in 0..MaxVersion
    <3>1. FALSE \in BOOLEAN  OBVIOUS
    <3> QED  BY <2>2, <2>4, <2>5, <3>1, RowsAppended
  <2>7. p \in Payload  BY <2>6 DEF Payload
  <2>8. Approving!ShowsNow(p)  BY <2>5, <2>7 DEF Approving!ShowsNow, Payload
  <2>9. call.stage # "receipt" /\ {t} \in SUBSET Tokens  BY <2>3
  <2> HIDE DEF p
  <2> QED  BY <2>3, <2>5, <2>7, <2>8, <2>9, IssueOffers
<1>6. ASSUME (\E m \in Monitors : BeginUpdate(m)) \/ BeginProposal
      PROVE  Approving!ApprovalNext
  <2>1. UNCHANGED <<status, active, pending>> /\ call.stage # "receipt" /\ call'.stage # "receipt"
    BY <1>6 DEF BeginUpdate, BeginProposal, Serving, registryVars, NoCall
  <2>2. \A t \in Tokens : Approval(t)' = Approval(t)  BY <2>1 DEF Approval
  <2> QED  BY <2>1, <2>2, OffersLapse
<1> QED  BY <1>2, <1>3, <1>4, <1>5, <1>6 DEF Preview

\* A handler that ends, a chosen URL, or a crash uses up the receipt, if any.
LEMMA EndsLapse ==
    ASSUME ControlInv, HandlerEnds \/ SendReply \/ ControlCrash \/ ConfirmChoice
                       \/ (\E operation \in Operations, t \in Tokens : Deny(operation, t))
    PROVE  Approving!ApprovalNext
<1>1. UNCHANGED <<status, active, pending>> /\ call'.stage # "receipt"
  <2>1. UNCHANGED <<status, active, pending>>
    BY DEF HandlerEnds, SendReply, ControlCrash, ConfirmChoice, Deny, registryVars
  <2>2. CASE ConfirmChoice  BY <2>1, <2>2 DEF ConfirmChoice, NoCall
  <2>3. ASSUME ~ConfirmChoice  PROVE call' = NoCall
    BY <2>3 DEF HandlerEnds, SendReply, ControlCrash, Deny, Finished
  <2> QED  BY <2>1, <2>2, <2>3, CallTypes
<1>2. ASSUME NEW t \in Tokens
      PROVE  Approval(t)' = Approval(t) \/ Approval(t)' = Approving!Spent
  <2>1. CASE call.stage = "receipt" /\ call.token = t
    <3>1. pending[t].state = "gone"  BY <2>1 DEF ControlInv, ReceiptsAreSpent
    <3> QED  BY <1>1, <3>1 DEF Approval, Approving!Spent
  <2>2. CASE ~(call.stage = "receipt" /\ call.token = t)
    BY <1>1, <2>2 DEF Approval
  <2> QED  BY <2>1, <2>2
<1> QED  BY <1>1, <1>2, OffersLapse

LEMMA ConsumeLapses ==
    ASSUME ControlInv, NEW operation \in Operations, NEW t \in Tokens, Consume(operation, t)
    PROVE  Approving!ApprovalNext
<1>1. /\ pending[t].state = "open" /\ pending[t].left > 0
      /\ pending' = [pending EXCEPT ![t] = GoneRow]
      /\ call.stage = "idle" /\ UNCHANGED <<status, active>>
      /\ pending \in [Tokens -> TokenRow]
  BY DEF Consume, Usable, Spend, Serving, registryVars, ControlInv, ControlTypes
<1>2. pending'[t].state = "gone" /\ \A u \in Tokens \ {t} : pending'[u] = pending[u]
  BY <1>1, PayloadTypes
<1>3. \/ call'.stage = "receipt" /\ call'.token = t /\ call'.payload = pending[t].payload
      \/ call'.stage # "receipt"
  BY DEF Consume, Reply, NoCall
<1>4. ASSUME NEW u \in Tokens
      PROVE  Approval(u)' = Approval(u) \/ Approval(u)' = Approving!Spent
  <2>1. CASE u = t
    BY <1>1, <1>2, <1>3, <2>1 DEF Approval, Approving!Spent
  <2>2. CASE u # t
    BY <1>1, <1>2, <1>3, <2>2 DEF Approval
  <2> QED  BY <2>1, <2>2
<1> QED  BY <1>1, <1>4, OffersLapse

\* What a confirmation does to the monitor is the effect that was approved.
LEMMA PerformIsEffect ==
    ASSUME ControlInv, NEW p \in Payload, WellFormed(p), Perform(p)
    PROVE  Approving!Effect(p)
<1> USE DEF Approving!Effect, Approving!Becomes, Approving!ShowsNow
<1>1. CASE p.action = "create"
  BY <1>1 DEF Perform, CreateMonitor
<1>2. CASE p.action \in {"pause", "resume", "delete"}
  <2>1. p.monitor \in Monitors  BY <1>2 DEF WellFormed
  <2>2. status \in [Monitors -> Statuses \cup {"absent"}] /\ active \in [Monitors -> 0..MaxVersion]
    BY DEF ControlInv, RegistryInv, RegistryTypeOK
  <2>3. active = [active EXCEPT ![p.monitor] = active[p.monitor]]  BY <2>1, <2>2
  <2>4. CASE p.action = "pause"
    BY <2>1, <2>3, <2>4 DEF Perform, TransitionStatusExact, Unchanged
  <2>5. CASE p.action = "resume"
    BY <2>1, <2>3, <2>5 DEF Perform, TransitionStatusExact, Unchanged
  <2>6. CASE p.action = "delete"
    BY <2>1, <2>3, <2>6 DEF Perform, SoftDeleteExact, Unchanged, Statuses
  <2> QED  BY <1>2, <2>4, <2>5, <2>6
<1>3. CASE p.action = "update"
  BY <1>3 DEF Perform, WellFormed, ActivateCandidateExact, Activable, Unchanged
<1>4. CASE p.action = "repair_activation"
  BY <1>4 DEF Perform, WellFormed, ActivateCandidateExact, Activable, Unchanged
<1> QED  BY <1>1, <1>2, <1>3, <1>4 DEF Perform

LEMMA ConfirmApplies ==
    ASSUME ControlInv, Confirm
    PROVE  Approving!ApprovalNext
<1>1. /\ call.stage = "receipt" /\ Perform(call.payload) /\ UNCHANGED pending
      /\ call'.stage # "receipt"
  BY DEF Confirm, Reply, NoCall
<1>2. PICK t \in Tokens : t = call.token
  BY <1>1, ReceiptIsLive
<1>3. call.payload \in Payload /\ WellFormed(call.payload)
  BY <1>1, ReceiptIsLive
<1>4. pending[t].state = "gone"  BY <1>1, <1>2 DEF ControlInv, ReceiptsAreSpent
<1>5. Approval(t).state = "offered" /\ Approval(t).payload = call.payload
  BY <1>1, <1>2 DEF Approval
<1>6. Approval(t)' = Approving!Spent  BY <1>1, <1>4 DEF Approval, Approving!Spent
<1>7. \A u \in Tokens \ {t} : Approval(u)' = Approval(u)  BY <1>1, <1>2 DEF Approval
<1>8. Approving!Spend({t})  BY <1>6, <1>7 DEF Approving!Spend
<1>9. Approving!Effect(call.payload)  BY <1>1, <1>3, PerformIsEffect
<1>10. Approving!Apply(t)  BY <1>5, <1>8, <1>9 DEF Approving!Apply
<1> QED  BY <1>10 DEF Approving!ApprovalNext

LEMMA OthersPark ==
    ASSUME ControlInv, Others
    PROVE  Approving!ApprovalNext
<1>1. UNCHANGED <<pending, call>>  BY DEF Others, chatVars
<1>2. [t \in Tokens |-> Approval(t)]' = [t \in Tokens |-> Approval(t)]
  BY <1>1 DEF Approval
<1>3. ASSUME NEW m \in Monitors, NEW target \in {"paused_auth", "needs_review"},
             status[m] = "active", status' = [status EXCEPT ![m] = target], UNCHANGED active
      PROVE  Approving!ApprovalNext
  BY <1>2, <1>3 DEF Approving!Park, Approving!ApprovalNext
<1>4. ASSUME UNCHANGED <<status, active>>  PROVE Approving!ApprovalNext
  BY <1>1, <1>4, OffersLapse DEF Approval
<1>5. CASE LeaseNext
  <2>1. ASSUME NEW m \in Monitors, NEW w \in Workers, NEW g \in 1..MaxGeneration,
               NEW target \in {"paused_auth", "needs_review"},
               TransitionMonitorStatus(m, w, g, "active", target)
        PROVE  Approving!ApprovalNext
    BY <1>3, <2>1 DEF TransitionMonitorStatus
  <2>2. ASSUME (\E w \in Workers : ClaimDue(w))
               \/ (\E m \in Monitors, w \in Workers : ClaimMonitor(m, w))
               \/ (\E m \in Monitors, w \in Workers, g \in 1..MaxGeneration, d \in CronDelays :
                       ReleaseLease(m, w, g, d))
        PROVE  UNCHANGED <<status, active>>
    BY <2>2 DEF ClaimDue, ClaimMonitor, TakeLeases, ReleaseLease
  <2> QED  BY <1>4, <1>5, <2>1, <2>2 DEF LeaseNext
<1>6. ASSUME NEW m \in Monitors, StoreCandidate(m, active[m])
      PROVE  Approving!ApprovalNext
  BY <1>3, <1>6 DEF StoreCandidate, Unchanged
<1> QED  BY <1>5, <1>6 DEF Others

LEMMA TickLapses ==
    ASSUME ControlInv, ControlTick
    PROVE  Approving!ApprovalNext
<1>1. UNCHANGED <<status, active, call>>  BY DEF ControlTick
<1>2. ASSUME NEW t \in Tokens
      PROVE  Approval(t)' = Approval(t) \/ Approval(t)' = Approving!Spent
  <2>1. /\ pending'[t].state = pending[t].state
        /\ pending'[t].payload = pending[t].payload
        /\ pending'[t].left <= pending[t].left
        /\ pending[t].left \in Int /\ pending'[t].left \in Int
    <3>1. pending[t] \in TokenRow /\ pending'[t] \in TokenRow
      BY TickRows DEF ControlInv, ControlTypes
    <3>2. 0..TokenTicks \subseteq Int  BY ControlAssumption
    <3> QED  BY <3>1, <3>2, TickRows DEF TokenRow
  <2> QED  BY <1>1, <2>1 DEF Approval, Approving!Spent
<1> QED  BY <1>1, <1>2, OffersLapse

\* Every change of a monitor but setting it aside is one approval, used once, while
\* it is offered, to the letter: on the status and version its preview showed.
THEOREM ControlImplementsApprovals == ControlSpec => ImplementsApprovals
<1>1. ControlInit => Approving!ApprovalInit
  <2>1. ASSUME ControlInit, NEW t \in Tokens  PROVE Approval(t) = Approving!Unused
    BY <2>1 DEF ControlInit, Approval, NoCall, NoRow, Approving!Unused
  <2> QED  BY <2>1 DEF ControlInit, RegistryInit, Approving!ApprovalInit
<1>2. ASSUME ControlInv, [ControlNext]_controlVars
      PROVE  [Approving!ApprovalNext]_(Approving!approvalVars)
  <2>1. ASSUME UNCHANGED <<status, active, pending, call>>
        PROVE  [Approving!ApprovalNext]_(Approving!approvalVars)
    BY <2>1, OffersLapse DEF Approval
  <2>2. CASE (\E u \in Updates : Send(u)) \/ Poll \/ PollFails \/ UNCHANGED controlVars
    BY <2>1, <2>2 DEF Send, Poll, PollFails, controlVars, registryVars, chatVars
  <2>3. CASE Decide
    BY <1>2, <2>3, ConsumeLapses, EndsLapse, ConfirmApplies DEF Decide
  <2> QED
    BY <1>2, <2>2, <2>3, PreviewsOffer, EndsLapse, OthersPark, TickLapses DEF ControlNext, Handle
<1> QED
  BY <1>1, <1>2, ControlInvariant, PTL DEF ControlSpec, ImplementsApprovals, Approving!ApprovalSpec

-----------------------------------------------------------------------------
(* Part 2: runs and owner side together *)

(***************************************************************************)
(* Each side's inductive invariant is kept by its own specification's      *)
(* steps.  So it is enough that, from states of both invariants, a step of *)
(* one side is to the other one a step of its environment: what a call of  *)
(* run() does is one of the lease operations ControlPlane leaves to        *)
(* others, and what a receipt or a staged update does is an operation on a *)
(* monitor as it is now, which MonitorRunner leaves to the operator.       *)
(***************************************************************************)
PlatformInv == RunnerInv /\ ControlInv

LEMMA OwnerSideIsOperator ==
    ASSUME PlatformInv, OwnerSideMoves
    PROVE  [RunnerNext]_runnerVars
<1>1. /\ (\E m \in Monitors : LifecycleNext(m)) \/ UNCHANGED registryVars
      /\ UNCHANGED taskVars
  BY OwnerSideIsLifecycle DEF PlatformInv, OwnerSideMoves
<1>2. ASSUME NEW m \in Monitors, LifecycleNext(m)  PROVE RunnerNext
  BY <1>1, <1>2 DEF Operate, RunnerNext
<1>3. CASE UNCHANGED registryVars  BY <1>1, <1>3 DEF runnerVars
<1> QED  BY <1>1, <1>2, <1>3

LEMMA PlatformStepsRunner ==
    ASSUME PlatformInv, [PlatformNext]_platformVars
    PROVE  [RunnerNext]_runnerVars
<1>1. CASE RunsMove  BY <1>1 DEF RunsMove, RunnerNext
<1>2. CASE OwnerSideMoves  BY <1>2, OwnerSideIsOperator
<1>3. CASE RecoveryStores
  BY <1>3 DEF RecoveryStores, Operate, LifecycleNext, RunnerNext
<1>4. ASSUME NEW w \in Workers, ProcessDies(w)  PROVE [RunnerNext]_runnerVars
  BY <1>4 DEF ProcessDies, RunnerNext, runnerVars
<1>5. CASE PlatformTick
  <2>1. (TickRegistry \/ UNCHANGED registryVars) /\ UNCHANGED taskVars
    BY <1>5, TickIsRegistryTick DEF PlatformTick, ControlTick, PlatformInv, ControlInv
  <2> QED  BY <2>1 DEF RunnerTick, RunnerNext, runnerVars
<1>6. CASE UNCHANGED platformVars  BY <1>6 DEF platformVars, runnerVars
<1> QED  BY <1>1, <1>2, <1>3, <1>4, <1>5, <1>6 DEF PlatformNext

LEMMA PlatformStepsControl ==
    ASSUME PlatformInv, [PlatformNext]_platformVars
    PROVE  [ControlNext]_controlVars
<1>1. CASE RunsMove
  <2>1. (LeaseNext \/ UNCHANGED registryVars) /\ UNCHANGED chatVars
    BY <1>1, RunsUseLeases DEF PlatformInv, RunsMove
  <2> QED  BY <2>1 DEF Others, ControlNext, controlVars
<1>2. CASE OwnerSideMoves  BY <1>2 DEF OwnerSideMoves, ControlNext
<1>3. CASE RecoveryStores  BY <1>3 DEF RecoveryStores, Others, ControlNext
<1>4. ASSUME NEW w \in Workers, ProcessDies(w)  PROVE [ControlNext]_controlVars
  <2>1. UNCHANGED registryVars  BY <1>4 DEF ProcessDies, RunnerCrash
  <2> QED  BY <1>4, <2>1 DEF ProcessDies, ControlNext, controlVars
<1>5. CASE PlatformTick  BY <1>5 DEF PlatformTick, ControlNext
<1>6. CASE UNCHANGED platformVars  BY <1>6 DEF platformVars, controlVars
<1> QED  BY <1>1, <1>2, <1>3, <1>4, <1>5, <1>6 DEF PlatformNext

LEMMA InitPlatformInv == PlatformInit => PlatformInv
BY InitRunnerInv, InitControlInv DEF PlatformInit, PlatformInv

LEMMA NextPlatformInv == PlatformInv /\ [PlatformNext]_platformVars => PlatformInv'
BY PlatformStepsRunner, PlatformStepsControl, NextRunnerInv, NextControlInv DEF PlatformInv

LEMMA PlatformInvariant == PlatformSpec => []PlatformInv
BY InitPlatformInv, NextPlatformInv, PTL DEF PlatformSpec

\* Composed, the runs obey MonitorRunner and the owner's side obeys ControlPlane: the
\* environment each was proved against covers what the other one does, in every
\* interleaving and with the service's crashes hitting both at once.
THEOREM SidesCompose == PlatformSpec => SidesKeepTheirSpecs
<1>1. PlatformInit => RunnerInit /\ ControlInit  BY DEF PlatformInit
<1>2. PlatformInv /\ [PlatformNext]_platformVars =>
          [RunnerNext]_runnerVars /\ [ControlNext]_controlVars
  BY PlatformStepsRunner, PlatformStepsControl
<1> QED
  BY <1>1, <1>2, PlatformInvariant, PTL
  DEF PlatformSpec, RunnerSpec, ControlSpec, SidesKeepTheirSpecs

\* The whole platform keeps both promises to the owner at once: atomic observations
\* announced in full, and no change of a monitor but an approval, used once, or a
\* monitor set aside.
THEOREM PlatformKeepsItsContracts == PlatformSpec => ImplementsContract /\ ImplementsApprovals
BY SidesCompose, RunnerImplementsContract, ControlImplementsApprovals, PTL
DEF SidesKeepTheirSpecs

-----------------------------------------------------------------------------
(* Stopped monitors *)

\* Lease operations set an active monitor aside and do nothing else to status and
\* version.
LEMMA LeasesSetAside ==
    ASSUME RegistryInv, LeaseNext, NEW m \in Monitors, status[m] # "active"
    PROVE  status'[m] = status[m] /\ active'[m] = active[m]
<1>1. ASSUME NEW n \in Monitors, NEW w, NEW g, NEW target,
             TransitionMonitorStatus(n, w, g, "active", target)
      PROVE  status'[m] = status[m] /\ active'[m] = active[m]
  BY <1>1 DEF TransitionMonitorStatus, RegistryInv, RegistryTypeOK
<1>2. ASSUME (\E w \in Workers : ClaimDue(w))
             \/ (\E n \in Monitors, w \in Workers : ClaimMonitor(n, w))
             \/ (\E n \in Monitors, w \in Workers, g \in 1..MaxGeneration, d \in CronDelays :
                     ReleaseLease(n, w, g, d))
      PROVE  UNCHANGED <<status, active>>
  BY <1>2 DEF ClaimDue, ClaimMonitor, TakeLeases, ReleaseLease
<1> QED  BY <1>1, <1>2 DEF LeaseNext

\* On the owner's side only a confirmation changes a status or a version.
LEMMA OnlyConfirmationsChange ==
    ASSUME ControlInv, (\E u \in Updates : Send(u)) \/ Poll \/ PollFails \/ Handle, ~Confirm
    PROVE  UNCHANGED <<status, active>>
<1>1. ASSUME NEW t \in Tokens, StageUpdate(t)  PROVE UNCHANGED <<status, active>>
  BY <1>1 DEF StageUpdate, StageCandidate
<1>2. ASSUME (\E u \in Updates : Send(u)) \/ Poll \/ PollFails \/ HandlerEnds
             \/ SendReply \/ ConfirmChoice
      PROVE  UNCHANGED <<status, active>>
  BY <1>2 DEF Send, Poll, PollFails, HandlerEnds, SendReply, ConfirmChoice, registryVars
<1>3. ASSUME NEW operation \in Operations, NEW t \in Tokens,
             Consume(operation, t) \/ Deny(operation, t)
      PROVE  UNCHANGED <<status, active>>
  BY <1>3 DEF Consume, Deny, registryVars
<1>4. ASSUME Preview, \A t \in Tokens : ~StageUpdate(t)
      PROVE  UNCHANGED <<status, active>>
  <2>1. ASSUME NEW t \in Tokens, Propose(t)  PROVE UNCHANGED <<status, active>>
    BY <2>1 DEF Propose, registryVars
  <2>2. ASSUME NEW m \in Monitors, NEW t \in Tokens,
               (\E action \in {"pause", "resume", "delete"} : PreviewState(m, t, action))
               \/ PreviewRepair(m, t)
        PROVE  UNCHANGED <<status, active>>
    BY <2>2 DEF PreviewState, PreviewRepair, registryVars
  <2>3. ASSUME (\E m \in Monitors : BeginUpdate(m)) \/ BeginProposal
               \/ (\E S \in SUBSET Tokens : OfferChoices(S))
        PROVE  UNCHANGED <<status, active>>
    BY <2>3 DEF BeginUpdate, BeginProposal, OfferChoices, registryVars
  <2> QED  BY <1>4, <2>1, <2>2, <2>3 DEF Preview
<1> QED  BY <1>1, <1>2, <1>3, <1>4 DEF Handle, Decide

\* A confirmation that changes a stopped monitor is about that monitor as it is now.
LEMMA ConfirmationsNameTheirMonitor ==
    ASSUME ControlInv, Confirm, NEW m \in Monitors, status[m] \in {"paused_user", "disabled"},
           status'[m] # status[m] \/ active'[m] # active[m]
    PROVE  /\ call.stage = "receipt" /\ call'.stage # "receipt"
           /\ call.payload.monitor = m
           /\ call.payload.expected = status[m] /\ call.payload.version = active[m]
<1> DEFINE p == call.payload
<1>1. call.stage = "receipt" /\ Perform(p) /\ call'.stage # "receipt"
  BY DEF Confirm, Reply, NoCall
<1>2. Approving!Effect(p)  BY <1>1, ReceiptIsLive, PerformIsEffect
<1>3. status \in [Monitors -> Statuses \cup {"absent"}] /\ active \in [Monitors -> 0..MaxVersion]
  BY DEF ControlInv, RegistryInv, RegistryTypeOK
<1>4. PICK n \in Monitors :
          /\ \E target, version : Approving!Becomes(n, target, version)
          /\ \/ status[n] = "absent"
             \/ n = p.monitor /\ p.expected = status[n] /\ p.version = active[n]
  BY <1>2 DEF Approving!Effect, Approving!ShowsNow
<1>5. n = m  BY <1>3, <1>4 DEF Approving!Becomes
<1> QED  BY <1>1, <1>4, <1>5

\* A paused or deleted monitor is touched by nothing but a confirmation about itself,
\* as it is: late runs, repairs, restarts and stale buttons leave it alone.
THEOREM StoppedMonitorsStayStopped == PlatformSpec => StoppedMonitorsAreLeftAlone
<1>1. ASSUME PlatformInv, [PlatformNext]_platformVars, NEW m \in Monitors,
             status[m] \in {"paused_user", "disabled"},
             <<status[m], active[m], items[m], outbox[m]>>'
                 # <<status[m], active[m], items[m], outbox[m]>>
      PROVE  /\ call.stage = "receipt" /\ call'.stage # "receipt"
             /\ call.payload.monitor = m
             /\ call.payload.expected = status[m] /\ call.payload.version = active[m]
             /\ UNCHANGED <<items, outbox>>
  <2>1. UNCHANGED <<items, outbox>>
    <3> SUFFICES ASSUME ~UNCHANGED <<items, outbox>>  PROVE FALSE
      OBVIOUS
    <3>1. PICK n \in Monitors, g \in Generations :
              /\ Live(n, g) /\ At(n, g, "diffed") /\ Fenced(n, g)
              /\ items' = [items EXCEPT ![n] = CurrentItem(@, task[n][g].batch)]
              /\ outbox' = [outbox EXCEPT ![n] = @ \cup
                               Candidates(task[n][g].previous, task[n][g].batch)]
              /\ UNCHANGED registryVars
      BY <1>1, PlatformStepsRunner, WhoObserves DEF PlatformInv
    <3>2. status[n] = "active"
      BY <1>1, <3>1 DEF PlatformInv, RunnerInv, FencedCallsAreCurrent, CurrentCall, At
    <3>3. n # m /\ items'[m] = items[m] /\ outbox'[m] = outbox[m]
      BY <1>1, <3>1, <3>2 DEF PlatformInv, RunnerInv, RunnerTypeOK
    <3>4. status'[m] = status[m] /\ active'[m] = active[m]  BY <3>1 DEF registryVars
    <3> QED  BY <1>1, <3>3, <3>4
  <2>2. status'[m] # status[m] \/ active'[m] # active[m]  BY <1>1, <2>1
  <2>3. RegistryInv /\ ControlInv  BY <1>1 DEF PlatformInv, ControlInv
  <2>4. CASE RunsMove
    <3>1. LeaseNext \/ UNCHANGED registryVars
      BY <1>1, <2>4, RunsUseLeases DEF PlatformInv, RunsMove
    <3> QED  BY <1>1, <2>2, <2>3, <3>1, LeasesSetAside DEF registryVars
  <2>5. CASE RecoveryStores
    <3>1. PICK n \in Monitors : StoreCandidate(n, active[n])  BY <2>5 DEF RecoveryStores
    <3>2. /\ status[n] = "active" /\ UNCHANGED active
          /\ status' = [status EXCEPT ![n] = "needs_review"]
      BY <3>1 DEF StoreCandidate, Unchanged
    <3> QED  BY <1>1, <2>2, <2>3, <3>2 DEF RegistryInv, RegistryTypeOK
  <2>6. ASSUME (\E w \in Workers : ProcessDies(w)) \/ PlatformTick \/ UNCHANGED platformVars
        PROVE  UNCHANGED <<status, active>>
    BY <2>6 DEF ProcessDies, RunnerCrash, PlatformTick, ControlTick, platformVars, registryVars
  <2>7. CASE OwnerSideMoves
    <3>1. Confirm
      BY <2>2, <2>3, <2>7, OnlyConfirmationsChange DEF OwnerSideMoves
    <3> QED  BY <1>1, <2>1, <2>2, <2>3, <3>1, ConfirmationsNameTheirMonitor
  <2> QED  BY <1>1, <2>2, <2>4, <2>5, <2>6, <2>7 DEF PlatformNext
<1>2. PlatformInv /\ [PlatformNext]_platformVars =>
      [\A m \in Monitors :
          /\ status[m] \in {"paused_user", "disabled"}
          /\ <<status[m], active[m], items[m], outbox[m]>>'
                 # <<status[m], active[m], items[m], outbox[m]>>
          => /\ call.stage = "receipt" /\ call'.stage # "receipt"
             /\ call.payload.monitor = m
             /\ call.payload.expected = status[m] /\ call.payload.version = active[m]
             /\ UNCHANGED <<items, outbox>>]_platformVars
  BY <1>1
<1> QED
  BY <1>2, PlatformInvariant, PTL DEF PlatformSpec, StoppedMonitorsAreLeftAlone

-----------------------------------------------------------------------------
(* What runs has been approved *)

\* Calls that pass the fence run the active version, which is approved.
THEOREM OnlyApprovedVersionsRun == PlatformSpec => []UnapprovedNeverRuns
<1>1. ASSUME PlatformInv, NEW m \in Monitors, NEW g \in Generations, Fenced(m, g),
             task[m][g].stage \in {"loaded", "fetching", "diffed"}
      PROVE  /\ task[m][g].version \in DOMAIN versions[m]
             /\ versions[m][task[m][g].version].approved
  <2>1. CurrentCall(m, g)
    BY <1>1 DEF PlatformInv, RunnerInv, FencedCallsAreCurrent, Live
  <2>2. status[m] = "active" /\ task[m][g].version = active[m]
    BY <1>1, <2>1 DEF CurrentCall
  <2>3. LinearApprovals  BY <1>1, LineageIsLinear DEF PlatformInv, RunnerInv
  <2> QED  BY <2>2, <2>3 DEF LinearApprovals
<1>2. PlatformInv => UnapprovedNeverRuns  BY <1>1 DEF UnapprovedNeverRuns
<1> QED  BY <1>2, PlatformInvariant, PTL

\* A staged candidate or a stored repair approves nothing.
LEMMA StagedIsUnapproved ==
    ASSUME RegistryInv, NEW n \in Monitors, NEW author \in Authors, NEW parent \in 0..MaxVersion,
           AddVersion(n, author, parent, FALSE), NEW m \in Monitors
    PROVE  Approved(m)' = Approved(m)
<1> DEFINE row == [author |-> author, parent |-> parent, approved |-> FALSE]
<1>1. versions \in [Monitors -> Seq(VersionRow)]  BY DEF RegistryInv, RegistryTypeOK
<1>2. versions' = [versions EXCEPT ![n] = Append(versions[n], row)]  BY DEF AddVersion
<1>3. CASE m # n
  BY <1>1, <1>2, <1>3 DEF Approved
<1>4. CASE m = n
  <2>1. versions[n] \in Seq(VersionRow) /\ row \in VersionRow
    BY <1>1 DEF VersionRow
  <2>2. versions'[n] = Append(versions[n], row)  BY <1>1, <1>2
  <2>3. /\ Len(versions'[n]) = Len(versions[n]) + 1
        /\ \A i \in 1..Len(versions[n]) : versions'[n][i] = versions[n][i]
        /\ versions'[n][Len(versions[n]) + 1] = row
    BY <2>1, <2>2, AppendProperties
  <2>4. /\ DOMAIN versions[n] = 1..Len(versions[n]) /\ Len(versions[n]) \in Nat
        /\ DOMAIN versions'[n] = 1..Len(versions[n]) + 1
    BY <2>1, <2>2, <2>3, LenProperties, AppendProperties
  <2>5. ~row.approved  OBVIOUS
  <2> HIDE DEF row
  <2>6. \A v : v \in DOMAIN versions'[n] /\ versions'[n][v].approved <=>
               v \in DOMAIN versions[n] /\ versions[n][v].approved
    BY <2>3, <2>4, <2>5
  <2> QED  BY <1>4, <2>6 DEF Approved
<1> QED  BY <1>3, <1>4

LEMMA LeasesKeepVersions == LeaseNext => UNCHANGED versions
BY DEF LeaseNext, ClaimDue, ClaimMonitor, TakeLeases, ReleaseLease, TransitionMonitorStatus

\* An activation approves its candidate and nothing else.
LEMMA ActivationApproves ==
    ASSUME RegistryInv, NEW n \in Monitors, NEW c, NEW author, NEW e, NEW v, NEW t,
           ActivateCandidateExact(n, c, author, e, v, t)
    PROVE  /\ Approved(n)' = Approved(n) \cup {c}
           /\ \A m \in Monitors \ {n} : Approved(m)' = Approved(m)
<1>1. versions \in [Monitors -> Seq(VersionRow)]  BY DEF RegistryInv, RegistryTypeOK
<1>2. /\ c \in DOMAIN versions[n]
      /\ versions' = [versions EXCEPT ![n][c].approved = TRUE]
  BY DEF ActivateCandidateExact, Activable
<1>3. \A m \in Monitors \ {n} : versions'[m] = versions[m]  BY <1>1, <1>2
<1>4. versions[n] \in Seq(VersionRow) /\ DOMAIN versions[n] = 1..Len(versions[n])
  BY <1>1, LenProperties
<1>5. versions'[n] = [versions[n] EXCEPT ![c].approved = TRUE]  BY <1>1, <1>2
<1>6. DOMAIN versions'[n] = DOMAIN versions[n]  BY <1>4, <1>5
<1>7. versions'[n][c].approved
  BY <1>1, <1>2, <1>4, <1>5 DEF VersionRow
<1>8. \A u \in DOMAIN versions[n] : u # c => versions'[n][u] = versions[n][u]
  BY <1>4, <1>5
<1>9. Approved(n)' = Approved(n) \cup {c}  BY <1>2, <1>6, <1>7, <1>8 DEF Approved
<1> QED  BY <1>3, <1>9 DEF Approved

LEMMA ConfirmationsApprove ==
    ASSUME ControlInv, Confirm, NEW m \in Monitors, Approved(m)' # Approved(m)
    PROVE  /\ call.stage = "receipt" /\ call'.stage # "receipt"
           /\ \/ call.payload.action = "create" /\ status[m] = "absent"
              \/ /\ call.payload.action \in {"update", "repair_activation"}
                 /\ call.payload.monitor = m
                 /\ call.payload.expected = status[m] /\ call.payload.version = active[m]
                 /\ Approved(m)' = Approved(m) \cup {call.payload.candidate}
<1> DEFINE p == call.payload
<1>1. call.stage = "receipt" /\ Perform(p) /\ call'.stage # "receipt"
  BY DEF Confirm, Reply, NoCall
<1>2. WellFormed(p)  BY <1>1, ReceiptIsLive
<1>3. RegistryInv  BY DEF ControlInv
<1>4. versions'[m] # versions[m]  BY DEF Approved
<1>5. CASE p.action = "create"
  <2>1. PICK n \in Monitors : CreateMonitor(n)  BY <1>1, <1>5 DEF Perform
  <2>2. m = n
    BY <1>3, <1>4, <2>1 DEF CreateMonitor, AddVersion, RegistryInv, RegistryTypeOK
  <2> QED  BY <1>1, <1>5, <2>1, <2>2 DEF CreateMonitor
<1>6. CASE p.action \in {"update", "repair_activation"}
  <2>1. PICK author, e, t : ActivateCandidateExact(p.monitor, p.candidate, author, e, p.version, t)
                            /\ e = p.expected
    BY <1>1, <1>2, <1>6 DEF Perform, WellFormed
  <2>2. p.monitor \in Monitors  BY <1>2, <1>6 DEF WellFormed
  <2>3. p.monitor = m /\ Approved(m)' = Approved(m) \cup {p.candidate}
    BY <1>3, <2>1, <2>2, ActivationApproves
  <2>4. p.expected = status[m] /\ p.version = active[m]
    BY <2>1, <2>3 DEF ActivateCandidateExact, Activable, Unchanged
  <2> QED  BY <1>1, <1>6, <2>3, <2>4
<1>7. CASE p.action \in {"pause", "resume", "delete"}
  BY <1>1, <1>4, <1>7 DEF Perform, TransitionStatusExact, SoftDeleteExact
<1> QED  BY <1>1, <1>5, <1>6, <1>7 DEF Perform

\* On the owner's side a staged update adds an unapproved row, and nothing else but
\* a confirmation writes a version.
LEMMA HandlersApproveNothing ==
    ASSUME ControlInv, (\E u \in Updates : Send(u)) \/ Poll \/ PollFails \/ Handle, ~Confirm,
           NEW m \in Monitors
    PROVE  Approved(m)' = Approved(m)
<1>1. ASSUME NEW t \in Tokens, StageUpdate(t)  PROVE Approved(m)' = Approved(m)
  <2> DEFINE p == call.payload
  <2>1. call.stage = "planning" /\ StageCandidate(p.monitor, p.expected, p.version)
    BY <1>1 DEF StageUpdate
  <2>2. p.monitor \in Monitors /\ p \in Payload /\ RegistryInv
    BY <2>1 DEF ControlInv, PlansNameAMonitor, ControlTypes, CallRow
  <2>3. AddVersion(p.monitor, "codex-control", p.version, FALSE)  BY <2>1 DEF StageCandidate
  <2>4. p.version \in 0..MaxVersion /\ "codex-control" \in Authors
    BY <2>2 DEF Payload, Authors
  <2> QED  BY <2>2, <2>3, <2>4, StagedIsUnapproved
<1>2. CASE \A t \in Tokens : ~StageUpdate(t)
  <2>1. UNCHANGED versions
    <3>1. ASSUME (\E u \in Updates : Send(u)) \/ Poll \/ PollFails \/ HandlerEnds
             \/ SendReply \/ ConfirmChoice
          PROVE  UNCHANGED versions
      BY <3>1 DEF Send, Poll, PollFails, HandlerEnds, SendReply, ConfirmChoice, registryVars
    <3>2. ASSUME NEW operation \in Operations, NEW t \in Tokens,
                 Consume(operation, t) \/ Deny(operation, t)
          PROVE  UNCHANGED versions
      BY <3>2 DEF Consume, Deny, registryVars
    <3>3. ASSUME Preview  PROVE UNCHANGED versions
      <4>1. ASSUME NEW t \in Tokens, Propose(t)  PROVE UNCHANGED versions
        BY <4>1 DEF Propose, registryVars
      <4>2. ASSUME NEW n \in Monitors, NEW t \in Tokens,
                   (\E action \in {"pause", "resume", "delete"} : PreviewState(n, t, action))
                   \/ PreviewRepair(n, t)
            PROVE  UNCHANGED versions
        BY <4>2 DEF PreviewState, PreviewRepair, registryVars
      <4>3. ASSUME (\E n \in Monitors : BeginUpdate(n)) \/ BeginProposal
                   \/ (\E S \in SUBSET Tokens : OfferChoices(S))
            PROVE  UNCHANGED versions
        BY <4>3 DEF BeginUpdate, BeginProposal, OfferChoices, registryVars
      <4> QED  BY <1>2, <3>3, <4>1, <4>2, <4>3 DEF Preview
    <3> QED  BY <3>1, <3>2, <3>3 DEF Handle, Decide
  <2> QED  BY <2>1 DEF Approved
<1> QED  BY <1>1, <1>2

\* What the language model plans and what recovery stores is approved by nobody but
\* the owner, in the step that uses up a receipt about it.
THEOREM ApprovalsAreTheOwners == PlatformSpec => ApprovedByTheOwner
<1>1. ASSUME PlatformInv, [PlatformNext]_platformVars, NEW m \in Monitors,
             Approved(m)' # Approved(m)
      PROVE  /\ call.stage = "receipt" /\ call'.stage # "receipt"
             /\ \/ call.payload.action = "create" /\ status[m] = "absent"
                \/ /\ call.payload.action \in {"update", "repair_activation"}
                   /\ call.payload.monitor = m
                   /\ call.payload.expected = status[m] /\ call.payload.version = active[m]
                   /\ Approved(m)' = Approved(m) \cup {call.payload.candidate}
  <2>1. RegistryInv /\ ControlInv  BY <1>1 DEF PlatformInv, ControlInv
  <2>2. ~UNCHANGED versions  BY <1>1 DEF Approved
  <2>3. ~RunsMove
    <3>1. RunsMove => LeaseNext \/ UNCHANGED registryVars
      BY <1>1, RunsUseLeases DEF PlatformInv, RunsMove
    <3> QED  BY <2>2, <3>1, LeasesKeepVersions DEF registryVars
  <2>4. ~RecoveryStores
    <3> SUFFICES ASSUME NEW n \in Monitors, StoreCandidate(n, active[n])  PROVE FALSE
      BY DEF RecoveryStores
    <3>1. AddVersion(n, "scrapling-adaptive", active[n], FALSE)  BY DEF StoreCandidate
    <3>2. "scrapling-adaptive" \in Authors /\ active[n] \in 0..MaxVersion
      BY <2>1 DEF Authors, RegistryInv, RegistryTypeOK
    <3> QED  BY <1>1, <2>1, <3>1, <3>2, StagedIsUnapproved
  <2>5. ASSUME (\E w \in Workers : ProcessDies(w)) \/ PlatformTick \/ UNCHANGED platformVars
        PROVE  UNCHANGED versions
    BY <2>5 DEF ProcessDies, RunnerCrash, PlatformTick, ControlTick, platformVars, registryVars
  <2>6. (\E u \in Updates : Send(u)) \/ Poll \/ PollFails \/ Handle
    BY <1>1, <2>2, <2>3, <2>4, <2>5 DEF PlatformNext, OwnerSideMoves
  <2>7. Confirm  BY <1>1, <2>1, <2>6, HandlersApproveNothing
  <2> QED  BY <1>1, <2>1, <2>7, ConfirmationsApprove
<1>2. PlatformInv /\ [PlatformNext]_platformVars =>
      [\A m \in Monitors :
          Approved(m)' # Approved(m) =>
              /\ call.stage = "receipt" /\ call'.stage # "receipt"
              /\ \/ call.payload.action = "create" /\ status[m] = "absent"
                 \/ /\ call.payload.action \in {"update", "repair_activation"}
                    /\ call.payload.monitor = m
                    /\ call.payload.expected = status[m] /\ call.payload.version = active[m]
                    /\ Approved(m)' = Approved(m) \cup {call.payload.candidate}]_platformVars
  BY <1>1
<1> QED  BY <1>2, PlatformInvariant, PTL DEF PlatformSpec, ApprovedByTheOwner

=============================================================================
