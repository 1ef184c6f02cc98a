------------------------- MODULE ServiceLoops_proofs -------------------------
(***************************************************************************)
(* Proofs about ServiceLoops, for every set of monitors and loops, every   *)
(* list of resources and every value of the bounds.                        *)
(***************************************************************************)
EXTENDS ServiceLoops, SequenceTheorems, TLAPS

(***************************************************************************)
(* The inductive invariant.  ResourcesOutliveTheirUsers says nothing of    *)
(* the phases before the closing one, from which the group is left;        *)
(* ForgottenOnlyIfHandled says nothing of the offset, which the next poll  *)
(* confirms, nor of the batch, whose least update moves the offset: below  *)
(* an update of the batch there are only handled ones and others of it.    *)
(***************************************************************************)
LoopsEndBeforeRuns ==
    /\ phase \in {"grace", "cancelling", "closing", "exited"} => LoopsEnded
    /\ phase \in {"closing", "exited"} => RunsEnded

CountersHaveRoom == phase = "serving" => \A l \in Loops : failures[l] < MaxFailures

OffsetFollowsHandled ==
    /\ 1..confirmed \subseteq handled
    /\ 1..offset - 1 \subseteq handled
    /\ \A i \in batch : 1..i - 1 \subseteq handled \cup batch

ServiceInv ==
    ServiceTypeOK /\ LoopsEndBeforeRuns /\ CountersHaveRoom /\ OffsetFollowsHandled

-----------------------------------------------------------------------------
(* The initial state and a stutter *)

LEMMA InitServiceInv == Init => ServiceInv
<1> SUFFICES ASSUME Init PROVE ServiceInv
  OBVIOUS
<1>1. ServiceTypeOK
  <2>1. open \in Seq({Resources[i] : i \in DOMAIN Resources}) /\ sent \in Seq(Wire)
    BY DEF Init
  <2>2. sent = <<>> /\ Len(sent) = 0
    BY DEF Init
  <2>3. at \in [Loops -> LoopPlaces] /\ failures \in [Loops -> 0..MaxFailures]
        /\ run \in [RunTasks -> {"idle", "working", "cleanup"}]
    BY ServiceAssumption DEF Init, LoopPlaces
  <2>4. /\ 0 \in 0 .. MaxUpdates + 1 /\ 0 \in 0..MaxUpdates /\ 0 \in 0..MaxStarts
        /\ 0 <= MaxUpdates
    BY ServiceAssumption
  <2>5. phase \in Phases /\ stop \in BOOLEAN /\ failure \in BOOLEAN
    BY DEF Init, Phases
  <2>6. batch = {} /\ handled = {} /\ offset = 0 /\ confirmed = 0 /\ starts = 0
    BY DEF Init
  <2> QED
    BY <2>1, <2>2, <2>3, <2>4, <2>5, <2>6 DEF ServiceTypeOK
<1>2. LoopsEndBeforeRuns /\ CountersHaveRoom
  BY DEF Init, LoopsEndBeforeRuns, LoopsEnded, RunsEnded, CountersHaveRoom
<1>3. OffsetFollowsHandled
  BY DEF Init, OffsetFollowsHandled
<1> QED
  BY <1>1, <1>2, <1>3 DEF ServiceInv

LEMMA StutterKeeps == ServiceInv /\ UNCHANGED vars => ServiceInv'
BY DEF ServiceInv, ServiceTypeOK, LoopsEndBeforeRuns, LoopsEnded, RunsEnded, CountersHaveRoom,
       OffsetFollowsHandled, vars

\* What a step that touches neither the updates nor the offset keeps.
LEMMA UpdatesUntouched ==
    OffsetFollowsHandled /\ UNCHANGED telegramVars => OffsetFollowsHandled'
BY DEF OffsetFollowsHandled, telegramVars

-----------------------------------------------------------------------------
(* Start, crash and stop *)

LEMMA StartKeeps ==
    ASSUME ServiceInv, NEW preflight \in BOOLEAN, Start(preflight)
    PROVE  ServiceInv'
<1>1. ServiceTypeOK'
  <2>1. at' \in [Loops -> LoopPlaces] /\ failures' \in [Loops -> 0..MaxFailures]
    BY ServiceAssumption DEF Start, LoopPlaces
  <2>4. phase' \in Phases /\ failure' \in BOOLEAN /\ stop' \in BOOLEAN
    BY DEF Start, Phases
  <2>2. open' \in Seq({Resources[i] : i \in DOMAIN Resources}) /\ starts' \in 0..MaxStarts
    BY ServiceAssumption DEF ServiceInv, ServiceTypeOK, Start
  <2>3. batch' = {} /\ offset' = 0 /\ UNCHANGED <<run, sent, confirmed, handled>>
    BY DEF Start
  <2> QED
    BY <2>1, <2>2, <2>3, <2>4, ServiceAssumption DEF ServiceInv, ServiceTypeOK
<1>2. LoopsEndBeforeRuns' /\ CountersHaveRoom'
  BY ServiceAssumption DEF ServiceInv, Start, LoopsEndBeforeRuns, LoopsEnded, RunsEnded,
     CountersHaveRoom
<1>3. OffsetFollowsHandled'
  BY DEF ServiceInv, Start, OffsetFollowsHandled
<1> QED
  BY <1>1, <1>2, <1>3 DEF ServiceInv

LEMMA CrashKeeps == ServiceInv /\ Crash => ServiceInv'
<1> SUFFICES ASSUME ServiceInv, Crash PROVE ServiceInv'
  OBVIOUS
<1>1. ServiceTypeOK'
  <2>1. open' \in Seq({Resources[i] : i \in DOMAIN Resources})
    BY DEF Crash
  <2> QED
    BY <2>1 DEF ServiceInv, ServiceTypeOK, Crash, Phases, LoopPlaces
<1>2. LoopsEndBeforeRuns' /\ CountersHaveRoom'
  BY DEF Crash, LoopsEndBeforeRuns, LoopsEnded, RunsEnded, CountersHaveRoom
<1>3. OffsetFollowsHandled'
  BY DEF ServiceInv, Crash, OffsetFollowsHandled
<1> QED
  BY <1>1, <1>2, <1>3 DEF ServiceInv

LEMMA RequestStopKeeps == ServiceInv /\ RequestStop => ServiceInv'
<1> SUFFICES ASSUME ServiceInv, RequestStop PROVE ServiceInv'
  OBVIOUS
<1>1. ServiceTypeOK'
  BY DEF ServiceInv, ServiceTypeOK, RequestStop, telegramVars
<1>2. LoopsEndBeforeRuns' /\ CountersHaveRoom'
  BY DEF ServiceInv, RequestStop, LoopsEndBeforeRuns, LoopsEnded, RunsEnded, CountersHaveRoom
<1>3. OffsetFollowsHandled'
  BY UpdatesUntouched DEF ServiceInv, RequestStop
<1> QED
  BY <1>1, <1>2, <1>3 DEF ServiceInv

-----------------------------------------------------------------------------
(* The loops *)

LEMMA WakeKeeps ==
    ASSUME ServiceInv, NEW l \in Loops, Wake(l)
    PROVE  ServiceInv'
<1>1. ServiceTypeOK'
  BY DEF ServiceInv, ServiceTypeOK, Wake, LoopPlaces, telegramVars
<1>2. LoopsEndBeforeRuns' /\ CountersHaveRoom'
  BY DEF ServiceInv, Wake, Serving, LoopsEndBeforeRuns, LoopsEnded, RunsEnded, CountersHaveRoom
<1>3. OffsetFollowsHandled'
  BY UpdatesUntouched DEF ServiceInv, Wake
<1> QED
  BY <1>1, <1>2, <1>3 DEF ServiceInv

\* The counter of a serving loop is below its limit, so one more failure is counted
\* within the type, and the loop that reaches the limit does not go on serving.
LEMMA CountFailureKeeps ==
    ASSUME ServiceInv, Serving, NEW l \in Loops, CountFailure(l), UNCHANGED run
    PROVE  /\ phase' \in Phases /\ stop' \in BOOLEAN /\ failure' \in BOOLEAN
           /\ at' \in [Loops -> LoopPlaces] /\ failures' \in [Loops -> 0..MaxFailures]
           /\ LoopsEndBeforeRuns' /\ CountersHaveRoom'
<1> USE ServiceAssumption
<1>1. failures[l] \in 0 .. MaxFailures - 1 /\ \A k \in Loops : failures[k] < MaxFailures
  BY DEF ServiceInv, ServiceTypeOK, Serving, CountersHaveRoom
<1>2. failures' \in [Loops -> 0..MaxFailures]
  BY <1>1 DEF ServiceInv, ServiceTypeOK, CountFailure
<1>3. \A k \in Loops \ {l} : failures'[k] = failures[k]
  BY DEF ServiceInv, ServiceTypeOK, CountFailure
<1>4. CASE failures'[l] >= MaxFailures
  BY <1>2, <1>4 DEF CountFailure, ServiceInv, ServiceTypeOK, Phases, LoopPlaces,
     LoopsEndBeforeRuns, CountersHaveRoom
<1>5. CASE ~(failures'[l] >= MaxFailures)
  <2>1. \A k \in Loops : failures'[k] < MaxFailures
    BY <1>1, <1>2, <1>3, <1>5
  <2> QED
    BY <1>2, <1>5, <2>1 DEF CountFailure, ServiceInv, ServiceTypeOK, Serving, Phases, LoopPlaces,
       LoopsEndBeforeRuns, CountersHaveRoom
<1> QED
  BY <1>4, <1>5

LEMMA FailsKeeps ==
    ASSUME ServiceInv, NEW l \in Loops, Fails(l)
    PROVE  ServiceInv'
<1>1. LoopsEndBeforeRuns' /\ CountersHaveRoom'
  BY CountFailureKeeps DEF Fails
<1>2. ServiceTypeOK'
  BY CountFailureKeeps DEF ServiceInv, ServiceTypeOK, Fails, telegramVars
<1>3. OffsetFollowsHandled'
  BY UpdatesUntouched DEF ServiceInv, Fails
<1> QED
  BY <1>1, <1>2, <1>3 DEF ServiceInv

LEMMA SucceedsKeeps ==
    ASSUME ServiceInv, NEW l \in Loops, Succeeds(l)
    PROVE  ServiceInv'
<1>1. ServiceTypeOK'
  BY ServiceAssumption DEF ServiceInv, ServiceTypeOK, Succeeds, LoopPlaces, telegramVars
<1>2. LoopsEndBeforeRuns' /\ CountersHaveRoom'
  BY ServiceAssumption DEF ServiceInv, ServiceTypeOK, Succeeds, Serving, LoopsEndBeforeRuns,
     LoopsEnded, RunsEnded, CountersHaveRoom
<1>3. OffsetFollowsHandled'
  BY UpdatesUntouched DEF ServiceInv, Succeeds
<1> QED
  BY <1>1, <1>2, <1>3 DEF ServiceInv

LEMMA SchedulerTickKeeps == ServiceInv /\ SchedulerTick => ServiceInv'
<1> SUFFICES ASSUME ServiceInv, SchedulerTick PROVE ServiceInv'
  OBVIOUS
<1>1. ServiceTypeOK'
  BY ServiceAssumption DEF ServiceInv, ServiceTypeOK, SchedulerTick, LoopPlaces, telegramVars
<1>2. LoopsEndBeforeRuns' /\ CountersHaveRoom'
  BY ServiceAssumption DEF ServiceInv, ServiceTypeOK, SchedulerTick, Serving, LoopsEndBeforeRuns,
     LoopsEnded, RunsEnded, CountersHaveRoom
<1>3. OffsetFollowsHandled'
  BY UpdatesUntouched DEF ServiceInv, SchedulerTick
<1> QED
  BY <1>1, <1>2, <1>3 DEF ServiceInv

-----------------------------------------------------------------------------
(* The Telegram loop *)

LEMMA OwnerSendsKeeps == ServiceInv /\ OwnerSends => ServiceInv'
<1> SUFFICES ASSUME ServiceInv, OwnerSends PROVE ServiceInv'
  OBVIOUS
<1>1. sent' \in Seq(Wire) /\ Len(sent') <= MaxUpdates
  BY ServiceAssumption DEF ServiceInv, ServiceTypeOK, OwnerSends
<1>2. ServiceTypeOK'
  BY <1>1 DEF ServiceInv, ServiceTypeOK, OwnerSends, telegramVars
<1>3. LoopsEndBeforeRuns' /\ CountersHaveRoom'
  BY DEF ServiceInv, OwnerSends, LoopsEndBeforeRuns, LoopsEnded, RunsEnded, CountersHaveRoom
<1>4. OffsetFollowsHandled'
  BY UpdatesUntouched DEF ServiceInv, OwnerSends
<1> QED
  BY <1>2, <1>3, <1>4 DEF ServiceInv

\* What is forgotten lies below the offset or was forgotten before.
LEMMA ForgottenIsHandled ==
    ASSUME ServiceInv
    PROVE  Forgotten \in 0..MaxUpdates /\ 1..Forgotten \subseteq handled
BY ServiceAssumption DEF ServiceInv, ServiceTypeOK, OffsetFollowsHandled, Forgotten

LEMMA PollKeeps == ServiceInv /\ Poll => ServiceInv'
<1> SUFFICES ASSUME ServiceInv, Poll PROVE ServiceInv'
  OBVIOUS
<1> USE ServiceAssumption
<1>1. Forgotten \in 0..MaxUpdates /\ 1..Forgotten \subseteq handled
  BY ForgottenIsHandled
<1>2. Len(sent) \in 0..MaxUpdates
  BY DEF ServiceInv, ServiceTypeOK
<1>3. confirmed' = Forgotten /\ UNCHANGED <<offset, handled, run, open, starts, sent>>
  BY DEF Poll
<1>4. batch' \in {{}, Forgotten + 1 .. Len(sent)}
  BY DEF Poll, Returned
<1>5. batch' \subseteq 1..MaxUpdates
  BY <1>1, <1>2, <1>4
<1>6. OffsetFollowsHandled'
  <2>1. \A i \in batch' : 1 .. i - 1 \subseteq handled' \cup batch'
    BY <1>1, <1>2, <1>3, <1>4
  <2> QED
    BY <1>1, <1>3, <2>1 DEF ServiceInv, OffsetFollowsHandled
<1>7. /\ phase' \in Phases /\ stop' \in BOOLEAN /\ failure' \in BOOLEAN
      /\ at' \in [Loops -> LoopPlaces] /\ failures' \in [Loops -> 0..MaxFailures]
      /\ LoopsEndBeforeRuns' /\ CountersHaveRoom'
  <2>1. CASE CountFailure("telegram")
    BY <1>3, <2>1, CountFailureKeeps DEF Poll
  <2>2. CASE /\ at' = [at EXCEPT !["telegram"] = "handling"]
             /\ UNCHANGED <<phase, stop, failure, failures>>
    BY <1>3, <2>2 DEF Poll, Serving, ServiceInv, ServiceTypeOK, LoopPlaces, LoopsEndBeforeRuns,
       CountersHaveRoom
  <2> QED
    BY <2>1, <2>2 DEF Poll
<1>8. ServiceTypeOK'
  BY <1>1, <1>3, <1>5, <1>7 DEF ServiceInv, ServiceTypeOK
<1> QED
  BY <1>6, <1>7, <1>8 DEF ServiceInv

\* Below the least update of the batch everything is handled.
LEMMA HandlerEndsKeeps ==
    ASSUME ServiceInv, NEW i \in 1..MaxUpdates, HandlerEnds(i)
    PROVE  ServiceInv'
<1> USE ServiceAssumption
<1>1. i \in batch /\ \A j \in batch : i <= j
  BY DEF HandlerEnds, Handling
<1>2. 1 .. i - 1 \subseteq handled
  BY <1>1 DEF ServiceInv, ServiceTypeOK, OffsetFollowsHandled
<1>3. /\ handled' = handled \cup {i} /\ offset' = i + 1 /\ batch' = batch \ {i}
      /\ UNCHANGED <<phase, stop, failure, at, failures, run, open, starts, sent, confirmed>>
  BY DEF HandlerEnds
<1>4. OffsetFollowsHandled'
  <2>1. 1 .. confirmed' \subseteq handled'
    BY <1>3 DEF ServiceInv, OffsetFollowsHandled
  <2>2. 1 .. offset' - 1 \subseteq handled'
    BY <1>2, <1>3
  <2>3. handled' \cup batch' = handled \cup batch
    BY <1>1, <1>3
  <2>4. \A j \in batch' : 1 .. j - 1 \subseteq handled' \cup batch'
    BY <1>3, <2>3 DEF ServiceInv, OffsetFollowsHandled
  <2> QED
    BY <2>1, <2>2, <2>4 DEF OffsetFollowsHandled
<1>5. ServiceTypeOK'
  BY <1>3 DEF ServiceInv, ServiceTypeOK
<1>6. LoopsEndBeforeRuns' /\ CountersHaveRoom'
  BY <1>3 DEF ServiceInv, LoopsEndBeforeRuns, LoopsEnded, RunsEnded, CountersHaveRoom
<1> QED
  BY <1>4, <1>5, <1>6 DEF ServiceInv

LEMMA BatchEndsKeeps == ServiceInv /\ BatchEnds => ServiceInv'
<1> SUFFICES ASSUME ServiceInv, BatchEnds PROVE ServiceInv'
  OBVIOUS
<1>1. failures' \in [Loops -> 0..MaxFailures] /\ at' \in [Loops -> LoopPlaces]
  <2>1. at' \in {[at EXCEPT !["telegram"] = "asleep"], [at EXCEPT !["telegram"] = "ended"]}
    BY DEF BatchEnds
  <2>2. failures' \in {failures, [failures EXCEPT !["telegram"] = 0]}
    BY DEF BatchEnds
  <2>3. /\ at \in [Loops -> LoopPlaces] /\ failures \in [Loops -> 0..MaxFailures]
        /\ 0 \in 0..MaxFailures
    BY ServiceAssumption DEF ServiceInv, ServiceTypeOK
  <2>4. at' \in [Loops -> LoopPlaces]
    BY <2>1, <2>3 DEF LoopPlaces
  <2>5. failures' \in [Loops -> 0..MaxFailures]
    BY <2>2, <2>3
  <2> QED
    BY <2>4, <2>5
<1>2. ServiceTypeOK'
  <2>1. batch' = {} /\ UNCHANGED <<phase, stop, failure, run, open, starts, sent, offset,
                                  confirmed, handled>>
    BY DEF BatchEnds
  <2>2. batch' \subseteq 1..MaxUpdates
    BY <2>1
  <2> QED
    BY <1>1, <2>1, <2>2 DEF ServiceInv, ServiceTypeOK
<1>3. \A l \in Loops : failures'[l] < MaxFailures
  <2>1. failures' \in {failures, [failures EXCEPT !["telegram"] = 0]}
    BY DEF BatchEnds
  <2>2. failures \in [Loops -> 0..MaxFailures] /\ 0 < MaxFailures
    BY ServiceAssumption DEF ServiceInv, ServiceTypeOK
  <2>3. \A l \in Loops : failures[l] < MaxFailures
    BY DEF ServiceInv, BatchEnds, Serving, CountersHaveRoom
  <2> QED
    BY <2>1, <2>2, <2>3
<1>4. LoopsEndBeforeRuns' /\ CountersHaveRoom'
  BY <1>3 DEF BatchEnds, Serving, LoopsEndBeforeRuns, CountersHaveRoom
<1>5. OffsetFollowsHandled'
  BY DEF ServiceInv, BatchEnds, OffsetFollowsHandled
<1> QED
  BY <1>2, <1>4, <1>5 DEF ServiceInv

-----------------------------------------------------------------------------
(* The runs *)

LEMMA RunStepKeeps ==
    ASSUME ServiceInv, NEW m \in RunTasks, RunEnds(m) \/ RunCancelled(m) \/ CleanupEnds(m)
    PROVE  ServiceInv'
<1>1. ServiceTypeOK'
  BY DEF ServiceInv, ServiceTypeOK, RunEnds, RunCancelled, CleanupEnds, telegramVars
<1>2. LoopsEndBeforeRuns'
  BY DEF ServiceInv, ServiceTypeOK, RunEnds, RunCancelled, CleanupEnds, LoopsEndBeforeRuns,
     LoopsEnded, RunsEnded
<1>3. CountersHaveRoom'
  BY DEF ServiceInv, RunEnds, RunCancelled, CleanupEnds, CountersHaveRoom
<1>4. OffsetFollowsHandled'
  BY UpdatesUntouched DEF ServiceInv, RunEnds, RunCancelled, CleanupEnds
<1> QED
  BY <1>1, <1>2, <1>3, <1>4 DEF ServiceInv

-----------------------------------------------------------------------------
(* The end of run() *)

\* A phase is entered only when whom it waits for has ended.
LEMMA PhaseMoves ==
    ASSUME ServiceInv, phase' \in Phases \ {"serving"}, stop' \in BOOLEAN,
           phase' \in {"grace", "cancelling", "closing", "exited"} => LoopsEnded,
           phase' \in {"closing", "exited"} => RunsEnded,
           UNCHANGED <<failure, at, failures, run, open, starts, sent, telegramVars>>
    PROVE  ServiceInv'
<1>1. ServiceTypeOK'
  BY DEF ServiceInv, ServiceTypeOK, telegramVars
<1>2. LoopsEndBeforeRuns' /\ CountersHaveRoom'
  BY DEF ServiceInv, LoopsEndBeforeRuns, LoopsEnded, RunsEnded, CountersHaveRoom
<1>3. OffsetFollowsHandled'
  BY UpdatesUntouched DEF ServiceInv
<1> QED
  BY <1>1, <1>2, <1>3 DEF ServiceInv

LEMMA EndKeeps ==
    ServiceInv /\ (BodySeesStop \/ BeginGrace \/ GraceOver \/ Interrupt \/ LeaveGroup \/ Exit)
        => ServiceInv'
<1> SUFFICES ASSUME ServiceInv,
                    BodySeesStop \/ BeginGrace \/ GraceOver \/ Interrupt \/ LeaveGroup \/ Exit
             PROVE  ServiceInv'
  OBVIOUS
<1>1. stop \in BOOLEAN /\ LoopsEndBeforeRuns
  BY DEF ServiceInv, ServiceTypeOK
<1> QED
  BY <1>1, PhaseMoves DEF BodySeesStop, BeginGrace, GraceOver, Interrupt, LeaveGroup, Exit, Goto,
     Phases, LoopsEndBeforeRuns

LEMMA LoopCancelledKeeps ==
    ASSUME ServiceInv, NEW l \in Loops, LoopCancelled(l)
    PROVE  ServiceInv'
<1>1. ServiceTypeOK'
  BY DEF ServiceInv, ServiceTypeOK, LoopCancelled, LoopPlaces
<1>2. LoopsEndBeforeRuns' /\ CountersHaveRoom'
  BY DEF ServiceInv, LoopCancelled, LoopsEndBeforeRuns, CountersHaveRoom
<1>3. OffsetFollowsHandled'
  BY DEF ServiceInv, LoopCancelled, OffsetFollowsHandled
<1> QED
  BY <1>1, <1>2, <1>3 DEF ServiceInv

LEMMA CloseNextKeeps == ServiceInv /\ CloseNext => ServiceInv'
<1> SUFFICES ASSUME ServiceInv, CloseNext PROVE ServiceInv'
  OBVIOUS
<1>1. open' \in Seq({Resources[i] : i \in DOMAIN Resources})
  BY HeadTailProperties DEF ServiceInv, ServiceTypeOK, CloseNext
<1>2. ServiceTypeOK'
  BY <1>1 DEF ServiceInv, ServiceTypeOK, CloseNext, telegramVars
<1>3. LoopsEndBeforeRuns' /\ CountersHaveRoom'
  BY DEF ServiceInv, CloseNext, LoopsEndBeforeRuns, LoopsEnded, RunsEnded, CountersHaveRoom
<1>4. OffsetFollowsHandled'
  BY UpdatesUntouched DEF ServiceInv, CloseNext
<1> QED
  BY <1>2, <1>3, <1>4 DEF ServiceInv

-----------------------------------------------------------------------------
(* The theorems *)

LEMMA NextServiceInv == ServiceInv /\ [Next]_vars => ServiceInv'
<1> SUFFICES ASSUME ServiceInv, [Next]_vars PROVE ServiceInv'
  OBVIOUS
<1>1. CASE \E l \in Loops : Wake(l) \/ Succeeds(l) \/ LoopCancelled(l) \/ Fails(l)
  BY <1>1, WakeKeeps, SucceedsKeeps, LoopCancelledKeeps, FailsKeeps
<1>2. CASE SchedulerTick \/ Poll \/ BatchEnds \/ OwnerSends
  BY <1>2, SchedulerTickKeeps, PollKeeps, BatchEndsKeeps, OwnerSendsKeeps
<1>3. CASE \E i \in 1..MaxUpdates : HandlerEnds(i)
  BY <1>3, HandlerEndsKeeps
<1>4. CASE \E m \in RunTasks : RunCancelled(m) \/ CleanupEnds(m) \/ RunEnds(m)
  BY <1>4, RunStepKeeps
<1>5. CASE BodySeesStop \/ BeginGrace \/ GraceOver \/ Interrupt \/ LeaveGroup \/ Exit
  BY <1>5, EndKeeps
<1>6. CASE CloseNext \/ Crash \/ RequestStop
  BY <1>6, CloseNextKeeps, CrashKeeps, RequestStopKeeps
<1>7. CASE \E preflight \in BOOLEAN : Start(preflight)
  BY <1>7, StartKeeps
<1>8. CASE UNCHANGED vars
  BY <1>8, StutterKeeps
<1> QED
  BY <1>1, <1>2, <1>3, <1>4, <1>5, <1>6, <1>7, <1>8 DEF Next, Progress, Environment

LEMMA ServiceInvariant == Spec => []ServiceInv
BY InitServiceInv, NextServiceInv, PTL DEF Spec

\* Every loop, counter, batch and offset keeps its type: above all no counter passes
\* _MAX_COMPONENT_FAILURES, whichever loops fail together.
THEOREM ServiceTypes == Spec => []ServiceTypeOK
<1>1. ServiceInv => ServiceTypeOK
  BY DEF ServiceInv
<1> QED
  BY <1>1, ServiceInvariant, PTL

\* No resource is closed while a loop or a run, shielded cleanup included, may still
\* use it, whichever way run() ends: a stop, a cancellation, a failing component, a
\* refused preflight.
THEOREM ResourcesOutlive == Spec => []ResourcesOutliveTheirUsers
<1>1. ServiceInv => ResourcesOutliveTheirUsers
  BY DEF ServiceInv, LoopsEndBeforeRuns, ResourcesOutliveTheirUsers
<1> QED
  BY <1>1, ServiceInvariant, PTL

\* No poll, of this process or of a later one, confirms an update whose handler has
\* not returned or raised.
THEOREM NothingForgottenUnhandled == Spec => []ForgottenOnlyIfHandled
<1>1. ServiceInv => ForgottenOnlyIfHandled
  BY DEF ServiceInv, OffsetFollowsHandled, ForgottenOnlyIfHandled
<1> QED
  BY <1>1, ServiceInvariant, PTL

-----------------------------------------------------------------------------
(***************************************************************************)
(* Redelivery.  Within the first process the offset lies above everything  *)
(* that was handled and never above what is still in the batch, so the     *)
(* refusal of an "invalid Telegram update sequence" is not reached either. *)
(***************************************************************************)
FirstProcess ==
    /\ starts = 0 => phase = "exited" /\ handled = {}
    /\ starts <= 1 => \A i \in handled : i < offset
    /\ \A i \in batch : offset <= i

LEMMA InitFirstProcess == Init => FirstProcess
BY DEF Init, FirstProcess

LEMMA NextFirstProcess == ServiceInv /\ FirstProcess /\ [Next]_vars => FirstProcess'
<1> SUFFICES ASSUME ServiceInv, FirstProcess, [Next]_vars PROVE FirstProcess'
  OBVIOUS
<1> USE ServiceAssumption
<1>0. /\ starts \in Nat /\ offset \in Nat /\ confirmed \in Nat
      /\ batch \subseteq Nat /\ handled \subseteq Nat
  BY DEF ServiceInv, ServiceTypeOK
<1>1. CASE \E preflight \in BOOLEAN : Start(preflight)
  <2>1. starts' = starts + 1 /\ batch' = {} /\ offset' = 0 /\ handled' = handled
    BY <1>1 DEF Start
  <2> QED
    BY <1>0, <2>1 DEF FirstProcess
<1>2. CASE Crash
  BY <1>0, <1>2 DEF Crash, FirstProcess
<1>3. CASE Poll
  <2>1. batch' \in {{}, Forgotten + 1 .. Len(sent)}
    BY <1>3 DEF Poll, Returned
  <2>2. Forgotten \in Nat /\ offset <= Forgotten + 1
    BY <1>0 DEF Forgotten
  <2>3. \A i \in batch' : offset <= i
    BY <1>0, <2>1, <2>2 DEF ServiceInv, ServiceTypeOK
  <2>4. phase = "serving" /\ UNCHANGED <<starts, offset, handled>>
    BY <1>3 DEF Poll, Serving
  <2> QED
    BY <2>3, <2>4 DEF FirstProcess
\* The least update of the batch is handled, so the rest lies at or above the new offset.
<1>4. CASE \E i \in 1..MaxUpdates : HandlerEnds(i)
  <2>1. PICK i \in 1..MaxUpdates : HandlerEnds(i)
    BY <1>4
  <2>2. /\ phase = "serving" /\ i \in batch /\ \A j \in batch : i <= j
        /\ handled' = handled \cup {i} /\ offset' = i + 1 /\ batch' = batch \ {i}
        /\ UNCHANGED starts
    BY <2>1 DEF HandlerEnds, Handling, Serving
  <2>3. \A j \in batch' : offset' <= j
    BY <1>0, <2>2
  <2>4. starts' <= 1 => \A j \in handled' : j < offset'
    BY <1>0, <2>2 DEF FirstProcess
  <2> QED
    BY <2>2, <2>3, <2>4 DEF FirstProcess
<1>5. CASE BatchEnds \/ \E l \in Loops : LoopCancelled(l)
  BY <1>5 DEF BatchEnds, Serving, LoopCancelled, FirstProcess
<1>6. CASE \E l \in Loops : Fails(l)
  <2>1. Serving /\ UNCHANGED <<starts, telegramVars>>
    BY <1>6 DEF Fails
  <2> QED
    BY <2>1 DEF Serving, FirstProcess, telegramVars
<1>7. CASE \/ \E l \in Loops : Wake(l) \/ Succeeds(l)
           \/ \E m \in RunTasks : RunCancelled(m) \/ CleanupEnds(m) \/ RunEnds(m)
           \/ SchedulerTick \/ OwnerSends \/ RequestStop \/ CloseNext
           \/ UNCHANGED vars
  <2>1. UNCHANGED <<phase, starts, telegramVars>>
    BY <1>7 DEF Wake, Succeeds, RunCancelled, CleanupEnds, RunEnds, SchedulerTick, OwnerSends,
       RequestStop, CloseNext, vars, telegramVars
  <2> QED
    BY <2>1 DEF FirstProcess, telegramVars
<1>8. CASE BodySeesStop \/ BeginGrace \/ GraceOver \/ Interrupt \/ LeaveGroup \/ Exit
  <2>1. phase # "exited" /\ UNCHANGED <<starts, telegramVars>>
    BY <1>8 DEF BodySeesStop, BeginGrace, GraceOver, Interrupt, LeaveGroup, Exit, Goto, Serving
  <2> QED
    BY <2>1 DEF FirstProcess, telegramVars
<1> QED
  BY <1>1, <1>2, <1>3, <1>4, <1>5, <1>6, <1>7, <1>8 DEF Next, Progress, Environment

\* Whatever polls and handlers fail, a process that was never restarted does not handle
\* an update twice.
THEOREM HandledOnce == Spec => []RepeatedOnlyAfterRestart
<1>1. FirstProcess /\ ServiceInv => RepeatedOnlyAfterRestart
  BY DEF FirstProcess, ServiceInv, ServiceTypeOK, RepeatedOnlyAfterRestart
<1>2. Spec => []FirstProcess
  BY InitFirstProcess, NextFirstProcess, ServiceInvariant, PTL DEF Spec
<1> QED
  BY <1>1, <1>2, ServiceInvariant, PTL

=============================================================================
