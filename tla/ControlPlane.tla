----------------------------- MODULE ControlPlane -----------------------------
(***************************************************************************)
(* The owner's side: the polling loop of service.py, telegram/gateway.py,  *)
(* control/service.py and the one-time tokens of control/actions.py, over  *)
(* the registry of MonitorRegistry, while runs and recovery change the     *)
(* same monitors.                                                          *)
(*                                                                         *)
(* Updates are handled one after the other.  Between two awaits of a       *)
(* handler other processes may still write, and the process may die, so    *)
(* every transaction is a step.  Telegram keeps an update until a poll     *)
(* with a greater offset; the offset lives in memory.  What a message      *)
(* means is decided by a language model: any message may be routed to any  *)
(* request.                                                                *)
(***************************************************************************)
EXTENDS MonitorRegistry, FiniteSets

CONSTANTS
    Tokens,      \* rows of pending_actions; a bound on how many are issued
    NoToken,
    NoMonitor,
    TokenTicks,  \* ten minutes, in ticks
    MaxQueue     \* bound: updates waiting at Telegram

ASSUME ControlAssumption ==
    /\ NoToken \notin Tokens
    /\ NoMonitor \notin Monitors
    /\ TokenTicks \in Nat \ {0}
    /\ MaxQueue \in Nat

VARIABLES
    pending,  \* pending_actions, by token
    shown,    \* tokens whose buttons the owner has in the chat
    queue,    \* updates Telegram has not been told to forget, oldest first
    batch,    \* how many of them the last poll returned
    done,     \* how many of those are handled: the in-memory offset
    call      \* the handler under way

chatVars == <<pending, shown, queue, batch, done, call>>
controlVars == <<registryVars, chatVars>>

\* "schedule_change" is an update under another name.
Actions == {"create", "select_url", "pause", "resume", "delete", "update",
            "repair_activation"}

\* What a token stands for: an action and, about an existing monitor, the status
\* and version its preview showed.
Payload ==
    [action : Actions \cup {"none"}, monitor : Monitors \cup {NoMonitor},
     expected : Statuses \cup {"none"}, version : 0..MaxVersion,
     candidate : 0..MaxVersion]

NoPayload == [action |-> "none", monitor |-> NoMonitor, expected |-> "none",
              version |-> 0, candidate |-> 0]

\* "gone" stands for consumed and for revoked rows: neither is read again.
TokenRow == [state : {"none", "open", "gone"}, left : 0..TokenTicks, payload : Payload]

NoRow == [state |-> "none", left |-> 0, payload |-> NoPayload]
GoneRow == [NoRow EXCEPT !.state = "gone"]
OpenRow(p) == [state |-> "open", left |-> TokenTicks, payload |-> p]

\* "dismiss" is a tap on cancel or edit: both consume the token and change nothing.
Operations == {"confirm", "dismiss"}
Ask == <<"ask", NoToken>>
Updates == {Ask} \cup (Operations \X Tokens)

\* A handler is planning an update, proposing a monitor, holding the receipt of a
\* consumed token, or sending a reply with the buttons of some tokens.
CallRow == [stage : {"idle", "planning", "proposing", "receipt", "replying"},
            token : Tokens \cup {NoToken}, payload : Payload, offers : SUBSET Tokens]

NoCall == [stage |-> "idle", token |-> NoToken, payload |-> NoPayload, offers |-> {}]

ControlTypeOK ==
    /\ RegistryTypeOK
    /\ pending \in [Tokens -> TokenRow]
    /\ shown \subseteq Tokens
    /\ queue \in Seq(Updates)
    /\ 0 <= done /\ done <= batch /\ batch <= Len(queue)
    /\ call \in CallRow

ControlInit ==
    /\ RegistryInit
    /\ pending = [t \in Tokens |-> NoRow]
    /\ shown = {}
    /\ queue = <<>>
    /\ batch = 0
    /\ done = 0
    /\ call = NoCall

-----------------------------------------------------------------------------
(* Updates: the owner, Telegram and the polling loop *)

Send(u) ==
    /\ Len(queue) < MaxQueue
    /\ u # Ask => u[2] \in shown
    /\ queue' = Append(queue, u)
    /\ UNCHANGED <<registryVars, pending, shown, batch, done, call>>

\* get_updates(offset): Telegram forgets what is handled and returns the rest.
Poll ==
    /\ call.stage = "idle" /\ done = batch
    /\ queue # <<>>
    /\ queue' = SubSeq(queue, batch + 1, Len(queue))
    /\ batch' = Len(queue) - batch
    /\ done' = 0
    /\ UNCHANGED <<registryVars, pending, shown, call>>

\* get_updates raises: Telegram has forgotten what is handled, or was not reached (no
\* step at all), and the answer, or an update in it, is not what the parser accepts.
\* The offset stays; ServiceLoops counts the failures.
PollFails ==
    /\ call.stage = "idle" /\ done = batch
    /\ queue' = SubSeq(queue, batch + 1, Len(queue))
    /\ batch' = 0
    /\ done' = 0
    /\ UNCHANGED <<registryVars, pending, shown, call>>

Serving(u) == call.stage = "idle" /\ done < batch /\ queue[done + 1] = u

\* Mutant: the offset moves only past updates that are handled without an exception.
FinishedWithoutOffset == call' = NoCall /\ UNCHANGED done

\* handle_update returned or raised: the offset moves on either way.
Finished == call' = NoCall /\ done' = done + 1

\* The handler ends without a lasting effect: nothing to change, a refusal, an
\* exception at an await.
HandlerEnds ==
    /\ call.stage \in {"planning", "proposing", "receipt"} \/ Serving(Ask)
    /\ Finished
    /\ UNCHANGED <<registryVars, pending, shown, queue, batch>>

\* sendMessage may raise although the message has arrived.
SendReply ==
    /\ call.stage = "replying"
    /\ shown' \in {shown, shown \cup call.offers}
    /\ Finished
    /\ UNCHANGED <<registryVars, pending, queue, batch>>

\* The process dies; the next one polls from offset zero.
ControlCrash ==
    /\ batch > 0
    /\ call' = NoCall
    /\ batch' = 0
    /\ done' = 0
    /\ UNCHANGED <<registryVars, pending, shown, queue>>

-----------------------------------------------------------------------------
(* Previews *)

Unissued == {t \in Tokens : pending[t].state = "none"}

\* PendingActionService.create, for each token of S.
Issue(S, p) ==
    /\ S # {} /\ S \subseteq Unissued
    /\ pending' = [t \in Tokens |-> IF t \in S THEN OpenRow(p) ELSE pending[t]]

\* create, and revoke of the same tokens.
IssueAndRevoke(S) ==
    /\ S # {} /\ S \subseteq Unissued
    /\ pending' = [t \in Tokens |-> IF t \in S THEN GoneRow ELSE pending[t]]

Reply(S) ==
    /\ call' = [NoCall EXCEPT !.stage = "replying", !.offers = S]
    /\ UNCHANGED <<shown, queue, batch, done>>

About(action, m, candidate) ==
    [action |-> action, monitor |-> m, expected |-> status[m],
     version |-> active[m], candidate |-> candidate]

Plain(action) == [NoPayload EXCEPT !.action = action]

\* _state_preview: reads the monitor and issues the token in one transaction.
PreviewState(m, t, action) ==
    /\ Serving(Ask)
    /\ CASE action = "pause" -> status[m] = "active"
         [] action = "resume" -> status[m] = "paused_user"
         [] action = "delete" -> status[m] \notin {"absent", "disabled"}
    /\ Issue({t}, About(action, m, 0))
    /\ Reply({t})
    /\ UNCHANGED registryVars

\* Unapproved repairs on top of the active version.
Repairs(m) ==
    {c \in DOMAIN versions[m] :
        /\ versions[m][c].author = "scrapling-adaptive"
        /\ ~versions[m][c].approved
        /\ versions[m][c].parent = active[m]}

\* _status_reply of a monitor under review, with find_repair_candidate.
PreviewRepair(m, t) ==
    /\ Serving(Ask)
    /\ status[m] = "needs_review"
    /\ \E c \in Repairs(m) :
        /\ \A d \in Repairs(m) : d <= c
        /\ Issue({t}, About("repair_activation", m, c))
    /\ Reply({t})
    /\ UNCHANGED registryVars

\* _update_preview reads the monitor, then awaits the planner for minutes.
BeginUpdate(m) ==
    /\ Serving(Ask)
    /\ status[m] \notin {"absent", "disabled"}
    /\ call' = [NoCall EXCEPT !.stage = "planning", !.payload = About("update", m, 0)]
    /\ UNCHANGED <<registryVars, pending, shown, queue, batch, done>>

\* stage_candidate_action: the version row and the token in one transaction.
StageUpdate(t) ==
    LET p == call.payload IN
    /\ call.stage = "planning"
    /\ StageCandidate(p.monitor, p.expected, p.version)
    /\ Issue({t}, [p EXCEPT !.candidate = Len(versions[p.monitor]) + 1])
    /\ Reply({t})

\* A request to watch something new, whose URL the owner gave or discovery found.
BeginProposal ==
    /\ Serving(Ask)
    /\ call' = [NoCall EXCEPT !.stage = "proposing"]
    /\ UNCHANGED <<registryVars, pending, shown, queue, batch, done>>

\* _create_preview after the planner's await; a preview that cannot be rendered
\* or a token that is not the proposal's is revoked.
Propose(t) ==
    /\ call.stage = "proposing"
    /\ \/ Issue({t}, Plain("create")) /\ Reply({t})
       \/ IssueAndRevoke({t}) /\ Reply({})
    /\ UNCHANGED registryVars

\* _url_selection_reply: a token for each candidate, or all of them revoked.
OfferChoices(S) ==
    /\ Serving(Ask)
    /\ \/ Cardinality(S) >= 2 /\ Issue(S, Plain("select_url")) /\ Reply(S)
       \/ IssueAndRevoke(S) /\ Reply({})
    /\ UNCHANGED registryVars

-----------------------------------------------------------------------------
(* Confirmations *)

\* Mutant: the token outlives its ten minutes.
UsableLate(t) == pending[t].state = "open"

Usable(t) == pending[t].state = "open" /\ pending[t].left > 0

\* Mutant: the row is read, not consumed.
SpendNothing(t) == UNCHANGED pending

Spend(t) == pending' = [pending EXCEPT ![t] = GoneRow]

\* handle_update up to the router: consume marks the row whatever the operation
\* is.  Anything but a confirmation ends in a reply or a note.
Consume(operation, t) ==
    /\ Serving(<<operation, t>>)
    /\ Usable(t)
    /\ Spend(t)
    /\ IF operation = "confirm"
       THEN /\ call' = [NoCall EXCEPT !.stage = "receipt", !.token = t,
                                      !.payload = pending[t].payload]
            /\ UNCHANGED <<shown, queue, batch, done>>
       ELSE Reply({})
    /\ UNCHANGED registryVars

\* ActionDenied: the owner hears nothing.
Deny(operation, t) ==
    /\ Serving(<<operation, t>>)
    /\ ~Usable(t)
    /\ Finished
    /\ UNCHANGED <<registryVars, pending, shown, queue, batch>>

\* The registry operation the receipt asks for, with what its preview captured.
Perform(p) ==
    \/ p.action = "create" /\ \E m \in Monitors : CreateMonitor(m)
    \/ /\ p.action = "pause"
       /\ TransitionStatusExact(p.monitor, p.expected, p.version, "paused_user")
    \/ /\ p.action = "resume"
       /\ TransitionStatusExact(p.monitor, p.expected, p.version, "active")
    \/ p.action = "delete" /\ SoftDeleteExact(p.monitor, p.expected, p.version)
    \/ /\ p.action = "update"
       /\ ActivateCandidateExact(p.monitor, p.candidate, "codex-control",
                                 p.expected, p.version, p.expected)
    \/ /\ p.action = "repair_activation"
       /\ ActivateCandidateExact(p.monitor, p.candidate, "scrapling-adaptive",
                                 "needs_review", p.version, "active")

Confirm ==
    /\ call.stage = "receipt"
    /\ Perform(call.payload)
    /\ Reply({})
    /\ UNCHANGED pending

\* _confirm_url_selection goes on to a proposal.
ConfirmChoice ==
    /\ call.stage = "receipt"
    /\ call.payload.action = "select_url"
    /\ call' = [NoCall EXCEPT !.stage = "proposing"]
    /\ UNCHANGED <<registryVars, pending, shown, queue, batch, done>>

-----------------------------------------------------------------------------
(* Everyone else *)

\* Runs, of this process or another one, and adaptive recovery.
Others ==
    /\ LeaseNext \/ \E m \in Monitors : StoreCandidate(m, active[m])
    /\ UNCHANGED chatVars

ControlTick ==
    /\ nextIn' = TickDown(nextIn)
    /\ leaseLeft' = TickDown(leaseLeft)
    /\ pending' = [t \in Tokens |->
          [pending[t] EXCEPT !.left = IF @ > 0 THEN @ - 1 ELSE @]]
    /\ UNCHANGED <<status, active, versions, owner, generation, shown, queue, batch,
                   done, call>>

Preview ==
    \/ \E m \in Monitors, t \in Tokens :
        \/ \E action \in {"pause", "resume", "delete"} : PreviewState(m, t, action)
        \/ PreviewRepair(m, t)
    \/ \E m \in Monitors : BeginUpdate(m)
    \/ BeginProposal
    \/ \E t \in Tokens : StageUpdate(t) \/ Propose(t)
    \/ \E S \in SUBSET Tokens : OfferChoices(S)

Decide ==
    \/ \E operation \in Operations, t \in Tokens : Consume(operation, t) \/ Deny(operation, t)
    \/ Confirm
    \/ ConfirmChoice

Handle == Preview \/ Decide \/ HandlerEnds \/ SendReply

ControlNext ==
    \/ \E u \in Updates : Send(u)
    \/ Poll \/ PollFails
    \/ Handle
    \/ ControlCrash
    \/ Others
    \/ ControlTick

ControlSpec == ControlInit /\ [][ControlNext]_controlVars

\* Every await of a handler is bounded by a timeout.  Nothing is assumed of the owner,
\* of other processes, of time, or of the polls' success.
ControlFairness == WF_controlVars(Handle)

ControlFairSpec == ControlSpec /\ ControlFairness

-----------------------------------------------------------------------------
(* Properties *)

LiveOffer(t) == pending[t].state = "open" \/ (call.stage = "receipt" /\ call.token = t)

OfferOf(t) == IF pending[t].state = "open" THEN pending[t].payload ELSE call.payload

\* Every update button that can still be used names a candidate of its own, staged
\* for this very preview on the version it showed and approved by nobody since:
\* tokens, version rows and receipts are written by different transactions.
UpdateOffersAreTheirOwn ==
    \A t \in Tokens : LiveOffer(t) /\ OfferOf(t).action = "update" =>
        LET p == OfferOf(t) IN
        /\ p.candidate \in DOMAIN versions[p.monitor]
        /\ LET row == versions[p.monitor][p.candidate]
           IN  row.author = "codex-control" /\ ~row.approved /\ row.parent = p.version
        /\ \A u \in Tokens \ {t} :
               LiveOffer(u) /\ OfferOf(u).action = "update" =>
                   <<OfferOf(u).monitor, OfferOf(u).candidate>> # <<p.monitor, p.candidate>>

\* A row is on offer while it can be consumed, and its receipt until it is used.
Approval(t) ==
    IF call.stage = "receipt" /\ call.token = t
    THEN [state |-> "offered", payload |-> call.payload]
    ELSE IF pending[t].state = "open" /\ pending[t].left > 0
    THEN [state |-> "offered", payload |-> pending[t].payload]
    ELSE [state |-> IF pending[t].state = "none" THEN "unused" ELSE "spent",
          payload |-> NoPayload]

Approving == INSTANCE ApprovalContract WITH approvals <- [t \in Tokens |-> Approval(t)]

\* Double taps, updates delivered again after a restart, expiry, crashes between the
\* token and the monitor, and previews that are no longer true: every change the
\* owner makes is one approval, used once, in time, on what its preview showed.
ImplementsApprovals == Approving!ApprovalSpec

Waiting(u) == \E i \in done + 1 .. Len(queue) : queue[i] = u
Handled(u) == done > 0 /\ queue[done] = u

\* The service lives on, and polls go on succeeding: an update that the parser refuses
\* fails every poll it is in (ServiceLoops!UnsupportedIsPassed).
CrashesCease == <>[][~ControlCrash]_controlVars
PollsSucceed == WF_controlVars(Poll)

\* A handler that fails, or an update nobody can handle, does not stop the ones in the
\* same batch or behind it: while polls succeed, every update sent is handled.
UpdatesAreHandled ==
    CrashesCease /\ PollsSucceed => \A u \in Updates : Waiting(u) ~> Handled(u)
===============================================================================
