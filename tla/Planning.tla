------------------------------- MODULE Planning -------------------------------
(***************************************************************************)
(* control/intents.py, url_discovery.py and planner.py with the worker of  *)
(* CodexWorker: one message of the owner at a time is understood, a site   *)
(* is looked up, a monitor is planned, each with up to Attempts calls.     *)
(* Sites are fetched between the calls.  The service may stop at any time; *)
(* the worker does not notice that a client has gone.                      *)
(***************************************************************************)
EXTENDS CodexWorker

CONSTANT Attempts   \* len(_ATTEMPTS), 3 in each of the three files

ASSUME PlanningAssumption == Attempts \in Nat \ {0}

VARIABLE chat   \* what the service does with the message

vars == <<workerVars, chat>>

Asking == {"routing", "searching", "planning"}
Fetching == {"alias", "candidates", "probing"}
Stages == {"down", "ready"} \cup Asking \cup Fetching

PlanningTypeOK ==
    /\ WorkerTypeOK
    /\ chat \in [at : Stages, attempt : 0..Attempts, call : Calls \cup {NoCall}]

Idle(at) == [at |-> at, attempt |-> 0, call |-> NoCall]

Init == WorkerInit /\ chat = Idle("down")

\* A message goes to the router, a tap on one of several sites to its validation.
Message ==
    /\ chat.at = "ready"
    /\ chat' \in {Idle("routing"), Idle("probing")}
    /\ UNCHANGED workerVars

-----------------------------------------------------------------------------
(* Calls *)

Ask(c) ==
    /\ chat.at \in Asking /\ chat.call = NoCall /\ chat.attempt < Attempts
    /\ Accept(c)
    /\ chat' = [chat EXCEPT !.call = c, !.attempt = @ + 1]

\* route: a list, a pause, a question to the owner ..., a site to look up, a site.
Routed == {"ready", "alias", "probing"}

\* discover: sites to validate, or a question to the owner.
Searched == {"candidates", "ready"}

\* propose and plan_update: the candidate is bound to the owner, the site and what was
\* probed, its selectors find items in that document, and it is kept for a confirmation.
Planned == {"ready"}

Follows(stage) ==
    CASE stage = "routing" -> Routed [] stage = "searching" -> Searched
      [] stage = "planning" -> Planned

\* A result may be turned down: the next attempt is told why.  So is a failed call.
Received(c) ==
    /\ chat.call = c /\ conn[c].at = "answer"
    /\ chat' \in {[chat EXCEPT !.call = NoCall]} \cup
                 IF conn[c].outcome = "result" THEN {Idle(s) : s \in Follows(chat.at)} ELSE {}
    /\ conn' = [conn EXCEPT ![c] = Free]
    /\ UNCHANGED <<slot, processes>>

\* The client's timeout: it closes its end, and the handler works on.
GiveUp ==
    /\ chat.call # NoCall /\ conn[chat.call].age >= Client
    /\ chat' = [chat EXCEPT !.call = NoCall]
    /\ UNCHANGED workerVars

\* A question, a refusal or PlanningFailed.
Exhausted ==
    /\ chat.at \in Asking /\ chat.call = NoCall /\ chat.attempt = Attempts
    /\ chat' = Idle("ready")
    /\ UNCHANGED workerVars

\* An answer that nobody waits for, or that the heartbeat takes.
Dropped(c) ==
    /\ conn[c].at = "answer" /\ chat.call # c
    /\ conn' = [conn EXCEPT ![c] = Free]
    /\ UNCHANGED <<slot, processes, chat>>

-----------------------------------------------------------------------------
(* Sites *)

\* The stored name of a site is tried before a search.
AliasChecked == chat.at = "alias" /\ chat' \in {Idle("probing"), Idle("searching")}

\* One site that answers is planned, several are offered, none is a question.
CandidatesChecked == chat.at = "candidates" /\ chat' \in {Idle("probing"), Idle("ready")}

\* The one document that all attempts to plan rest on.
Probed == chat.at = "probing" /\ chat' \in {Idle("planning"), Idle("ready")}

Fetched == (AliasChecked \/ CandidatesChecked \/ Probed) /\ UNCHANGED workerVars

-----------------------------------------------------------------------------
(* The service *)

StartService == chat.at = "down" /\ chat' = Idle("ready") /\ UNCHANGED workerVars

\* A stop or a crash: the call is cancelled, its socket closed.
StopService ==
    /\ chat.at # "down"
    /\ chat' = Idle("down")
    /\ conn' = [c \in Calls |-> IF c = chat.call THEN [conn[c] EXCEPT !.cut = TRUE] ELSE conn[c]]
    /\ UNCHANGED <<slot, processes>>

\* HeartbeatMonitor asks for the login, whatever the chat does.
Heartbeat(c) == chat.at # "down" /\ AcceptStatus(c) /\ UNCHANGED chat

\* The client's timeout is due with the others.
ClientWaits == chat.call # NoCall => conn[chat.call].age < Client

Clock == ClientWaits /\ Tick /\ UNCHANGED chat

Next ==
    \/ Message \/ GiveUp \/ Exhausted \/ Fetched \/ StartService \/ StopService \/ Clock
    \/ WorkerStops /\ UNCHANGED chat
    \/ \E c \in Calls :
          Ask(c) \/ Received(c) \/ Dropped(c) \/ Heartbeat(c) \/ (Serve(c) /\ UNCHANGED chat)

Spec == Init /\ [][Next]_vars

-----------------------------------------------------------------------------
(* Properties *)

\* One Codex process at a time, the ones that are being stopped included.
OneCodexProcess == Cardinality(processes) <= 1

\* The client of the run that holds the slot was cancelled, or its workspace has taken
\* all the time that the timeouts leave after a process was killed.
Excused(c) ==
    \/ conn[c].cut
    \/ conn[c].at = "remove" /\ Removal - conn[c].left >= Client - Run - 3 * Stop

\* An attempt is refused as busy only then: never by the attempt before it, whose
\* timeouts are nested so that it is answered, and the slot free, before the client
\* gives up.
RefusalsAreExcused ==
    [][\A c \in Calls :
          conn[c].at = "free" /\ conn'[c].outcome = "busy" => Excused(slot)]_vars

=============================================================================
