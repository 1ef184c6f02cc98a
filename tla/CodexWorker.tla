----------------------------- MODULE CodexWorker -----------------------------
(***************************************************************************)
(* ai/worker.py, ai/codex_cli.py and ai/auth.py: the worker process that   *)
(* runs Codex for the service, one run at a time.  A connection is a call; *)
(* a second call is refused, not queued.  Four timeouts are nested: the    *)
(* Codex process, the run with what precedes and follows it, the handler,  *)
(* and the client, all but the first counted from the call.                *)
(***************************************************************************)
EXTENDS Integers, FiniteSets

CONSTANTS
    Calls,     \* connections that may exist at once
    NoCall,
    Auth,      \* "codex login status" (10 s)
    Cli,       \* the Codex process (120 s)
    Run,       \* CodexCli.run (125 s)
    Handler,   \* the handler (128 s)
    Client,    \* the client (130 s)
    Stop,      \* one step of stopping a process (1 s)
    Removal    \* removing the workspace (5 s)

ASSUME WorkerAssumption ==
    /\ NoCall \notin Calls
    /\ {Auth, Cli, Run, Handler, Client, Stop, Removal} \subseteq Nat \ {0}
    /\ Auth + 2 * Stop < Run /\ Run + 3 * Stop <= Handler /\ Handler < Client

VARIABLES
    slot,      \* CodexWorkerServer._active: the call that holds it
    conn,      \* connections and their handlers
    processes  \* calls whose Codex process is alive

workerVars == <<slot, conn, processes>>

Stopping == {"stdin", "term", "kill"}
Timed == {"status", "auth", "authstop", "codex", "remove"} \cup Stopping
Places == {"free", "answer"} \cup Timed
Outcomes == {"none", "result", "failure", "busy"}

\* left: what remains of the step's own time; hits: cancellations met in the shielded
\* step; cancels: those delivered at all; cut: the client was cancelled.
Connections ==
    [at : Places, age : 0..(Handler + Removal), left : 0..(Cli + Auth + 2 * Stop + Removal),
     hits : 0..1, cancels : 0..2, cut : BOOLEAN, outcome : Outcomes]

Free == [at |-> "free", age |-> 0, left |-> 0, hits |-> 0, cancels |-> 0,
         cut |-> FALSE, outcome |-> "none"]

WorkerTypeOK ==
    /\ slot \in Calls \cup {NoCall} /\ processes \subseteq Calls
    /\ conn \in [Calls -> Connections]

WorkerInit == slot = NoCall /\ conn = [c \in Calls |-> Free] /\ processes = {}

-----------------------------------------------------------------------------
(* CodexWorkerServer *)

Unused(c) == conn[c].at = "free" /\ c \notin processes

Enter(c, at, left) == [conn[c] EXCEPT !.at = at, !.left = left, !.hits = 0]

\* A frame that asks for a run: the slot is looked at and taken in one piece.
Accept(c) ==
    /\ Unused(c)
    /\ IF slot = NoCall
       THEN slot' = c /\ conn' = [conn EXCEPT ![c] = Enter(c, "auth", Auth)]
       ELSE /\ conn' = [conn EXCEPT ![c].at = "answer", ![c].outcome = "busy"]
            /\ UNCHANGED slot
    /\ UNCHANGED processes

\* A frame that asks for the login: outside the slot, with a timeout of its own.
AcceptStatus(c) ==
    /\ Unused(c)
    /\ conn' = [conn EXCEPT ![c] = Enter(c, "status", Auth + 2 * Stop)]
    /\ UNCHANGED <<slot, processes>>

StatusAnswered(c, outcome) ==
    /\ conn[c].at = "status"
    /\ outcome = "result" => conn[c].left > 0
    /\ conn' = [conn EXCEPT ![c].at = "answer", ![c].outcome = outcome]
    /\ UNCHANGED <<slot, processes>>

\* Mutant: the slot is released by a run that returned only.
ReleaseOnSuccess(c, outcome) ==
    /\ slot' = IF outcome = "result" THEN NoCall ELSE slot
    /\ conn' = [conn EXCEPT ![c].at = "answer",
                            ![c].outcome = IF @ = "failure" THEN @ ELSE outcome]

\* finally: release; then the answer is written.
Leave(c, outcome) ==
    /\ slot' = NoCall
    /\ conn' = [conn EXCEPT ![c].at = "answer", ![c].outcome = outcome]

\* close: the handlers are cancelled; the container takes the processes with it.
WorkerStops ==
    /\ slot # NoCall
    /\ slot' = NoCall /\ processes' = {}
    /\ conn' = [c \in Calls |->
          IF conn[c].at = "free" THEN Free
          ELSE [Free EXCEPT !.at = "answer", !.outcome = "failure"]]

-----------------------------------------------------------------------------
(* CodexCli.run *)

\* CodexAuthGuard.check; the workspace is there and the process started.
AuthPasses(c) ==
    /\ conn[c].at = "auth" /\ conn[c].left > 0
    /\ conn' = [conn EXCEPT ![c] = Enter(c, "codex", Cli)]
    /\ processes' = processes \cup {c}
    /\ UNCHANGED slot

AuthFails(c) ==
    \/ /\ conn[c].at \in {"auth", "authstop"} /\ Leave(c, "failure") /\ UNCHANGED processes
    \/ /\ conn[c].at = "auth" /\ conn[c].left = 0
       /\ conn' = [conn EXCEPT ![c] = Enter(c, "authstop", 2 * Stop)]
       /\ UNCHANGED <<slot, processes>>

\* The process ends by itself, or by a signal it obeys.
ProcessExits(c) ==
    /\ c \in processes
    /\ processes' = processes \ {c}
    /\ UNCHANGED <<slot, conn>>

BeginRemoval(c, outcome) ==
    conn' = [conn EXCEPT ![c] = [Enter(c, "remove", Removal) EXCEPT !.outcome = outcome]]

\* Exit code 0 and a result that fits the schema.
CodexReturns(c) ==
    /\ conn[c].at = "codex" /\ c \notin processes
    /\ BeginRemoval(c, "result")
    /\ UNCHANGED <<slot, processes>>

BeginStop(c, cancels) ==
    conn' = [conn EXCEPT ![c] = [Enter(c, "stdin", Stop) EXCEPT
                !.outcome = "failure", !.cancels = cancels]]

\* A bad event, exit code or result, or the timeout of the process.
CodexFails(c) ==
    /\ conn[c].at = "codex"
    /\ BeginStop(c, conn[c].cancels)
    /\ UNCHANGED <<slot, processes>>

\* _cleanup_process: close stdin, SIGTERM to the group, SIGKILL to the group.
StdinClosed(c) ==
    /\ conn[c].at = "stdin"
    /\ IF c \in processes
       THEN conn' = [conn EXCEPT ![c].at = "term", ![c].left = Stop]
       ELSE BeginRemoval(c, "failure")
    /\ UNCHANGED <<slot, processes>>

Terminated(c) ==
    /\ conn[c].at \in {"term", "kill"} /\ c \notin processes
    /\ BeginRemoval(c, "failure")
    /\ UNCHANGED <<slot, processes>>

\* SIGKILL to the process group.  _stop_process looks at the group's leader alone: what
\* a leader that has ended left running is not in the model.
Kill(c) ==
    /\ conn[c].at = "term" /\ conn[c].left = 0 /\ c \in processes
    /\ processes' = processes \ {c}
    /\ conn' = [conn EXCEPT ![c].at = "kill", ![c].left = Stop]
    /\ UNCHANGED slot

\* _remove_workspace; its own timeout makes a result a failure.
Removed(c) ==
    /\ conn[c].at = "remove"
    /\ Leave(c, IF conn[c].left = 0 \/ conn[c].cancels > 0 THEN "failure" ELSE conn[c].outcome)
    /\ UNCHANGED processes

\* The next cancellation: wait_for(run), then the handler's timeout.
Due(c) ==
    /\ conn[c].at \in {"codex", "remove"} \cup Stopping
    /\ \/ conn[c].age >= Run /\ conn[c].cancels = 0
       \/ conn[c].age >= Handler /\ conn[c].cancels = 1

\* Mutant: the cleanup is neither shielded nor waited for.
CancelUnshielded(c) ==
    /\ Due(c)
    /\ slot' = NoCall
    /\ conn' = [conn EXCEPT ![c].at = "answer", ![c].outcome = "failure"]
    /\ UNCHANGED processes

\* A cleanup goes on under its shield, and is left at the second cancellation only.
Cancel(c) ==
    /\ Due(c)
    /\ \/ conn[c].at = "codex" /\ BeginStop(c, conn[c].cancels + 1) /\ UNCHANGED slot
       \/ /\ conn[c].at # "codex" /\ conn[c].hits = 0
          /\ conn' = [conn EXCEPT ![c].cancels = @ + 1, ![c].hits = 1]
          /\ UNCHANGED slot
       \/ /\ conn[c].at \in Stopping /\ conn[c].hits = 1
          /\ conn' = [conn EXCEPT ![c] = [Enter(c, "remove", Removal) EXCEPT
                         !.outcome = "failure", !.cancels = @ + 1]]
          /\ UNCHANGED slot
       \/ conn[c].at = "remove" /\ conn[c].hits = 1 /\ Leave(c, "failure")
    /\ UNCHANGED processes

-----------------------------------------------------------------------------
(* Time *)

\* Timers that have run out fire, and answers are written, before the clock goes on.
Waits(c) ==
    /\ conn[c].at # "answer" /\ ~Due(c)
    /\ conn[c].at \in Timed => conn[c].left > 0

Aged(c) ==
    IF conn[c].at \in Timed THEN [conn[c] EXCEPT !.age = @ + 1, !.left = @ - 1] ELSE conn[c]

Tick ==
    /\ \A c \in Calls : Waits(c)
    /\ \E c \in Calls : conn[c].at \in Timed
    /\ conn' = [c \in Calls |-> Aged(c)]
    /\ UNCHANGED <<slot, processes>>

Serve(c) ==
    \/ AuthPasses(c) \/ AuthFails(c) \/ ProcessExits(c) \/ CodexReturns(c) \/ CodexFails(c)
    \/ StdinClosed(c) \/ Terminated(c) \/ Kill(c) \/ Removed(c) \/ Cancel(c)
    \/ \E outcome \in {"result", "failure"} : StatusAnswered(c, outcome)

=============================================================================
