--------------------------- MODULE Planning_proofs ---------------------------
(***************************************************************************)
(* Proofs about Planning and CodexWorker, for every set of connections and *)
(* every value of the timeouts that are nested like the code's.            *)
(***************************************************************************)
EXTENDS Planning, FiniteSetTheorems, TLAPS

(***************************************************************************)
(* The inductive invariant: what holds of a connection d in row r while s  *)
(* holds the slot and p are alive.  A process lives only where its handler *)
(* has not given it up; and since every step of a run bounds the age at    *)
(* which the next begins, the second cancellation never finds a process.   *)
(***************************************************************************)
Slotted == {"auth", "authstop", "codex", "remove"} \cup Stopping

Rows == [at : Places, age : Nat, left : Nat, hits : 0..1, cancels : 0..2,
         cut : BOOLEAN, outcome : Outcomes]

Timely(r) ==
    /\ r.at = "auth" => r.age + r.left <= Auth
    /\ r.at \in {"status", "authstop"} => r.age + r.left <= Auth + 2 * Stop
    /\ r.at = "codex" => r.age <= Run /\ r.left <= Cli
    /\ r.at = "stdin" => r.age + r.left <= Run + Stop
    /\ r.at = "term" => r.age + r.left <= Run + 2 * Stop
    /\ r.at = "kill" => r.age + r.left <= Run + 3 * Stop
    /\ r.at = "remove" => r.age + r.left <= Run + 3 * Stop + Removal /\ r.left <= Removal
    /\ r.at \in {"auth", "authstop", "codex"} => r.cancels = 0
    /\ r.at \in {"stdin", "term", "kill"} /\ r.hits = 1 => r.cancels >= 1
    /\ r.age <= Run + 3 * Stop + Removal
    /\ r.left <= Cli + Auth + 2 * Stop + Removal

Good(d, r, s, p) ==
    /\ r \in Rows
    /\ r.at \in Slotted <=> s = d
    /\ d \in p => r.at \in {"codex", "stdin", "term"}
    /\ r.at = "free" => r.age = 0 /\ r.cancels = 0 /\ r.outcome = "none"
    /\ Timely(r)

WorkerInv ==
    /\ slot \in Calls \cup {NoCall} /\ processes \subseteq Calls
    /\ conn \in [Calls -> Rows]
    /\ \A d \in Calls : Good(d, conn[d], slot, processes)

ChatTypes ==
    /\ chat \in [at : Stages, attempt : 0..Attempts, call : Calls \cup {NoCall}]
    /\ chat.at \notin Asking => chat.call = NoCall

\* A run that the chat does not wait for (any more) is one that excuses a refusal.
SlotIsAwaited == slot # NoCall /\ chat.call # slot => Excused(slot)

PlanningInv == WorkerInv /\ ChatTypes /\ SlotIsAwaited

-----------------------------------------------------------------------------
(* One connection moves *)

LEMMA OneRow ==
    ASSUME WorkerInv, NEW c \in Calls, NEW r,
           conn' = [conn EXCEPT ![c] = r],
           slot' \in Calls \cup {NoCall}, processes' \subseteq Calls,
           \A d \in Calls \ {c} : (slot' = d <=> slot = d) /\ (d \in processes' => d \in processes),
           Good(c, r, slot', processes')
    PROVE  WorkerInv'
<1>1. r \in Rows
  BY DEF Good
<1>2. conn' \in [Calls -> Rows]
  BY <1>1 DEF WorkerInv
<1>3. ASSUME NEW d \in Calls
      PROVE  Good(d, conn'[d], slot', processes')
  <2>1. CASE d = c
    BY <2>1, <1>2 DEF WorkerInv
  <2>2. CASE d # c
    <3>1. conn'[d] = conn[d]
      BY <2>2 DEF WorkerInv
    <3>2. Good(d, conn[d], slot, processes)
      BY DEF WorkerInv
    <3> QED BY <3>1, <3>2, <2>2 DEF Good
  <2> QED BY <2>1, <2>2
<1> QED BY <1>2, <1>3 DEF WorkerInv

LEMMA TimeoutTypes ==
    /\ Auth \in Nat /\ Cli \in Nat /\ Run \in Nat /\ Handler \in Nat /\ Client \in Nat
    /\ Stop \in Nat /\ Removal \in Nat /\ Stop > 0 /\ Auth > 0
    /\ NoCall \notin Calls
    /\ Auth + 2 * Stop < Run /\ Run + 3 * Stop <= Handler /\ Handler < Client
BY WorkerAssumption

LEMMA InitWorker == WorkerInit => WorkerInv
BY TimeoutTypes
DEF WorkerInit, WorkerInv, Good, Timely, Rows, Free, Slotted, Stopping, Places, Timed, Outcomes

-----------------------------------------------------------------------------
(* Rows that actions write *)

\* A stage of its own begins: nothing else of the row changes.
LEMMA EnterRow ==
    ASSUME NEW c, conn[c] \in Rows, NEW at \in Places, NEW left \in Nat
    PROVE  /\ Enter(c, at, left) \in Rows
           /\ Enter(c, at, left).at = at /\ Enter(c, at, left).left = left
           /\ Enter(c, at, left).hits = 0
           /\ Enter(c, at, left).age = conn[c].age
           /\ Enter(c, at, left).cancels = conn[c].cancels
           /\ Enter(c, at, left).cut = conn[c].cut
           /\ Enter(c, at, left).outcome = conn[c].outcome
<1>1. [conn[c] EXCEPT !.at = at, !.left = left] \in Rows
  BY DEF Rows
<1>2. \A q \in Rows : [q EXCEPT !.hits = 0] \in Rows
  BY DEF Rows
<1>3. Enter(c, at, left) \in Rows
  BY <1>1, <1>2 DEF Enter
<1> QED BY <1>3 DEF Enter, Rows

\* A stage begins with an outcome, and perhaps a cancellation.
LEMMA OutcomeRow ==
    ASSUME NEW q \in Rows, NEW outcome \in Outcomes
    PROVE  /\ [q EXCEPT !.outcome = outcome] \in Rows
           /\ [q EXCEPT !.outcome = outcome].at = q.at
           /\ [q EXCEPT !.outcome = outcome].left = q.left
           /\ [q EXCEPT !.outcome = outcome].age = q.age
           /\ [q EXCEPT !.outcome = outcome].cancels = q.cancels
           /\ [q EXCEPT !.outcome = outcome].cut = q.cut
BY DEF Rows

Stopped(q, outcome, cancels) == [q EXCEPT !.outcome = outcome, !.cancels = cancels]

LEMMA StoppedRow ==
    ASSUME NEW q \in Rows, NEW outcome \in Outcomes, NEW cancels \in 0..2
    PROVE  /\ Stopped(q, outcome, cancels) \in Rows
           /\ Stopped(q, outcome, cancels).at = q.at
           /\ Stopped(q, outcome, cancels).left = q.left
           /\ Stopped(q, outcome, cancels).age = q.age
           /\ Stopped(q, outcome, cancels).hits = q.hits
           /\ Stopped(q, outcome, cancels).cut = q.cut
BY DEF Rows, Stopped

Hit(q) == [q EXCEPT !.cancels = @ + 1, !.hits = 1]

LEMMA HitRow ==
    ASSUME NEW q \in Rows, q.cancels + 1 \in 0..2
    PROVE  /\ Hit(q) \in Rows
           /\ Hit(q).at = q.at /\ Hit(q).left = q.left /\ Hit(q).age = q.age
           /\ Hit(q).outcome = q.outcome /\ Hit(q).cut = q.cut
           /\ Hit(q).cancels = q.cancels + 1
<1>1. [q EXCEPT !.cancels = @ + 1] \in Rows
  BY DEF Rows
<1>2. \A r \in Rows : [r EXCEPT !.hits = 1] \in Rows
  BY DEF Rows
<1>3. Hit(q) \in Rows
  BY <1>1, <1>2 DEF Hit
<1> QED BY <1>3 DEF Hit, Rows

Older(q) == [q EXCEPT !.age = @ + 1, !.left = @ - 1]

LEMMA OlderRow ==
    ASSUME NEW q \in Rows, q.left > 0
    PROVE  /\ Older(q) \in Rows
           /\ Older(q).at = q.at /\ Older(q).age = q.age + 1 /\ Older(q).left = q.left - 1
           /\ Older(q).hits = q.hits /\ Older(q).cancels = q.cancels
           /\ Older(q).outcome = q.outcome /\ Older(q).cut = q.cut
<1>1. q.age + 1 \in Nat /\ q.left - 1 \in Nat
  BY DEF Rows
<1>2. [q EXCEPT !.age = @ + 1] \in Rows
  BY <1>1 DEF Rows
<1>3. \A r \in Rows, n \in Nat : [r EXCEPT !.left = n] \in Rows
  BY DEF Rows
<1>4. [[q EXCEPT !.age = @ + 1] EXCEPT !.left = q.left - 1] \in Rows
  BY <1>1, <1>2, <1>3
<1>5. Older(q) \in Rows
  BY <1>4 DEF Older, Rows
<1> QED BY <1>5 DEF Older, Rows

-----------------------------------------------------------------------------
(* The actions of the worker *)

\* What Good says of a row, unfolded once for the leaves below.
LEMMA RowsAreGood ==
    ASSUME WorkerInv, NEW c \in Calls
    PROVE  Good(c, conn[c], slot, processes) /\ conn[c] \in Rows
BY DEF WorkerInv, Good

\* Where an action that changes one row leads.
LEMMA Moves ==
    ASSUME WorkerInv, NEW c \in Calls, NEW r,
           conn' = [conn EXCEPT ![c] = r], UNCHANGED <<slot, processes>>,
           Good(c, r, slot, processes)
    PROVE  WorkerInv'
BY OneRow DEF WorkerInv, Good

LEMMA Leaves ==
    ASSUME WorkerInv, NEW c \in Calls, NEW outcome \in Outcomes,
           conn[c].at \in Slotted, c \notin processes,
           Leave(c, outcome), UNCHANGED processes
    PROVE  WorkerInv'
<1> DEFINE r == [conn[c] EXCEPT !.at = "answer", !.outcome = outcome]
<1>1. Good(c, conn[c], slot, processes)
  BY RowsAreGood
<1>2. slot = c /\ slot' = NoCall
  BY <1>1 DEF Good, Leave
<1>3. conn' = [conn EXCEPT ![c] = r]
  BY <1>1 DEF Leave, WorkerInv
<1>4. Good(c, r, NoCall, processes)
  BY <1>1, TimeoutTypes DEF Good, Rows, Timely, Places, Slotted, Stopping, Timed, Outcomes
<1> HIDE DEF r
<1> QED BY <1>2, <1>3, <1>4, OneRow, TimeoutTypes DEF WorkerInv

LEMMA AcceptWorker ==
    ASSUME WorkerInv, NEW c \in Calls, Accept(c)
    PROVE  WorkerInv'
<1>1. /\ Good(c, conn[c], slot, processes) /\ conn[c] \in Rows
      /\ conn[c].at = "free" /\ c \notin processes
  BY RowsAreGood DEF Accept, Unused
<1>2. CASE slot = NoCall
  <2> DEFINE r == Enter(c, "auth", Auth)
  <2>1. conn' = [conn EXCEPT ![c] = r] /\ slot' = c /\ UNCHANGED processes
    BY <1>2 DEF Accept
  <2>2. r \in Rows /\ r.at = "auth" /\ r.left = Auth /\ r.age = 0 /\ r.cancels = 0
    BY <1>1, EnterRow, TimeoutTypes DEF Places, Timed, Good
  <2> HIDE DEF r
  <2>3. Good(c, r, c, processes)
    BY <1>1, <2>2, TimeoutTypes DEF Good, Timely, Slotted
  <2> QED BY <1>2, <2>1, <2>3, OneRow, TimeoutTypes DEF WorkerInv
<1>3. CASE slot # NoCall
  <2> DEFINE r == [conn[c] EXCEPT !.at = "answer", !.outcome = "busy"]
  <2>1. conn' = [conn EXCEPT ![c] = r] /\ UNCHANGED <<slot, processes>>
    BY <1>3 DEF Accept, WorkerInv
  <2>2. Good(c, r, slot, processes)
    BY <1>1, TimeoutTypes DEF Good, Rows, Timely, Places, Slotted, Stopping, Timed, Outcomes
  <2> HIDE DEF r
  <2> QED BY <2>1, <2>2, Moves
<1> QED BY <1>2, <1>3

LEMMA StatusWorker ==
    ASSUME WorkerInv, NEW c \in Calls,
           AcceptStatus(c) \/ \E outcome \in {"result", "failure"} : StatusAnswered(c, outcome)
    PROVE  WorkerInv'
<1>1. Good(c, conn[c], slot, processes) /\ conn[c] \in Rows
  BY RowsAreGood
<1>2. CASE AcceptStatus(c)
  <2> DEFINE r == Enter(c, "status", Auth + 2 * Stop)
  <2>1. conn' = [conn EXCEPT ![c] = r] /\ UNCHANGED <<slot, processes>> /\ conn[c].at = "free"
        /\ c \notin processes
    BY <1>2 DEF AcceptStatus, Unused
  <2> Auth + 2 * Stop \in Nat /\ "status" \in Places
    BY TimeoutTypes DEF Places, Timed
  <2>2. r \in Rows /\ r.at = "status" /\ r.left = Auth + 2 * Stop /\ r.age = 0
    BY <1>1, <2>1, EnterRow DEF Good
  <2>3. slot # c
    BY <1>1, <2>1 DEF Good, Slotted, Stopping
  <2> HIDE DEF r
  <2>4. Good(c, r, slot, processes)
    BY <2>1, <2>2, <2>3, TimeoutTypes DEF Good, Timely, Slotted, Stopping
  <2> QED BY <2>1, <2>4, Moves
<1>3. CASE \E outcome \in {"result", "failure"} : StatusAnswered(c, outcome)
  <2>1. PICK outcome \in {"result", "failure"} : StatusAnswered(c, outcome)
    BY <1>3
  <2> DEFINE r == [conn[c] EXCEPT !.at = "answer", !.outcome = outcome]
  <2>2. conn' = [conn EXCEPT ![c] = r] /\ UNCHANGED <<slot, processes>> /\ conn[c].at = "status"
    BY <2>1 DEF StatusAnswered, WorkerInv
  <2>3. Good(c, r, slot, processes)
    BY <1>1, <2>2, TimeoutTypes
    DEF Good, Rows, Timely, Places, Slotted, Stopping, Timed, Outcomes
  <2> HIDE DEF r
  <2> QED BY <2>2, <2>3, Moves
<1> QED BY <1>2, <1>3

LEMMA WorkerStopsWorker ==
    ASSUME WorkerInv, WorkerStops
    PROVE  WorkerInv'
<1>1. ASSUME NEW d \in Calls
      PROVE  Good(d, conn'[d], slot', processes') /\ conn'[d] \in Rows
  <2>1. conn'[d] = IF conn[d].at = "free" THEN Free
                   ELSE [Free EXCEPT !.at = "answer", !.outcome = "failure"]
    BY DEF WorkerStops
  <2>2. /\ conn'[d] \in Rows /\ conn'[d].at \in {"free", "answer"} /\ conn'[d].age = 0
        /\ conn'[d].left = 0
    <3>1. Free \in Rows
      BY DEF Free, Rows, Places, Outcomes
    <3>2. [Free EXCEPT !.at = "answer", !.outcome = "failure"] \in Rows
      BY <3>1 DEF Rows, Places, Outcomes
    <3> QED BY <2>1, <3>1, <3>2 DEF Free
  <2>3. conn'[d].at = "free" => conn'[d].cancels = 0 /\ conn'[d].outcome = "none"
    BY <2>1 DEF Free
  <2> QED
    BY <2>2, <2>3, TimeoutTypes DEF WorkerStops, Good, Timely, Slotted, Stopping
<1>2. conn' \in [Calls -> Rows]
  BY <1>1 DEF WorkerStops
<1> QED BY <1>1, <1>2 DEF WorkerStops, WorkerInv

\* The next stage of a run: the slot stays with it, and its process may live on only
\* where it is looked after.
LEMMA EntersStage ==
    ASSUME WorkerInv, NEW c \in Calls, NEW at \in Slotted, NEW left \in Nat, NEW r,
           conn[c].at \in Slotted,
           r \in Rows, r.at = at, r.left = left, r.age = conn[c].age,
           at = "codex" => r.cancels = 0, at # "auth", at # "authstop" \/ r.cancels = 0,
           conn' = [conn EXCEPT ![c] = r], UNCHANGED slot,
           processes' \subseteq Calls,
           \A d \in Calls \ {c} : d \in processes' => d \in processes,
           c \in processes' => at \in {"codex", "stdin", "term"},
           Timely(r)
    PROVE  WorkerInv'
<1>1. Good(c, conn[c], slot, processes)
  BY RowsAreGood
<1>2. Good(c, r, slot', processes')
  BY <1>1 DEF Good, Slotted, Stopping
<1> QED BY <1>2, OneRow DEF WorkerInv

LEMMA StagesArePlaces ==
    /\ Slotted \subseteq Places /\ {"result", "failure"} \subseteq Outcomes
    /\ {"auth", "authstop", "codex", "stdin", "term", "kill", "remove"} \subseteq Slotted
BY DEF Slotted, Places, Stopping, Timed, Outcomes

LEMMA AuthPassesWorker ==
    ASSUME WorkerInv, NEW c \in Calls, AuthPasses(c)
    PROVE  WorkerInv'
<1> DEFINE r == Enter(c, "codex", Cli)
<1>1. Good(c, conn[c], slot, processes) /\ conn[c] \in Rows /\ conn[c].at = "auth"
  BY RowsAreGood DEF AuthPasses
<1>2. /\ r \in Rows /\ r.at = "codex" /\ r.left = Cli /\ r.age = conn[c].age
      /\ r.cancels = conn[c].cancels
  BY <1>1, EnterRow, TimeoutTypes, StagesArePlaces
<1>3. conn[c].age <= Run /\ conn[c].cancels = 0
  BY <1>1, TimeoutTypes DEF Good, Timely, Rows
<1>4. conn' = [conn EXCEPT ![c] = r] /\ processes' = processes \cup {c} /\ slot' = slot
  BY DEF AuthPasses
<1> HIDE DEF r
<1>5. Timely(r)
  BY <1>2, <1>3, TimeoutTypes DEF Timely, Rows
<1>6. processes' \subseteq Calls
  BY <1>4 DEF WorkerInv
<1> QED BY <1>1, <1>2, <1>3, <1>4, <1>5, <1>6, EntersStage, StagesArePlaces, TimeoutTypes

LEMMA AuthFailsWorker ==
    ASSUME WorkerInv, NEW c \in Calls, AuthFails(c)
    PROVE  WorkerInv'
<1>1. Good(c, conn[c], slot, processes) /\ conn[c] \in Rows
  BY RowsAreGood
<1>2. CASE conn[c].at \in {"auth", "authstop"} /\ Leave(c, "failure") /\ UNCHANGED processes
  <2>1. conn[c].at \in Slotted /\ "failure" \in Outcomes
    BY <1>2, StagesArePlaces
  <2>2. c \notin processes
    BY <1>1, <1>2 DEF Good
  <2> QED BY <1>2, <2>1, <2>2, Leaves
<1>3. CASE /\ conn[c].at = "auth" /\ conn[c].left = 0
           /\ conn' = [conn EXCEPT ![c] = Enter(c, "authstop", 2 * Stop)]
           /\ UNCHANGED <<slot, processes>>
  <2> DEFINE r == Enter(c, "authstop", 2 * Stop)
  <2>1. 2 * Stop \in Nat
    BY TimeoutTypes
  <2>2. /\ r \in Rows /\ r.at = "authstop" /\ r.left = 2 * Stop /\ r.age = conn[c].age
        /\ r.cancels = conn[c].cancels
    BY <1>1, <2>1, EnterRow, StagesArePlaces
  <2>3. conn[c].age <= Auth /\ conn[c].cancels = 0 /\ c \notin processes
    BY <1>1, <1>3, TimeoutTypes DEF Good, Timely, Rows
  <2> HIDE DEF r
  <2>4. Timely(r)
    BY <1>1, <2>2, <2>3, TimeoutTypes DEF Timely, Rows
  <2>5. processes \subseteq Calls
    BY DEF WorkerInv
  <2>6. conn' = [conn EXCEPT ![c] = r]
    BY <1>3 DEF r
  <2> QED BY <1>1, <1>3, <2>1, <2>2, <2>3, <2>4, <2>5, <2>6, EntersStage, StagesArePlaces
<1> QED BY <1>2, <1>3 DEF AuthFails

LEMMA ProcessExitsWorker ==
    ASSUME WorkerInv, NEW c \in Calls, ProcessExits(c)
    PROVE  WorkerInv'
BY DEF WorkerInv, ProcessExits, Good

\* The removal of the workspace, of a run whose process is gone.
LEMMA RemovalWorker ==
    ASSUME WorkerInv, NEW c \in Calls, NEW outcome \in {"result", "failure"},
           conn[c].at \in {"codex", "stdin", "term", "kill"}, c \notin processes,
           BeginRemoval(c, outcome), UNCHANGED <<slot, processes>>
    PROVE  WorkerInv'
<1> DEFINE q == Enter(c, "remove", Removal)
           r == [q EXCEPT !.outcome = outcome]
<1>1. Good(c, conn[c], slot, processes) /\ conn[c] \in Rows
  BY RowsAreGood
<1>2. q \in Rows /\ q.at = "remove" /\ q.left = Removal /\ q.age = conn[c].age
  BY <1>1, EnterRow, TimeoutTypes, StagesArePlaces
<1>3. conn[c].age <= Run + 3 * Stop
  BY <1>1, TimeoutTypes DEF Good, Timely, Rows
<1>4. conn' = [conn EXCEPT ![c] = r]
  BY DEF BeginRemoval
<1> HIDE DEF q
<1>5. r \in Rows /\ r.at = "remove" /\ r.left = Removal /\ r.age = conn[c].age
  BY <1>2, OutcomeRow, StagesArePlaces
<1> HIDE DEF r
<1>6. Timely(r)
  BY <1>1, <1>3, <1>5, TimeoutTypes DEF Timely, Rows
<1>7. processes \subseteq Calls /\ conn[c].at \in Slotted /\ "remove" \in Slotted
  BY StagesArePlaces DEF WorkerInv
<1> QED BY <1>1, <1>4, <1>5, <1>6, <1>7, EntersStage, TimeoutTypes

\* The process begins to be stopped, because of a failure or of the first cancellation.
LEMMA BeginStopWorker ==
    ASSUME WorkerInv, NEW c \in Calls, NEW cancels \in 0..2,
           conn[c].at = "codex", BeginStop(c, cancels), UNCHANGED <<slot, processes>>
    PROVE  WorkerInv'
<1> DEFINE q == Enter(c, "stdin", Stop)
           r == Stopped(q, "failure", cancels)
<1>1. Good(c, conn[c], slot, processes) /\ conn[c] \in Rows
  BY RowsAreGood
<1>2. q \in Rows /\ q.at = "stdin" /\ q.left = Stop /\ q.age = conn[c].age /\ q.hits = 0
  BY <1>1, EnterRow, TimeoutTypes, StagesArePlaces
<1>3. conn[c].age <= Run
  BY <1>1, TimeoutTypes DEF Good, Timely, Rows
<1>4. conn' = [conn EXCEPT ![c] = r]
  BY DEF BeginStop, Stopped
<1> HIDE DEF q
<1>5. r \in Rows /\ r.at = "stdin" /\ r.left = Stop /\ r.age = conn[c].age /\ r.hits = 0
  BY <1>2, StoppedRow, StagesArePlaces
<1> HIDE DEF r
<1>6. Timely(r)
  BY <1>1, <1>3, <1>5, TimeoutTypes DEF Timely, Rows
<1>7. processes \subseteq Calls /\ conn[c].at \in Slotted /\ "stdin" \in Slotted
  BY StagesArePlaces DEF WorkerInv
<1> QED BY <1>1, <1>4, <1>5, <1>6, <1>7, EntersStage, TimeoutTypes

LEMMA CodexEndsWorker ==
    ASSUME WorkerInv, NEW c \in Calls, CodexReturns(c) \/ CodexFails(c)
    PROVE  WorkerInv'
<1>1. CASE CodexReturns(c)
  BY <1>1, RemovalWorker DEF CodexReturns
<1>2. CASE CodexFails(c)
  <2>1. conn[c].cancels \in 0..2
    BY RowsAreGood DEF Rows
  <2> QED BY <1>2, <2>1, BeginStopWorker DEF CodexFails
<1> QED BY <1>1, <1>2

LEMMA StopsWorker ==
    ASSUME WorkerInv, NEW c \in Calls, StdinClosed(c) \/ Terminated(c) \/ Kill(c)
    PROVE  WorkerInv'
<1>1. Good(c, conn[c], slot, processes) /\ conn[c] \in Rows
  BY RowsAreGood
<1>2. CASE StdinClosed(c) /\ c \in processes
  <2> DEFINE r == [conn[c] EXCEPT !.at = "term", !.left = Stop]
  <2>1. conn' = [conn EXCEPT ![c] = r] /\ UNCHANGED <<slot, processes>> /\ conn[c].at = "stdin"
    BY <1>2 DEF StdinClosed, WorkerInv
  <2>2. /\ r \in Rows /\ r.at = "term" /\ r.left = Stop /\ r.age = conn[c].age
        /\ r.hits = conn[c].hits /\ r.cancels = conn[c].cancels
    BY <1>1, TimeoutTypes DEF Rows, Places, Timed, Stopping
  <2>3. conn[c].age <= Run + Stop
    BY <1>1, <2>1, TimeoutTypes DEF Good, Timely, Rows
  <2> HIDE DEF r
  <2>4. Timely(r)
    BY <1>1, <2>1, <2>2, <2>3, TimeoutTypes DEF Good, Timely, Rows, Stopping
  <2>5. processes \subseteq Calls /\ conn[c].at \in Slotted /\ "term" \in Slotted
    BY <2>1, StagesArePlaces DEF WorkerInv
  <2> QED BY <2>1, <2>2, <2>4, <2>5, EntersStage, TimeoutTypes
<1>3. CASE Kill(c)
  <2> DEFINE r == [conn[c] EXCEPT !.at = "kill", !.left = Stop]
  <2>1. /\ conn' = [conn EXCEPT ![c] = r] /\ UNCHANGED slot /\ conn[c].at = "term"
        /\ processes' = processes \ {c}
    BY <1>3 DEF Kill, WorkerInv
  <2>2. /\ r \in Rows /\ r.at = "kill" /\ r.left = Stop /\ r.age = conn[c].age
        /\ r.hits = conn[c].hits /\ r.cancels = conn[c].cancels
    BY <1>1, TimeoutTypes DEF Rows, Places, Timed, Stopping
  <2>3. conn[c].age <= Run + 2 * Stop
    BY <1>1, <2>1, TimeoutTypes DEF Good, Timely, Rows
  <2> HIDE DEF r
  <2>4. Timely(r)
    BY <1>1, <2>1, <2>2, <2>3, TimeoutTypes DEF Good, Timely, Rows, Stopping
  <2>5. processes' \subseteq Calls /\ conn[c].at \in Slotted /\ "kill" \in Slotted
    BY <2>1, StagesArePlaces DEF WorkerInv
  <2> QED BY <2>1, <2>2, <2>4, <2>5, EntersStage, TimeoutTypes
<1>4. CASE StdinClosed(c) /\ c \notin processes
  BY <1>4, RemovalWorker DEF StdinClosed
<1>5. CASE Terminated(c)
  BY <1>5, RemovalWorker DEF Terminated
<1> QED BY <1>2, <1>3, <1>4, <1>5

LEMMA RemovedWorker ==
    ASSUME WorkerInv, NEW c \in Calls, Removed(c)
    PROVE  WorkerInv'
<1>1. Good(c, conn[c], slot, processes) /\ conn[c] \in Rows
  BY RowsAreGood
<1>2. PICK outcome \in Outcomes : Leave(c, outcome)
  BY <1>1, StagesArePlaces DEF Removed, Rows
<1>3. conn[c].at \in Slotted /\ c \notin processes /\ UNCHANGED processes
  BY <1>1, StagesArePlaces DEF Removed, Good
<1> QED BY <1>2, <1>3, Leaves

\* The second cancellation comes when the process has been killed.
LEMMA CancelWorker ==
    ASSUME WorkerInv, NEW c \in Calls, Cancel(c)
    PROVE  WorkerInv'
<1>1. Good(c, conn[c], slot, processes) /\ conn[c] \in Rows
  BY RowsAreGood
<1>2. conn[c].cancels \in 0..1 /\ Due(c) /\ UNCHANGED processes
  BY DEF Cancel, Due
<1>3. conn[c].cancels + 1 \in 0..2 /\ conn[c].at \in Slotted
  BY <1>2, StagesArePlaces DEF Due, Slotted
<1>4. CASE conn[c].at = "codex" /\ BeginStop(c, conn[c].cancels + 1) /\ UNCHANGED slot
  BY <1>2, <1>3, <1>4, BeginStopWorker
<1>5. CASE /\ conn[c].at # "codex" /\ conn[c].hits = 0
           /\ conn' = [conn EXCEPT ![c].cancels = @ + 1, ![c].hits = 1]
           /\ UNCHANGED slot
  <2> DEFINE r == Hit(conn[c])
  <2>1. conn' = [conn EXCEPT ![c] = r]
    BY <1>5 DEF WorkerInv, Hit
  <2>2. /\ r \in Rows /\ r.at = conn[c].at /\ r.left = conn[c].left /\ r.age = conn[c].age
        /\ r.outcome = conn[c].outcome /\ r.cancels >= 1
    BY <1>1, <1>2, <1>3, HitRow
  <2>3. conn[c].at \in {"remove"} \cup Stopping
    BY <1>2, <1>5 DEF Due
  <2> HIDE DEF r
  <2>4. Good(c, r, slot, processes)
    BY <1>1, <2>2, <2>3 DEF Good, Timely, Stopping
  <2> QED BY <1>2, <1>5, <2>1, <2>4, Moves
<1>6. CASE /\ conn[c].at \in Stopping /\ conn[c].hits = 1 /\ UNCHANGED slot
           /\ conn' = [conn EXCEPT ![c] = [Enter(c, "remove", Removal) EXCEPT
                         !.outcome = "failure", !.cancels = @ + 1]]
  <2> DEFINE q == Enter(c, "remove", Removal)
             r == Stopped(q, "failure", q.cancels + 1)
  <2>1. conn' = [conn EXCEPT ![c] = r]
    BY <1>6 DEF Stopped
  <2>2. /\ q \in Rows /\ q.at = "remove" /\ q.left = Removal /\ q.age = conn[c].age
        /\ q.cancels = conn[c].cancels
    BY <1>1, EnterRow, TimeoutTypes, StagesArePlaces
  <2> HIDE DEF q
  <2>3. r \in Rows /\ r.at = "remove" /\ r.left = Removal /\ r.age = conn[c].age
    <3>1. q.cancels + 1 \in 0..2 /\ "failure" \in Outcomes
      BY <1>3, <2>2, StagesArePlaces
    <3> QED BY <2>2, <3>1, StoppedRow
  <2>4. conn[c].age <= Run + 3 * Stop
    BY <1>1, <1>6, TimeoutTypes DEF Good, Timely, Rows, Stopping
  <2> HIDE DEF r
  <2>5. Timely(r)
    BY <1>1, <2>3, <2>4, TimeoutTypes DEF Timely, Rows
  <2>6. c \notin processes
    <3>1. SUFFICES ASSUME c \in processes PROVE FALSE
      OBVIOUS
    <3>2. conn[c].at \in {"stdin", "term"}
      BY <1>1, <1>6, <3>1 DEF Good, Stopping
    <3>3. conn[c].age <= Run + 2 * Stop
      BY <1>1, <3>2, TimeoutTypes DEF Good, Timely, Rows
    <3> QED
      BY <1>1, <1>2, <1>6, <3>2, <3>3, TimeoutTypes DEF Good, Timely, Due, Rows, Stopping
  <2>7. processes \subseteq Calls /\ "remove" \in Slotted
    BY StagesArePlaces DEF WorkerInv
  <2> QED BY <1>2, <1>3, <1>6, <2>1, <2>3, <2>5, <2>6, <2>7, EntersStage, TimeoutTypes
<1>7. CASE conn[c].at = "remove" /\ conn[c].hits = 1 /\ Leave(c, "failure")
  <2>1. c \notin processes
    BY <1>1, <1>7 DEF Good
  <2> QED BY <1>2, <1>3, <1>7, <2>1, Leaves, StagesArePlaces
<1> QED BY <1>4, <1>5, <1>6, <1>7 DEF Cancel

LEMMA TickWorker ==
    ASSUME WorkerInv, Tick
    PROVE  WorkerInv'
<1>1. ASSUME NEW d \in Calls
      PROVE  Good(d, conn'[d], slot', processes')
  <2>1. Good(d, conn[d], slot, processes) /\ conn[d] \in Rows
    BY RowsAreGood
  <2>2. conn'[d] = Aged(d) /\ UNCHANGED <<slot, processes>> /\ Waits(d)
    BY DEF Tick
  <2>3. CASE conn[d].at \notin Timed
    BY <2>1, <2>2, <2>3 DEF Aged
  <2>4. CASE conn[d].at \in Timed
    <3> DEFINE r == Older(conn[d])
    <3>1. conn'[d] = r
      BY <2>2, <2>4 DEF Aged, Older
    <3>2. conn[d].left > 0 /\ ~Due(d)
      BY <2>2, <2>4 DEF Waits
    <3>3. /\ r \in Rows /\ r.at = conn[d].at /\ r.age = conn[d].age + 1
          /\ r.left = conn[d].left - 1 /\ r.cancels = conn[d].cancels /\ r.hits = conn[d].hits
          /\ r.outcome = conn[d].outcome
      BY <2>1, <3>2, OlderRow
    <3>4. conn[d].at = "codex" => conn[d].age < Run
      BY <2>1, <3>2, TimeoutTypes DEF Good, Timely, Due, Rows
    <3> HIDE DEF r
    <3>5. Timely(r)
      BY <2>1, <2>4, <3>2, <3>3, <3>4, TimeoutTypes
      DEF Good, Timely, Rows, Timed, Stopping
    <3> QED BY <2>1, <2>2, <2>4, <3>1, <3>3, <3>5 DEF Good, Timed, Stopping
  <2> QED BY <2>3, <2>4
<1>2. conn' \in [Calls -> Rows]
  BY <1>1 DEF Tick, Good
<1> QED BY <1>1, <1>2 DEF Tick, WorkerInv

LEMMA ServeWorker ==
    ASSUME WorkerInv, NEW c \in Calls, Serve(c)
    PROVE  WorkerInv'
BY AuthPassesWorker, AuthFailsWorker, ProcessExitsWorker, CodexEndsWorker, StopsWorker,
   RemovedWorker, CancelWorker, StatusWorker
DEF Serve

\* The connection is gone, or its client.
LEMMA RowsAreFreed ==
    ASSUME WorkerInv, NEW c \in Calls, conn[c].at = "answer",
           conn' = [conn EXCEPT ![c] = Free], UNCHANGED <<slot, processes>>
    PROVE  WorkerInv'
<1>1. Good(c, conn[c], slot, processes)
  BY RowsAreGood
<1>2. /\ Free \in Rows /\ Free.at = "free" /\ Free.age = 0 /\ Free.left = 0
      /\ Free.cancels = 0 /\ Free.outcome = "none"
  BY DEF Free, Rows, Places, Outcomes
<1>3. Good(c, Free, slot, processes)
  BY <1>1, <1>2, TimeoutTypes DEF Good, Timely, Slotted, Stopping
<1> QED BY <1>3, Moves

LEMMA ClientsAreCut ==
    ASSUME WorkerInv, NEW c, UNCHANGED <<slot, processes>>,
           conn' = [d \in Calls |-> IF d = c THEN [conn[d] EXCEPT !.cut = TRUE] ELSE conn[d]]
    PROVE  WorkerInv'
<1>1. ASSUME NEW d \in Calls
      PROVE  Good(d, conn'[d], slot', processes') /\ conn'[d] \in Rows
  <2>1. Good(d, conn[d], slot, processes) /\ conn[d] \in Rows
    BY RowsAreGood
  <2>2. CASE d # c
    BY <2>1, <2>2
  <2>3. CASE d = c
    <3> DEFINE r == [conn[d] EXCEPT !.cut = TRUE]
    <3>1. conn'[d] = r
      BY <2>3
    <3>2. /\ r \in Rows /\ r.at = conn[d].at /\ r.age = conn[d].age /\ r.left = conn[d].left
          /\ r.hits = conn[d].hits /\ r.cancels = conn[d].cancels /\ r.outcome = conn[d].outcome
      BY <2>1 DEF Rows
    <3> HIDE DEF r
    <3>3. Timely(r)
      BY <2>1, <3>2 DEF Good, Timely
    <3> QED BY <2>1, <3>1, <3>2, <3>3 DEF Good
  <2> QED BY <2>2, <2>3
<1>2. conn' \in [Calls -> Rows]
  BY <1>1
<1> QED BY <1>1, <1>2 DEF WorkerInv

LEMMA NextWorker ==
    ASSUME WorkerInv, [Next]_vars
    PROVE  WorkerInv'
<1>1. CASE UNCHANGED workerVars
  BY <1>1 DEF workerVars, WorkerInv
<1>2. CASE Clock
  BY <1>2, TickWorker DEF Clock
<1>3. CASE StopService
  BY <1>3, ClientsAreCut DEF StopService
<1>4. CASE WorkerStops
  BY <1>4, WorkerStopsWorker
<1>5. ASSUME NEW c \in Calls, Ask(c) \/ Received(c) \/ Dropped(c) \/ Heartbeat(c) \/ Serve(c)
      PROVE  WorkerInv'
  <2>1. CASE Ask(c)
    BY <2>1, AcceptWorker DEF Ask
  <2>2. CASE Received(c)
    BY <2>2, RowsAreFreed DEF Received
  <2>3. CASE Dropped(c)
    BY <2>3, RowsAreFreed DEF Dropped
  <2>4. CASE Heartbeat(c)
    BY <2>4, StatusWorker DEF Heartbeat
  <2>5. CASE Serve(c)
    BY <2>5, ServeWorker
  <2> QED BY <1>5, <2>1, <2>2, <2>3, <2>4, <2>5
<1>6. CASE Next
  BY <1>1, <1>2, <1>3, <1>4, <1>5, <1>6
  DEF Next, Message, GiveUp, Exhausted, Fetched, StartService
<1> QED BY <1>1, <1>6 DEF vars

-----------------------------------------------------------------------------
(* One process *)

LEMMA ProcessesHoldTheSlot ==
    ASSUME WorkerInv
    PROVE  processes \subseteq {slot}
BY DEF WorkerInv, Good, Slotted, Stopping

\* For any timeouts that leave the handler's cancellation to a killed process, at most
\* one Codex process is alive, those that are being stopped included.
THEOREM CodexIsSingle == Spec => []OneCodexProcess
<1>1. Init => WorkerInv
  BY InitWorker DEF Init
<1>2. WorkerInv /\ [Next]_vars => WorkerInv'
  BY NextWorker
<1>3. WorkerInv => OneCodexProcess
  <2> SUFFICES ASSUME WorkerInv PROVE OneCodexProcess
    OBVIOUS
  <2>1. processes \subseteq {slot} /\ IsFiniteSet({slot}) /\ Cardinality({slot}) = 1
    BY ProcessesHoldTheSlot, FS_Singleton
  <2> QED BY <2>1, FS_Subset DEF OneCodexProcess
<1> QED BY <1>1, <1>2, <1>3, PTL DEF Spec

-----------------------------------------------------------------------------
(* Refusals *)

LEMMA InitChat == Init => ChatTypes /\ SlotIsAwaited
BY PlanningAssumption
DEF Init, WorkerInit, ChatTypes, SlotIsAwaited, Idle, Stages, Asking, Fetching

LEMMA IdleTypes ==
    \A at \in Stages :
        /\ Idle(at) \in [at : Stages, attempt : 0..Attempts, call : Calls \cup {NoCall}]
        /\ Idle(at).call = NoCall
BY PlanningAssumption DEF Idle

LEMMA NextChat ==
    ASSUME ChatTypes, [Next]_vars
    PROVE  ChatTypes'
<1>1. CASE UNCHANGED chat
  BY <1>1 DEF ChatTypes
<1>2. ASSUME NEW at \in Stages, chat' = Idle(at)
      PROVE  ChatTypes'
  BY <1>2, IdleTypes DEF ChatTypes
<1>3. CASE Message \/ Exhausted \/ Fetched \/ StartService \/ StopService
  <2>1. \E at \in Stages : chat' = Idle(at)
    BY <1>3
    DEF Message, Exhausted, Fetched, AliasChecked, CandidatesChecked, Probed, StartService,
        StopService, Stages, Asking, Fetching
  <2> QED BY <1>2, <2>1
<1>4. CASE GiveUp
  BY <1>4 DEF GiveUp, ChatTypes
<1>5. ASSUME NEW c \in Calls, Ask(c)
      PROVE  ChatTypes'
  <2>1. chat.attempt + 1 \in 0..Attempts
    BY <1>5, PlanningAssumption DEF Ask, ChatTypes
  <2> QED BY <1>5, <2>1 DEF Ask, ChatTypes
<1>6. ASSUME NEW c \in Calls, Received(c)
      PROVE  ChatTypes'
  <2>1. CASE chat' = [chat EXCEPT !.call = NoCall]
    BY <2>1 DEF ChatTypes
  <2>2. CASE \E at \in Follows(chat.at) : chat' = Idle(at)
    <3>1. chat.at \in Asking
      BY <1>6, WorkerAssumption DEF Received, ChatTypes
    <3>2. Follows(chat.at) \subseteq Stages
      BY <3>1 DEF Follows, Asking, Routed, Searched, Planned, Stages, Fetching
    <3> QED BY <2>2, <3>2, <1>2
  <2> QED BY <1>6, <2>1, <2>2 DEF Received
<1> QED
  BY <1>1, <1>3, <1>4, <1>5, <1>6 DEF Next, vars, Clock, Dropped, Heartbeat

\* A run that excuses refusals does so as long as it holds the slot.
LEMMA ServeKeepsExcuses ==
    ASSUME WorkerInv, NEW c \in Calls, Serve(c), slot # NoCall, slot' = slot, Excused(slot)
    PROVE  Excused(slot)'
<1>1. slot \in Calls /\ Good(slot, conn[slot], slot, processes) /\ conn[slot] \in Rows
  BY RowsAreGood DEF WorkerInv
<1>2. CASE conn'[slot] = conn[slot]
  BY <1>2 DEF Excused
<1>3. CASE c # slot
  <2>1. conn'[slot] = conn[slot]
    BY <1>1, <1>3
    DEF Serve, WorkerInv, AuthPasses, AuthFails, ProcessExits, CodexReturns, CodexFails,
        StdinClosed, Terminated, Kill, Removed, Cancel, StatusAnswered, BeginRemoval, BeginStop,
        Leave
  <2> QED BY <1>2, <2>1
<1>4. ASSUME c = slot, conn'[slot].cut = conn[slot].cut, conn[slot].at # "remove"
      PROVE  Excused(slot)'
  BY <1>4 DEF Excused
<1>5. ASSUME NEW at \in Places, NEW left \in Nat, NEW outcome \in Outcomes, NEW cancels \in 0..2
      PROVE  /\ Enter(slot, at, left).cut = conn[slot].cut
             /\ [Enter(slot, at, left) EXCEPT !.outcome = outcome].cut = conn[slot].cut
             /\ Stopped(Enter(slot, at, left), outcome, cancels).cut = conn[slot].cut
  BY <1>1, EnterRow, OutcomeRow, StoppedRow
<1>6. CASE c = slot
  <2>1. ~ \E outcome : Leave(c, outcome)
    BY TimeoutTypes DEF Leave
  <2>2. conn[c].at # "status"
    BY <1>1, <1>6 DEF Good, Slotted, Stopping
  <2>3. CASE AuthPasses(c)
    BY <1>1, <1>4, <1>5, <1>6, <2>3, StagesArePlaces, TimeoutTypes DEF AuthPasses, WorkerInv
  <2>4. CASE AuthFails(c)
    <3>1. conn' = [conn EXCEPT ![c] = Enter(c, "authstop", 2 * Stop)] /\ conn[c].at = "auth"
      BY <2>1, <2>4 DEF AuthFails
    <3>2. 2 * Stop \in Nat
      BY TimeoutTypes
    <3> QED BY <1>1, <1>4, <1>5, <1>6, <3>1, <3>2, StagesArePlaces DEF WorkerInv
  <2>5. CASE ProcessExits(c)
    BY <1>2, <2>5 DEF ProcessExits
  <2>6. ASSUME NEW outcome \in {"result", "failure"}, BeginRemoval(c, outcome),
               conn[c].at # "remove"
        PROVE  Excused(slot)'
    BY <1>1, <1>4, <1>5, <1>6, <2>6, StagesArePlaces, TimeoutTypes DEF BeginRemoval, WorkerInv
  <2>7. ASSUME NEW cancels \in 0..2, BeginStop(c, cancels), conn[c].at # "remove"
        PROVE  Excused(slot)'
    BY <1>1, <1>4, <1>5, <1>6, <2>7, StagesArePlaces, TimeoutTypes
    DEF BeginStop, Stopped, WorkerInv
  <2>8. CASE CodexReturns(c) \/ Terminated(c)
    BY <2>6, <2>8 DEF CodexReturns, Terminated
  <2>9. CASE CodexFails(c)
    BY <1>1, <1>6, <2>7, <2>9 DEF CodexFails, Rows
  <2>10. CASE StdinClosed(c) \/ Kill(c)
    <3>1. \/ BeginRemoval(c, "failure")
          \/ \E at \in {"term", "kill"} : conn' = [conn EXCEPT ![c].at = at, ![c].left = Stop]
      BY <2>10 DEF StdinClosed, Kill
    <3>2. conn[c].at # "remove"
      BY <2>10 DEF StdinClosed, Kill
    <3>3. \A at : [conn[c] EXCEPT !.at = at, !.left = Stop].cut = conn[c].cut
      BY <1>1, <1>6 DEF Rows
    <3>4. CASE \E at \in {"term", "kill"} : conn' = [conn EXCEPT ![c].at = at, ![c].left = Stop]
      <4>1. PICK at \in {"term", "kill"} : conn' = [conn EXCEPT ![c].at = at, ![c].left = Stop]
        BY <3>4
      <4>2. conn'[c] = [conn[c] EXCEPT !.at = at, !.left = Stop]
        BY <4>1 DEF WorkerInv
      <4> QED BY <1>4, <1>6, <3>2, <3>3, <4>2
    <3> QED BY <2>6, <3>1, <3>2, <3>4
  <2>11. CASE Removed(c)
    BY <2>1, <2>11 DEF Removed
  <2>12. CASE Cancel(c)
    <3>1. conn[c].cancels + 1 \in 0..2
      BY <1>1, <1>6, <2>12 DEF Cancel, Due, Rows
    <3>2. CASE conn[c].at = "codex" /\ BeginStop(c, conn[c].cancels + 1)
      BY <2>7, <3>1, <3>2
    <3>3. CASE conn' = [conn EXCEPT ![c].cancels = @ + 1, ![c].hits = 1]
      <4>1. conn'[slot] = Hit(conn[slot])
        BY <1>6, <3>3 DEF Hit, WorkerInv
      <4>2. /\ conn'[slot].at = conn[slot].at /\ conn'[slot].left = conn[slot].left
            /\ conn'[slot].cut = conn[slot].cut
        BY <1>1, <1>6, <3>1, <4>1, HitRow
      <4> QED BY <4>2 DEF Excused
    <3>4. CASE /\ conn[c].at \in Stopping
               /\ conn' = [conn EXCEPT ![c] = [Enter(c, "remove", Removal) EXCEPT
                             !.outcome = "failure", !.cancels = @ + 1]]
      <4>1. /\ Enter(c, "remove", Removal) \in Rows
            /\ Enter(c, "remove", Removal).cancels = conn[c].cancels
        BY <1>1, <1>6, EnterRow, StagesArePlaces, TimeoutTypes
      <4>2. conn'[c] = Stopped(Enter(c, "remove", Removal), "failure",
                               Enter(c, "remove", Removal).cancels + 1)
        BY <3>4 DEF Stopped, WorkerInv
      <4>3. conn'[c].cut = conn[c].cut
        BY <1>5, <1>6, <3>1, <4>1, <4>2, StagesArePlaces, TimeoutTypes
      <4> QED BY <1>4, <1>6, <3>4, <4>3 DEF Stopping
    <3> QED BY <2>1, <2>12, <3>2, <3>3, <3>4 DEF Cancel
  <2>13. CASE \E outcome \in {"result", "failure"} : StatusAnswered(c, outcome)
    BY <2>2, <2>13 DEF StatusAnswered
  <2> QED BY <2>3, <2>4, <2>5, <2>8, <2>9, <2>10, <2>11, <2>12, <2>13 DEF Serve
<1> QED BY <1>3, <1>6

\* A client gives up a run only when its removal has taken that long.
LEMMA GivenUpIsExcused ==
    ASSUME WorkerInv, slot # NoCall, conn[slot].age >= Client
    PROVE  Excused(slot)
<1>1. slot \in Calls /\ Good(slot, conn[slot], slot, processes) /\ conn[slot] \in Rows
  BY RowsAreGood DEF WorkerInv
<1>2. conn[slot].at = "remove"
  BY <1>1, TimeoutTypes DEF Good, Timely, Rows, Slotted, Stopping
<1> QED BY <1>1, <1>2, TimeoutTypes DEF Good, Timely, Rows, Excused

LEMMA NextAwaited ==
    ASSUME WorkerInv, ChatTypes, SlotIsAwaited, [Next]_vars
    PROVE  SlotIsAwaited'
<1>1. CASE UNCHANGED workerVars /\ chat'.call = chat.call
  BY <1>1 DEF workerVars, SlotIsAwaited, Excused
<1>2. CASE Message \/ Exhausted \/ Fetched \/ StartService
  <2>1. chat.call = NoCall
    BY <1>2
    DEF Message, Exhausted, Fetched, AliasChecked, CandidatesChecked, Probed, StartService,
        ChatTypes, Asking
  <2>2. chat'.call = NoCall /\ UNCHANGED workerVars
    BY <1>2, IdleTypes
    DEF Message, Exhausted, Fetched, AliasChecked, CandidatesChecked, Probed, StartService,
        Stages, Asking, Fetching
  <2> QED BY <1>1, <2>1, <2>2
<1>3. CASE GiveUp
  <2>1. slot = chat.call => conn[slot].age >= Client
    BY <1>3 DEF GiveUp
  <2>2. slot # NoCall => Excused(slot)
    BY <2>1, GivenUpIsExcused DEF SlotIsAwaited
  <2> QED BY <1>3, <2>2 DEF GiveUp, SlotIsAwaited, Excused, workerVars
<1>4. CASE StopService
  <2>1. ASSUME slot # NoCall
        PROVE  Excused(slot)'
    <3>1. slot \in Calls /\ conn[slot] \in Rows
      BY <2>1, RowsAreGood DEF WorkerInv
    <3>2. CASE slot = chat.call
      BY <1>4, <3>1, <3>2 DEF StopService, Excused, Rows
    <3>3. CASE slot # chat.call
      BY <1>4, <2>1, <3>1, <3>3 DEF StopService, Excused, SlotIsAwaited
    <3> QED BY <3>2, <3>3
  <2> QED BY <1>4, <2>1 DEF StopService, SlotIsAwaited
<1>5. CASE Clock
  <2>1. SUFFICES ASSUME slot # NoCall, chat.call # slot
                 PROVE  Excused(slot)'
    BY <1>5 DEF Clock, Tick, SlotIsAwaited
  <2>2. slot \in Calls /\ conn[slot] \in Rows /\ slot' = slot /\ Excused(slot)
    BY <1>5, <2>1, RowsAreGood DEF WorkerInv, Clock, Tick, SlotIsAwaited
  <2>3. conn'[slot] = conn[slot] \/ (conn'[slot] = Older(conn[slot]) /\ conn[slot].left > 0)
    BY <1>5, <2>2 DEF Clock, Tick, Aged, Older, Waits
  <2> QED BY <2>2, <2>3, OlderRow, TimeoutTypes DEF Excused, Rows
<1>6. CASE WorkerStops
  BY <1>6 DEF WorkerStops, SlotIsAwaited
<1>7. ASSUME NEW c \in Calls, Ask(c)
      PROVE  SlotIsAwaited'
  <2>1. chat'.call = c /\ chat.call = NoCall
    BY <1>7 DEF Ask, ChatTypes
  <2>2. CASE slot = NoCall
    BY <1>7, <2>1, <2>2 DEF Ask, Accept, SlotIsAwaited
  <2>3. CASE slot # NoCall
    <3>1. conn[c].at = "free" /\ slot' = slot /\ slot \in Calls
      BY <1>7, <2>3 DEF Ask, Accept, Unused, WorkerInv
    <3>2. conn[slot].at # "free"
      BY <3>1, RowsAreGood DEF Good, Slotted, Stopping
    <3>3. conn'[slot] = conn[slot]
      BY <1>7, <2>3, <3>1, <3>2 DEF Ask, Accept, WorkerInv
    <3> QED BY <2>1, <2>3, <3>1, <3>3 DEF SlotIsAwaited, Excused
  <2> QED BY <2>2, <2>3
<1>8. ASSUME NEW c \in Calls, Received(c) \/ Dropped(c)
      PROVE  SlotIsAwaited'
  <2>1. conn[c].at = "answer" /\ slot' = slot /\ conn' = [conn EXCEPT ![c] = Free]
    BY <1>8 DEF Received, Dropped
  <2>2. slot # c
    BY <2>1, RowsAreGood DEF Good, Slotted, Stopping
  <2>3. chat.call # slot \/ chat'.call = chat.call
    BY <1>8, <2>2 DEF Received, Dropped
  <2> QED BY <2>1, <2>2, <2>3 DEF SlotIsAwaited, Excused, WorkerInv
<1>9. ASSUME NEW c \in Calls, Heartbeat(c)
      PROVE  SlotIsAwaited'
  <2>1. conn[c].at = "free" /\ slot' = slot /\ conn' = [conn EXCEPT ![c] = Enter(c, "status", Auth + 2 * Stop)]
    BY <1>9 DEF Heartbeat, AcceptStatus, Unused
  <2>2. slot # c
    BY <2>1, RowsAreGood DEF Good, Slotted, Stopping
  <2> QED BY <1>9, <2>1, <2>2 DEF SlotIsAwaited, Excused, WorkerInv, Heartbeat
<1>10. ASSUME NEW c \in Calls, Serve(c), UNCHANGED chat
       PROVE  SlotIsAwaited'
  <2>1. slot' = slot \/ slot' = NoCall
    BY <1>10
    DEF Serve, AuthPasses, AuthFails, ProcessExits, CodexReturns, CodexFails, StdinClosed,
        Terminated, Kill, Removed, Cancel, StatusAnswered, Leave
  <2> QED BY <1>10, <2>1, ServeKeepsExcuses DEF SlotIsAwaited
<1> QED
  BY <1>1, <1>2, <1>3, <1>4, <1>5, <1>6, <1>7, <1>8, <1>9, <1>10 DEF Next, vars

\* Only a call of the chat is refused.
LEMMA RefusalsAreAsked ==
    ASSUME WorkerInv, Next, NEW c \in Calls, conn[c].at = "free", conn'[c].outcome = "busy"
    PROVE  Ask(c)
<1>1. conn[c] \in Rows /\ conn[c].outcome = "none" /\ slot # c
  BY RowsAreGood DEF Good, Slotted, Stopping
<1>2. conn'[c] # conn[c]
  BY <1>1
<1>3. ~ (Message \/ GiveUp \/ Exhausted \/ Fetched \/ StartService)
  BY <1>2 DEF Message, GiveUp, Exhausted, Fetched, StartService, workerVars
<1>4. ~ StopService
  <2>1. [conn[c] EXCEPT !.cut = TRUE].outcome = "none"
    BY <1>1 DEF Rows
  <2> QED BY <1>1, <2>1 DEF StopService
<1>5. ~ Clock
  BY <1>2 DEF Clock, Tick, Aged, Timed, Stopping
<1>6. ~ WorkerStops
  BY DEF WorkerStops, Free
<1>7. ASSUME NEW e \in Calls, Received(e) \/ Dropped(e) PROVE FALSE
  BY <1>2, <1>7 DEF Received, Dropped, WorkerInv
<1>8. ASSUME NEW e \in Calls, Heartbeat(e) PROVE FALSE
  <2>1. Enter(c, "status", Auth + 2 * Stop).outcome = "none"
    <3>1. "status" \in Places /\ Auth + 2 * Stop \in Nat
      BY TimeoutTypes DEF Places, Timed
    <3> QED BY <1>1, <3>1, EnterRow
  <2> QED BY <1>1, <1>2, <1>8, <2>1 DEF Heartbeat, AcceptStatus, WorkerInv
<1>9. ASSUME NEW e \in Calls, Serve(e) PROVE FALSE
  <2>1. e # c => conn'[c] = conn[c]
    BY <1>9
    DEF Serve, WorkerInv, AuthPasses, AuthFails, ProcessExits, CodexReturns, CodexFails,
        StdinClosed, Terminated, Kill, Removed, Cancel, StatusAnswered, BeginRemoval, BeginStop,
        Leave
  <2>2. e = c => conn'[c] = conn[c]
    BY <1>9
    DEF Serve, AuthPasses, AuthFails, ProcessExits, CodexReturns, CodexFails,
        StdinClosed, Terminated, Kill, Removed, Cancel, Due, Stopping, StatusAnswered
  <2> QED BY <1>2, <2>1, <2>2
<1>10. ASSUME NEW e \in Calls, Ask(e) PROVE e = c
  <2>1. CASE slot = NoCall
    <3>1. Enter(c, "auth", Auth).outcome = "none"
      BY <1>1, EnterRow, TimeoutTypes DEF Places, Timed
    <3> QED BY <1>1, <1>2, <1>10, <2>1, <3>1 DEF Ask, Accept, WorkerInv
  <2>2. CASE slot # NoCall
    BY <1>2, <1>10, <2>2 DEF Ask, Accept, WorkerInv
  <2> QED BY <2>1, <2>2
<1> QED BY <1>3, <1>4, <1>5, <1>6, <1>7, <1>8, <1>9, <1>10 DEF Next

\* An attempt is refused as busy only by a run whose client was cancelled, or whose
\* workspace takes too long to remove.
THEOREM AttemptsDoNotCollide == Spec => RefusalsAreExcused
<1>1. Init => PlanningInv
  BY InitWorker, InitChat DEF Init, PlanningInv
<1>2. PlanningInv /\ [Next]_vars => PlanningInv'
  BY NextWorker, NextChat, NextAwaited DEF PlanningInv
<1>3. PlanningInv /\ [Next]_vars =>
        [\A c \in Calls : conn[c].at = "free" /\ conn'[c].outcome = "busy" => Excused(slot)]_vars
  <2> SUFFICES ASSUME PlanningInv, Next, NEW c \in Calls,
                      conn[c].at = "free", conn'[c].outcome = "busy"
               PROVE  Excused(slot)
    OBVIOUS
  <2>1. Ask(c)
    BY RefusalsAreAsked DEF PlanningInv
  <2>2. slot # NoCall
    <3>1. SUFFICES ASSUME slot = NoCall PROVE FALSE
      OBVIOUS
    <3>2. conn'[c] = Enter(c, "auth", Auth)
      BY <2>1, <3>1 DEF Ask, Accept, PlanningInv, WorkerInv
    <3>3. conn[c] \in Rows /\ conn[c].outcome = "none"
      BY RowsAreGood DEF PlanningInv, Good
    <3> QED BY <3>2, <3>3, EnterRow, TimeoutTypes DEF Places, Timed
  <2>3. chat.call # slot
    BY <2>1, <2>2 DEF Ask
  <2> QED BY <2>2, <2>3 DEF PlanningInv, SlotIsAwaited
<1> QED BY <1>1, <1>2, <1>3, PTL DEF Spec, RefusalsAreExcused

\* Every state of the worker and the chat has its type; ages and remaining times are
\* bounded by the timeouts.
THEOREM PlanningTypes == Spec => []PlanningTypeOK
<1>1. Init => PlanningInv
  BY InitWorker, InitChat DEF Init, PlanningInv
<1>2. PlanningInv /\ [Next]_vars => PlanningInv'
  BY NextWorker, NextChat, NextAwaited DEF PlanningInv
<1>3. PlanningInv => PlanningTypeOK
  <2> SUFFICES ASSUME PlanningInv PROVE PlanningTypeOK
    OBVIOUS
  <2>1. ASSUME NEW c \in Calls
        PROVE  conn[c] \in Connections
    <3>1. conn[c] \in Rows /\ Timely(conn[c])
      BY RowsAreGood DEF PlanningInv, Good
    <3>2. conn[c].age \in 0..(Handler + Removal)
      BY <3>1, TimeoutTypes DEF Rows, Timely
    <3>3. conn[c].left \in 0..(Cli + Auth + 2 * Stop + Removal)
      BY <3>1, TimeoutTypes DEF Rows, Timely
    <3> QED BY <3>1, <3>2, <3>3 DEF Rows, Connections
  <2>2. conn \in [Calls -> Connections]
    BY <2>1 DEF PlanningInv, WorkerInv
  <2> QED BY <2>2 DEF PlanningInv, WorkerInv, ChatTypes, PlanningTypeOK, WorkerTypeOK
<1> QED BY <1>1, <1>2, <1>3, PTL DEF Spec

=============================================================================
