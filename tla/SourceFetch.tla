----------------------------- MODULE SourceFetch -----------------------------
(***************************************************************************)
(* The fetches of the source adapters and of the planner's probe:          *)
(* adapters/scrapling.py and adapters/official_api.py over                  *)
(* security/rate_limit.py, the two egress gates, the blocking executor of   *)
(* scraping/scrapling_backend.py and the encrypted browser sessions of      *)
(* scraping/profiles.py.  A call is one coroutine of the event loop: what   *)
(* it does between two awaits is one step.  Bodies, headers and addresses   *)
(* are abstracted to the outcomes the control flow tells apart.             *)
(* Limiter, gates, executor and profile locks belong to one process.  The   *)
(* vault does not: run-once and the first login of a profile, processes of  *)
(* their own, put sessions into it too, under locks of their own.           *)
(***************************************************************************)
EXTENDS Integers, Sequences, FiniteSets

CONSTANTS
    Calls,         \* fetches that may be under way at a time
    Kind,          \* call -> "http" (the official adapter and the probe too),
                   \* "dynamic" or "auto"
    Attempts,      \* call -> attempts of one strategy: three, one for the probe
    Profile,       \* call -> its browser profile, or NoProfile
    NoProfile,
    Hosts,
    HostOf,        \* call -> host of its target_url
    HttpSlots,     \* permits of HTTP_EGRESS_GATE
    BrowserSlots,  \* permits of the browser gate
    Interval,      \* ticks between two starts on a host (minimum_interval_seconds)
    Delays,        \* Retry-After and crawl delays a host may ask for, in ticks
    MaxRedirects

ASSUME FetchAssumption ==
    /\ Kind \in [Calls -> {"http", "dynamic", "auto"}]
    /\ HostOf \in [Calls -> Hosts]
    /\ HttpSlots \in Nat \ {0} /\ BrowserSlots \in Nat \ {0}
    /\ Interval \in Nat /\ Delays \subseteq Nat /\ 0 \in Delays
    /\ Attempts \in [Calls -> Nat \ {0}] /\ MaxRedirects \in Nat

VARIABLES
    call,     \* the coroutine of each call
    line,     \* the lock of each host: calls waiting for a start, in order
    gap,      \* ticks until the interval since the last start of a host is over
    hold,     \* ticks until _not_before of a host
    free,     \* free permits of the two gates
    orphans,  \* abandoned executor threads, by gate
    opened,   \* calls that have their profile materialized
    vault,    \* whose session of a profile is stored: this process's, or another's
    stale     \* history: open workspaces whose stored session was replaced

vars == <<call, line, gap, hold, free, orphans, opened, vault, stale>>

Gates == {"http", "browser"}
Capacity == [http |-> HttpSlots, browser |-> BrowserSlots]
Profiles == {Profile[c] : c \in Calls}
Places == {"idle", "robotsLine", "robotsGate", "robots", "line", "lock", "gate",
           "flying", "backoff"}

MaxOf(x, y) == IF x > y THEN x ELSE y

\* owed: what the call asks the limiter to wait, from Retry-After or robots.txt;
\* hops and turns: redirects of the target and of its robots.txt.
CallRow ==
    [at : Places, host : Hosts, strategy : {"http", "browser"},
     attempt : Nat \ {0}, owed : Delays, hops : 0..MaxRedirects, turns : 0..MaxRedirects]

\* An attempt at the target itself.
AttemptRow(c, place, strategy, attempt, owed) ==
    [at |-> place, host |-> HostOf[c], strategy |-> strategy, attempt |-> attempt,
     owed |-> owed, hops |-> 0, turns |-> 0]

Idle(c) == AttemptRow(c, "idle", "http", 1, 0)

FetchTypeOK ==
    /\ call \in [Calls -> CallRow]
    /\ line \in [Hosts -> Seq(Calls)]
    /\ gap \in [Hosts -> 0..Interval] /\ hold \in [Hosts -> Nat]
    /\ free \in [Gates -> Nat] /\ orphans \in [Gates -> Nat]
    /\ opened \subseteq Calls /\ stale \subseteq Calls
    /\ vault \in [Profiles -> {"here", "elsewhere"}]

Init ==
    /\ call = [c \in Calls |-> Idle(c)]
    /\ line = [h \in Hosts |-> <<>>]
    /\ gap = [h \in Hosts |-> 0] /\ hold = [h \in Hosts |-> 0]
    /\ free = Capacity /\ orphans = [g \in Gates |-> 0]
    /\ opened = {} /\ stale = {}
    /\ vault = [p \in Profiles |-> "elsewhere"]

-----------------------------------------------------------------------------
(* HostRateLimiter *)

\* acquire: a delay raises _not_before at once, then the host's lock is awaited.
Queue(c, row) ==
    /\ call' = [call EXCEPT ![c] = row]
    /\ line' = [line EXCEPT ![row.host] = Append(@, c)]
    /\ hold' = [hold EXCEPT ![row.host] = MaxOf(@, row.owed)]
    /\ UNCHANGED gap

\* The holder of the lock leaves with a start when both waits are over.
HasStart(c) ==
    LET h == call[c].host IN
    /\ call[c].at \in {"robotsLine", "line"}
    /\ Head(line[h]) = c /\ gap[h] = 0 /\ hold[h] = 0

TakeStart(c, place) ==
    /\ HasStart(c)
    /\ call' = [call EXCEPT ![c].at = place, ![c].owed = 0]
    /\ line' = [line EXCEPT ![call[c].host] = Tail(@)]
    /\ gap' = [gap EXCEPT ![call[c].host] = Interval]
    /\ UNCHANGED <<hold, free, orphans, opened, vault, stale>>

Tick ==
    /\ \E h \in Hosts : gap[h] > 0 \/ hold[h] > 0
    /\ gap' = [h \in Hosts |-> MaxOf(gap[h] - 1, 0)]
    /\ hold' = [h \in Hosts |-> MaxOf(hold[h] - 1, 0)]
    /\ UNCHANGED <<call, line, free, orphans, opened, vault, stale>>

-----------------------------------------------------------------------------
(* The end of an attempt *)

\* Mutant: the attempts are not counted.
AttemptsNotCounted(c) == TRUE

MayRetry(c) == call[c].attempt < Attempts[c]

\* A batch or an error for the caller.
Return(c) ==
    /\ call' = [call EXCEPT ![c] = Idle(c)]
    /\ UNCHANGED <<line, gap, hold>>

\* A transient failure sleeps for _RETRY_DELAYS, or is the caller's after the last
\* attempt; a Retry-After is remembered for the next attempt only.
FailTransient(c, owed) ==
    IF MayRetry(c)
    THEN /\ call' = [call EXCEPT ![c] =
                        AttemptRow(c, "backoff", call[c].strategy, call[c].attempt, owed)]
         /\ UNCHANGED <<line, gap, hold>>
    ELSE Return(c)

Retry(c) ==
    /\ call[c].at = "backoff"
    /\ Queue(c, [call[c] EXCEPT !.at = "robotsLine",
                    !.attempt = IF @ < Attempts[c] THEN @ + 1 ELSE @])
    /\ UNCHANGED <<free, orphans, opened, vault, stale>>

\* A redirect of an HTTP fetch is prepared like a target of its own: robots.txt
\* and a start of its host.  Too many, a loop or a browser's end the fetch.
Redirect(c, h) ==
    /\ call[c].strategy = "http" /\ call[c].hops < MaxRedirects
    /\ LET row == [call[c] EXCEPT !.host = h, !.hops = @ + 1]
       IN Queue(c, [row EXCEPT !.at = "robotsLine", !.turns = 0])

\* fetch with AUTO: a page without the required content is tried with a browser.
Fallback(c) ==
    /\ Kind[c] = "auto" /\ call[c].strategy = "http"
    /\ Queue(c, AttemptRow(c, "robotsLine", "browser", 1, 0))

\* What a document or its status comes to.
Outcome(c) ==
    \/ Return(c)
    \/ \E owed \in Delays : FailTransient(c, owed)
    \/ \E h \in Hosts : Redirect(c, h)
    \/ Fallback(c)

-----------------------------------------------------------------------------
(* robots.txt *)

\* Both gates are polled every 10 ms; whoever finds a permit takes it.
HasPermit(g) == free[g] > 0

Begin(c) ==
    /\ call[c].at = "idle"
    /\ LET strategy == IF Kind[c] = "dynamic" THEN "browser" ELSE "http"
       IN Queue(c, AttemptRow(c, "robotsLine", strategy, 1, 0))
    /\ UNCHANGED <<free, orphans, opened, vault, stale>>

RobotsStart(c) == call[c].at = "robotsLine" /\ TakeStart(c, "robotsGate")

AskRobots(c) ==
    /\ call[c].at = "robotsGate" /\ HasPermit("http")
    /\ free' = [free EXCEPT !["http"] = @ - 1]
    /\ call' = [call EXCEPT ![c].at = "robots"]
    /\ UNCHANGED <<line, gap, hold, orphans, opened, vault, stale>>

\* Rules that allow, no rules, or no answer in time (the wait for the slot
\* included): the target is next, after the delay asked for.  Rules or a status
\* that forbid it end the fetch; a redirect asks again.
RobotsAnswer(c) ==
    /\ call[c].at \in {"robots", "robotsGate"}
    /\ \/ \E delay \in Delays :
             Queue(c, [call[c] EXCEPT !.at = "line", !.owed = delay])
       \/ call[c].at = "robots" /\ Return(c)
       \/ /\ call[c].at = "robots" /\ call[c].turns < MaxRedirects
          /\ Queue(c, [call[c] EXCEPT !.at = "robotsLine", !.turns = @ + 1])
    /\ free' = IF call[c].at = "robots" THEN [free EXCEPT !["http"] = @ + 1] ELSE free
    /\ UNCHANGED <<orphans, opened, vault, stale>>

-----------------------------------------------------------------------------
(* Browser sessions *)

ProfileOf(c) == IF call[c].strategy = "browser" THEN Profile[c] ELSE NoProfile

\* Whether the workspace could be archived (owned plain files, unchanged while they
\* were read, within the bounds), encrypted and put into the vault.
Storing == BOOLEAN

\* Mutant: a second workspace of a profile in use.
LockIgnored(p) == TRUE

\* A threading.Lock of this process, by vault and profile.
LockFree(p) == \A c \in opened : Profile[c] # p

FetchStart(c) ==
    /\ call[c].at = "line"
    /\ TakeStart(c, IF ProfileOf(c) # NoProfile THEN "lock" ELSE "gate")

\* materialize: the lock, a new workspace, the session from the vault.
OpenSession(c) ==
    /\ call[c].at = "lock" /\ LockFree(ProfileOf(c))
    /\ opened' = opened \cup {c}
    /\ call' = [call EXCEPT ![c].at = "gate"]
    /\ UNCHANGED <<line, gap, hold, free, orphans, vault, stale>>

\* No session in the vault, or one that cannot be unpacked: the lock is released.
SessionUnavailable(c) ==
    /\ call[c].at = "lock" /\ LockFree(ProfileOf(c))
    /\ Return(c)
    /\ UNCHANGED <<free, orphans, opened, vault, stale>>

\* The session other workspaces of the profile were made from is not the stored one.
Replaced(p) == {d \in opened : Profile[d] = p}

\* What the browser wrote goes back into the vault, the workspace goes, the lock
\* is free: whatever became of the fetch.
CloseSession(c, stored) ==
    /\ opened' = opened \ {c}
    /\ IF stored /\ c \in opened
       THEN /\ vault' = [vault EXCEPT ![Profile[c]] = "here"]
            /\ stale' = (stale \cup Replaced(Profile[c])) \ {c}
       ELSE /\ stale' = stale \ {c}
            /\ UNCHANGED vault

\* Another process stores its session: no lock keeps it from it.
StoreElsewhere(p) ==
    /\ vault' = [vault EXCEPT ![p] = "elsewhere"]
    /\ stale' = stale \cup Replaced(p)
    /\ UNCHANGED <<call, line, gap, hold, free, orphans, opened>>

-----------------------------------------------------------------------------
(* The gates and the executor *)

Launch(c) ==
    LET g == call[c].strategy IN
    /\ call[c].at = "gate" /\ HasPermit(g)
    /\ free' = [free EXCEPT ![g] = @ - 1]
    /\ call' = [call EXCEPT ![c].at = "flying"]
    /\ UNCHANGED <<line, gap, hold, orphans, opened, vault, stale>>

\* The call returned, or a profile's child process was stopped: the permit is
\* given back.
Answer(c, stored) ==
    LET g == call[c].strategy IN
    /\ call[c].at = "flying"
    /\ Outcome(c)
    /\ free' = [free EXCEPT ![g] = @ + 1]
    /\ CloseSession(c, stored)
    /\ UNCHANGED orphans

\* Mutant: the permit goes back although the thread goes on.
PermitBackAtTimeout(c) ==
    LET g == call[c].strategy IN
    /\ orphans' = [orphans EXCEPT ![g] = @ + 1]
    /\ free' = [free EXCEPT ![g] = @ + 1]

\* A thread that was started cannot be stopped: it keeps its permit.
LeaveThread(c) ==
    LET g == call[c].strategy IN
    /\ orphans' = [orphans EXCEPT ![g] = @ + 1]
    /\ UNCHANGED free

\* _stop_profile_process, and the permit is given back.  So it is for a child that is
\* alive after SIGKILL and the join, which is not counted here.
StopChild(c) ==
    LET g == call[c].strategy IN
    /\ free' = [free EXCEPT ![g] = @ + 1]
    /\ UNCHANGED orphans

\* The outer timeout: of a running thread, or before the gate was passed.
TimeOut(c, stored) ==
    /\ call[c].at \in {"gate", "flying"}
    /\ call[c].at = "flying" => c \notin opened
    /\ FailTransient(c, 0)
    /\ IF call[c].at = "flying" THEN LeaveThread(c) ELSE UNCHANGED <<free, orphans>>
    /\ CloseSession(c, stored)

ThreadEnds(g) ==
    /\ orphans[g] > 0
    /\ orphans' = [orphans EXCEPT ![g] = @ - 1]
    /\ free' = [free EXCEPT ![g] = @ + 1]
    /\ UNCHANGED <<call, line, gap, hold, opened, vault, stale>>

\* CancelledError at any await: out of the line, out of the gate.
Cancel(c, stored) ==
    /\ call[c].at # "idle"
    /\ call' = [call EXCEPT ![c] = Idle(c)]
    /\ line' = [h \in Hosts |-> SelectSeq(line[h], LAMBDA d : d # c)]
    /\ \/ /\ call[c].at = "robots"
          /\ free' = [free EXCEPT !["http"] = @ + 1] /\ UNCHANGED orphans
       \/ call[c].at = "flying" /\ c \in opened /\ StopChild(c)
       \/ call[c].at = "flying" /\ c \notin opened /\ LeaveThread(c)
       \/ call[c].at \notin {"robots", "flying"} /\ UNCHANGED <<free, orphans>>
    /\ CloseSession(c, stored)
    /\ UNCHANGED <<gap, hold>>

Proceed(c) ==
    \/ RobotsStart(c) \/ AskRobots(c) \/ RobotsAnswer(c) \/ FetchStart(c)
    \/ SessionUnavailable(c) \/ Launch(c) \/ Retry(c)
    \/ \E stored \in Storing : Answer(c, stored) \/ TimeOut(c, stored)

Next ==
    \/ \E c \in Calls :
          \/ Begin(c) \/ Proceed(c) \/ OpenSession(c)
          \/ \E stored \in Storing : Cancel(c, stored)
    \/ \E g \in Gates : ThreadEnds(g)
    \/ \E p \in Profiles \ {NoProfile} : StoreElsewhere(p)
    \/ Tick

Spec == Init /\ [][Next]_vars

\* Sleeps and requests end; the lock of a profile is polled every 10 ms and free
\* for much longer than that between two of its fetches, which a start of their
\* host keeps apart.
Fairness ==
    /\ \A c \in Calls : WF_vars(Proceed(c)) /\ SF_vars(OpenSession(c) \/ SessionUnavailable(c))
    /\ WF_vars(Tick)

FairSpec == Spec /\ Fairness

-----------------------------------------------------------------------------
(* Properties *)

InGate(g) ==
    {c \in Calls : \/ g = "http" /\ call[c].at = "robots"
                   \/ call[c].at = "flying" /\ call[c].strategy = g}

\* Requests under way, the threads nobody waits for any more included, never
\* exceed the permits of their gate, and no permit is ever lost.
EgressIsBounded ==
    \A g \in Gates : Cardinality(InGate(g)) + orphans[g] = Capacity[g] - free[g]

\* A session that a fetch has stored is not overwritten by one that was unpacked
\* before it: where a workspace is older than the stored session, that session is
\* another process's.
NoSessionIsLost == \A c \in opened \cap stale : vault[Profile[c]] = "elsewhere"

\* Whatever fails, waits or is redirected, a fetch comes back to its caller.
EveryFetchEnds == \A c \in Calls : call[c].at # "idle" ~> call[c].at = "idle"

=============================================================================
