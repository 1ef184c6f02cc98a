-------------------------- MODULE SourceFetch_proofs --------------------------
(***************************************************************************)
(* The bound of the two egress gates and the safety of the stored browser  *)
(* sessions, for any number of calls, hosts, profiles and permits.         *)
(***************************************************************************)
EXTENDS SourceFetch, FiniteSetTheorems, TLAPS

FetchTypes ==
    /\ call \in [Calls -> CallRow]
    /\ free \in [Gates -> Nat] /\ orphans \in [Gates -> Nat]
    /\ opened \subseteq Calls /\ vault \in [Profiles -> {"here", "elsewhere"}]

\* A permit is out for every call in a gate and for every abandoned thread.
PermitsOut(g) ==
    /\ IsFiniteSet(InGate(g))
    /\ Cardinality(InGate(g)) + orphans[g] = Capacity[g] - free[g]

PermitsAreOut == \A g \in Gates : PermitsOut(g)

\* Who waits for the lock of a profile is a browser fetch.
LocksAreForBrowsers == \A c \in Calls : call[c].at = "lock" => call[c].strategy = "browser"

\* One workspace of a profile at a time in this process: only another one replaces the
\* stored session under an open workspace.
WorkspacesAreExclusive ==
    /\ \A c, d \in opened : Profile[c] = Profile[d] => c = d
    /\ stale \subseteq opened
    /\ NoSessionIsLost

FetchInv == FetchTypes /\ PermitsAreOut /\ LocksAreForBrowsers /\ WorkspacesAreExclusive

-----------------------------------------------------------------------------
(* Rows *)

LEMMA IdleRow ==
    ASSUME NEW c \in Calls
    PROVE  Idle(c) \in CallRow /\ Idle(c).at = "idle"
  BY FetchAssumption DEF Idle, AttemptRow, CallRow, Places

LEMMA AttemptIn ==
    ASSUME NEW c \in Calls, NEW p \in Places, NEW s \in {"http", "browser"},
           NEW n \in Nat \ {0}, NEW o \in Delays
    PROVE  /\ AttemptRow(c, p, s, n, o) \in CallRow
           /\ AttemptRow(c, p, s, n, o).at = p
  BY FetchAssumption DEF AttemptRow, CallRow

LEMMA RowFields ==
    ASSUME NEW r \in CallRow
    PROVE  /\ r.at \in Places /\ r.host \in Hosts /\ r.strategy \in {"http", "browser"}
           /\ r.attempt \in Nat \ {0} /\ r.owed \in Delays
           /\ r.hops \in 0..MaxRedirects /\ r.turns \in 0..MaxRedirects
  BY DEF CallRow

-----------------------------------------------------------------------------
(* Gates *)

\* What a step of one call does to the table of calls.
OnlyMoves(c, row) == call' = [call EXCEPT ![c] = row]

LEMMA GateLeft ==
    ASSUME FetchTypes, NEW c \in Calls, NEW row \in CallRow, OnlyMoves(c, row),
           row.at \notin {"robots", "flying"}, NEW g \in Gates
    PROVE  InGate(g)' = InGate(g) \ {c}
  BY DEF FetchTypes, OnlyMoves, InGate

LEMMA GateEntered ==
    ASSUME FetchTypes, NEW c \in Calls, NEW row \in CallRow, OnlyMoves(c, row),
           call[c].at \notin {"robots", "flying"}, row.at \in {"robots", "flying"},
           NEW g \in Gates
    PROVE  InGate(g)' = IF g = (IF row.at = "robots" THEN "http" ELSE row.strategy)
                        THEN InGate(g) \cup {c} ELSE InGate(g)
  BY DEF FetchTypes, OnlyMoves, InGate, Gates, CallRow

\* The gate a call is in, by its place.
GateOf(row) == IF row.at = "robots" THEN "http" ELSE row.strategy

LEMMA CapacityIsNat == \A g \in Gates : Capacity[g] \in Nat
  BY FetchAssumption DEF Gates, Capacity

LEMMA PermitTaken ==
    ASSUME FetchTypes, NEW g \in Gates, PermitsOut(g), NEW c, c \notin InGate(g),
           InGate(g)' = InGate(g) \cup {c},
           HasPermit(g), free'[g] = free[g] - 1, orphans'[g] = orphans[g]
    PROVE  PermitsOut(g)'
  <1>1. IsFiniteSet(InGate(g)) /\ Cardinality(InGate(g)) \in Nat
    BY FS_CardinalityType DEF PermitsOut
  <1>2. /\ IsFiniteSet(InGate(g) \cup {c})
        /\ Cardinality(InGate(g) \cup {c}) = Cardinality(InGate(g)) + 1
    BY <1>1, FS_AddElement
  <1>3. /\ IsFiniteSet(InGate(g)') /\ Cardinality(InGate(g)') = Cardinality(InGate(g)) + 1
    BY <1>2
  <1>4. free[g] \in Nat /\ orphans[g] \in Nat /\ Capacity[g] \in Nat
    BY CapacityIsNat DEF FetchTypes
  <1> QED
    BY <1>1, <1>3, <1>4 DEF PermitsOut

LEMMA PermitBack ==
    ASSUME FetchTypes, NEW g \in Gates, PermitsOut(g), NEW c, c \in InGate(g),
           InGate(g)' = InGate(g) \ {c},
           \/ free'[g] = free[g] + 1 /\ orphans'[g] = orphans[g]
           \/ free'[g] = free[g] /\ orphans'[g] = orphans[g] + 1
    PROVE  PermitsOut(g)'
  <1>1. IsFiniteSet(InGate(g)) /\ Cardinality(InGate(g)) \in Nat
    BY FS_CardinalityType DEF PermitsOut
  <1>2. /\ IsFiniteSet(InGate(g) \ {c})
        /\ Cardinality(InGate(g) \ {c}) = Cardinality(InGate(g)) - 1
    BY <1>1, FS_RemoveElement
  <1>3. /\ IsFiniteSet(InGate(g)') /\ Cardinality(InGate(g)') = Cardinality(InGate(g)) - 1
    BY <1>2
  <1>4. free[g] \in Nat /\ orphans[g] \in Nat /\ Capacity[g] \in Nat
    BY CapacityIsNat DEF FetchTypes
  <1> QED
    BY <1>1, <1>3, <1>4 DEF PermitsOut

LEMMA PermitsStay ==
    ASSUME NEW g \in Gates, PermitsOut(g), InGate(g)' = InGate(g),
           free'[g] = free[g], orphans'[g] = orphans[g]
    PROVE  PermitsOut(g)'
  BY DEF PermitsOut

\* The three ways a step of a call goes through the gates.
Outside(row) == row.at \notin {"robots", "flying"}

LEMMA CallLeaves ==
    ASSUME FetchTypes, PermitsAreOut, NEW c \in Calls, NEW row \in CallRow, OnlyMoves(c, row),
           Outside(row), ~Outside(call[c]),
           \/ free' = [free EXCEPT ![GateOf(call[c])] = @ + 1] /\ UNCHANGED orphans
           \/ orphans' = [orphans EXCEPT ![GateOf(call[c])] = @ + 1] /\ UNCHANGED free
    PROVE  PermitsAreOut' /\ free' \in [Gates -> Nat] /\ orphans' \in [Gates -> Nat]
  <1> DEFINE h == GateOf(call[c])
  <1>0. h \in Gates
    BY DEF GateOf, FetchTypes, CallRow, Gates
  <1>1. ASSUME NEW g \in Gates
        PROVE  PermitsOut(g)'
    <2>1. InGate(g)' = InGate(g) \ {c}
      BY GateLeft DEF Outside
    <2>2. CASE g = h
      <3>1. c \in InGate(g)
        BY <2>2 DEF InGate, Outside, GateOf, FetchTypes, CallRow
      <3>2. \/ free'[g] = free[g] + 1 /\ orphans'[g] = orphans[g]
            \/ free'[g] = free[g] /\ orphans'[g] = orphans[g] + 1
        BY <2>2 DEF FetchTypes
      <3> QED
        BY <2>1, <3>1, <3>2, PermitBack DEF PermitsAreOut
    <2>3. CASE g # h
      <3>1. c \notin InGate(g)
        BY <2>3 DEF InGate, Outside, GateOf, FetchTypes, CallRow, Gates
      <3>2. InGate(g)' = InGate(g)
        BY <2>1, <3>1
      <3>3. free'[g] = free[g] /\ orphans'[g] = orphans[g]
        BY <2>3 DEF FetchTypes
      <3> QED
        BY <3>2, <3>3, PermitsStay DEF PermitsAreOut
    <2> QED
      BY <2>2, <2>3
  <1>2. free' \in [Gates -> Nat] /\ orphans' \in [Gates -> Nat]
    BY <1>0 DEF FetchTypes
  <1> QED
    BY <1>1, <1>2 DEF PermitsAreOut

LEMMA CallEnters ==
    ASSUME FetchTypes, PermitsAreOut, NEW c \in Calls, NEW row \in CallRow, OnlyMoves(c, row),
           ~Outside(row), Outside(call[c]), HasPermit(GateOf(row)),
           free' = [free EXCEPT ![GateOf(row)] = @ - 1], UNCHANGED orphans
    PROVE  PermitsAreOut' /\ free' \in [Gates -> Nat]
  <1> DEFINE h == GateOf(row)
  <1>0. h \in Gates
    BY DEF GateOf, CallRow, Gates
  <1>1. ASSUME NEW g \in Gates
        PROVE  PermitsOut(g)'
    <2>1. InGate(g)' = IF g = h THEN InGate(g) \cup {c} ELSE InGate(g)
      BY GateEntered DEF Outside, GateOf
    <2>2. CASE g = h
      <3>1. c \notin InGate(g)
        BY DEF InGate, Outside
      <3>2. free'[g] = free[g] - 1 /\ orphans'[g] = orphans[g]
        BY <2>2 DEF FetchTypes
      <3> QED
        BY <2>1, <2>2, <3>1, <3>2, PermitTaken DEF PermitsAreOut
    <2>3. CASE g # h
      <3>1. free'[g] = free[g] /\ orphans'[g] = orphans[g]
        BY <2>3 DEF FetchTypes
      <3> QED
        BY <2>1, <2>3, <3>1, PermitsStay DEF PermitsAreOut
    <2> QED
      BY <2>2, <2>3
  <1>2. free' \in [Gates -> Nat]
    BY <1>0 DEF FetchTypes, HasPermit
  <1> QED
    BY <1>1, <1>2 DEF PermitsAreOut

LEMMA CallStaysOutside ==
    ASSUME FetchTypes, PermitsAreOut, NEW c \in Calls, NEW row \in CallRow, OnlyMoves(c, row),
           Outside(row), Outside(call[c]), UNCHANGED <<free, orphans>>
    PROVE  PermitsAreOut' /\ free' \in [Gates -> Nat] /\ orphans' \in [Gates -> Nat]
  <1>1. ASSUME NEW g \in Gates
        PROVE  PermitsOut(g)'
    <2>1. InGate(g)' = InGate(g) \ {c}
      BY GateLeft DEF Outside
    <2>2. c \notin InGate(g)
      BY DEF InGate, Outside
    <2> QED
      BY <2>1, <2>2, PermitsStay DEF PermitsAreOut
  <1> QED
    BY <1>1 DEF PermitsAreOut, FetchTypes

-----------------------------------------------------------------------------
(* Sessions *)

\* What a step of a call has to keep of the sessions.
SessionsAreGood ==
    /\ opened \subseteq Calls /\ vault \in [Profiles -> {"here", "elsewhere"}]
    /\ WorkspacesAreExclusive

LEMMA SessionsKept ==
    ASSUME SessionsAreGood, UNCHANGED <<opened, vault, stale>>
    PROVE  SessionsAreGood'
  BY DEF SessionsAreGood, WorkspacesAreExclusive, NoSessionIsLost

LEMMA SessionClosed ==
    ASSUME SessionsAreGood, NEW c \in Calls, NEW stored \in BOOLEAN,
           CloseSession(c, stored)
    PROVE  SessionsAreGood'
  <1> USE DEF SessionsAreGood, WorkspacesAreExclusive, NoSessionIsLost
  <1>1. opened' = opened \ {c} /\ \A d \in Calls : Profile[d] \in Profiles
    BY DEF CloseSession, Profiles
  <1>2. CASE stored /\ c \in opened
    <2>1. /\ vault' = [vault EXCEPT ![Profile[c]] = "here"]
          /\ stale' = (stale \cup Replaced(Profile[c])) \ {c}
      BY <1>2 DEF CloseSession
    <2>2. Replaced(Profile[c]) \subseteq {c}
      BY <1>2 DEF Replaced
    <2>3. \A d \in opened' : vault'[Profile[d]] = vault[Profile[d]]
      BY <1>1, <1>2, <2>1
    <2> QED
      BY <1>1, <2>1, <2>2, <2>3
  <1>3. CASE ~(stored /\ c \in opened)
    <2>1. stale' = stale \ {c} /\ vault' = vault
      BY <1>3 DEF CloseSession
    <2> QED
      BY <1>1, <2>1
  <1> QED
    BY <1>2, <1>3

LEMMA ReplacedElsewhere ==
    ASSUME SessionsAreGood, NEW p \in Profiles, StoreElsewhere(p)
    PROVE  SessionsAreGood'
  <1> USE DEF SessionsAreGood, WorkspacesAreExclusive, NoSessionIsLost
  <1>1. /\ vault' = [vault EXCEPT ![p] = "elsewhere"] /\ opened' = opened
        /\ stale' = stale \cup {d \in opened : Profile[d] = p}
    BY DEF StoreElsewhere, Replaced
  <1>2. \A d \in Calls : Profile[d] \in Profiles
    BY DEF Profiles
  <1>3. \A d \in opened : vault'[Profile[d]] \in {vault[Profile[d]], "elsewhere"}
    BY <1>1, <1>2
  <1>4. \A d \in opened : Profile[d] = p => vault'[Profile[d]] = "elsewhere"
    BY <1>1
  <1> QED
    BY <1>1, <1>3, <1>4

-----------------------------------------------------------------------------
(* The step of a call *)

\* What is left to show of a step that gives one call a new row.
GoodRow(row) == row \in CallRow /\ (row.at = "lock" => row.strategy = "browser")

LEMMA Together ==
    ASSUME FetchInv, NEW c \in Calls, NEW row, GoodRow(row), OnlyMoves(c, row),
           PermitsAreOut', free' \in [Gates -> Nat], orphans' \in [Gates -> Nat],
           SessionsAreGood'
    PROVE  FetchInv'
  <1>1. FetchTypes'
    BY DEF FetchInv, FetchTypes, GoodRow, OnlyMoves, SessionsAreGood
  <1>2. LocksAreForBrowsers'
    BY DEF FetchInv, FetchTypes, GoodRow, OnlyMoves, LocksAreForBrowsers
  <1> QED
    BY <1>1, <1>2 DEF FetchInv, SessionsAreGood

LEMMA Waits ==
    ASSUME FetchInv, NEW c \in Calls, NEW row, GoodRow(row), OnlyMoves(c, row),
           Outside(row), Outside(call[c]), UNCHANGED <<free, orphans>>,
           SessionsAreGood'
    PROVE  FetchInv'
  <1>1. PermitsAreOut' /\ free' \in [Gates -> Nat] /\ orphans' \in [Gates -> Nat]
    BY CallStaysOutside DEF FetchInv, GoodRow
  <1> QED
    BY <1>1, Together

LEMMA Leaves ==
    ASSUME FetchInv, NEW c \in Calls, NEW row, GoodRow(row), OnlyMoves(c, row),
           Outside(row), ~Outside(call[c]),
           \/ free' = [free EXCEPT ![GateOf(call[c])] = @ + 1] /\ UNCHANGED orphans
           \/ orphans' = [orphans EXCEPT ![GateOf(call[c])] = @ + 1] /\ UNCHANGED free,
           SessionsAreGood'
    PROVE  FetchInv'
  <1>1. PermitsAreOut' /\ free' \in [Gates -> Nat] /\ orphans' \in [Gates -> Nat]
    BY CallLeaves DEF FetchInv, GoodRow
  <1> QED
    BY <1>1, Together

LEMMA Enters ==
    ASSUME FetchInv, NEW c \in Calls, NEW row, GoodRow(row), OnlyMoves(c, row),
           ~Outside(row), Outside(call[c]), HasPermit(GateOf(row)),
           free' = [free EXCEPT ![GateOf(row)] = @ - 1],
           UNCHANGED <<orphans, opened, vault, stale>>
    PROVE  FetchInv'
  <1>1. PermitsAreOut' /\ free' \in [Gates -> Nat]
    BY CallEnters DEF FetchInv, GoodRow
  <1>2. SessionsAreGood' /\ orphans' \in [Gates -> Nat]
    BY SessionsKept DEF FetchInv, FetchTypes, SessionsAreGood
  <1> QED
    BY <1>1, <1>2, Together

-----------------------------------------------------------------------------
(* Rows that the actions make *)

Waiting == {"robotsLine", "line", "backoff"}

LEMMA WaitingIsGood ==
    ASSUME NEW r \in CallRow, r.at \in Waiting
    PROVE  GoodRow(r) /\ Outside(r)
  BY DEF GoodRow, Outside, Waiting

LEMMA IdleIsGood ==
    ASSUME NEW c \in Calls
    PROVE  GoodRow(Idle(c)) /\ Outside(Idle(c))
  BY IdleRow DEF GoodRow, Outside

LEMMA Moved ==
    ASSUME NEW r \in CallRow, NEW p \in Places
    PROVE  LET q == [r EXCEPT !.at = p]
           IN  q \in CallRow /\ q.at = p /\ q.strategy = r.strategy
  BY DEF CallRow

LEMMA MovedFree ==
    ASSUME NEW r \in CallRow, NEW p \in Places
    PROVE  LET q == [r EXCEPT !.at = p, !.owed = 0]
           IN  q \in CallRow /\ q.at = p /\ q.strategy = r.strategy
  BY FetchAssumption DEF CallRow

LEMMA ReturnMoves ==
    ASSUME NEW c \in Calls, Return(c)
    PROVE  \E row : GoodRow(row) /\ Outside(row) /\ OnlyMoves(c, row)
  BY IdleIsGood DEF Return, OnlyMoves

LEMMA FailMoves ==
    ASSUME FetchTypes, NEW c \in Calls, NEW owed \in Delays, FailTransient(c, owed)
    PROVE  \E row : GoodRow(row) /\ Outside(row) /\ OnlyMoves(c, row)
  <1>1. CASE MayRetry(c)
    <2> DEFINE row == AttemptRow(c, "backoff", call[c].strategy, call[c].attempt, owed)
    <2>1. call[c] \in CallRow
      BY DEF FetchTypes
    <2>2. row \in CallRow /\ row.at = "backoff"
      BY <2>1, AttemptIn, RowFields DEF Places
    <2>3. GoodRow(row) /\ Outside(row)
      BY <2>2, WaitingIsGood DEF Waiting
    <2> QED
      BY <1>1, <2>3 DEF FailTransient, OnlyMoves
  <1>2. CASE ~MayRetry(c)
    BY <1>2, ReturnMoves DEF FailTransient
  <1> QED
    BY <1>1, <1>2

LEMMA RedirectMoves ==
    ASSUME FetchTypes, NEW c \in Calls, NEW h \in Hosts, Redirect(c, h)
    PROVE  \E row : GoodRow(row) /\ Outside(row) /\ OnlyMoves(c, row)
  <1> DEFINE r == [call[c] EXCEPT !.host = h, !.hops = @ + 1]
             row == [r EXCEPT !.at = "robotsLine", !.turns = 0]
  <1>1. call[c] \in CallRow /\ call[c].hops < MaxRedirects
    BY DEF FetchTypes, Redirect
  <1>2. call[c].hops + 1 \in 0..MaxRedirects /\ 0 \in 0..MaxRedirects
    BY <1>1, FetchAssumption, RowFields
  <1>3. r \in CallRow
    BY <1>1, <1>2 DEF CallRow
  <1> HIDE DEF r
  <1>4. row \in CallRow /\ row.at = "robotsLine"
    BY <1>2, <1>3 DEF CallRow, Places
  <1>5. GoodRow(row) /\ Outside(row)
    BY <1>4, WaitingIsGood DEF Waiting
  <1> QED
    BY <1>5 DEF Redirect, Queue, OnlyMoves, r

LEMMA FallbackMoves ==
    ASSUME NEW c \in Calls, Fallback(c)
    PROVE  \E row : GoodRow(row) /\ Outside(row) /\ OnlyMoves(c, row)
  <1> DEFINE row == AttemptRow(c, "robotsLine", "browser", 1, 0)
  <1>1. row \in CallRow /\ row.at = "robotsLine"
    BY AttemptIn, FetchAssumption DEF Places
  <1>2. GoodRow(row) /\ Outside(row)
    BY <1>1, WaitingIsGood DEF Waiting
  <1> QED
    BY <1>2 DEF Fallback, Queue, OnlyMoves

LEMMA OutcomeMoves ==
    ASSUME FetchTypes, NEW c \in Calls, Outcome(c)
    PROVE  \E row : GoodRow(row) /\ Outside(row) /\ OnlyMoves(c, row)
  BY ReturnMoves, FailMoves, RedirectMoves, FallbackMoves DEF Outcome

-----------------------------------------------------------------------------
(* The actions of a call *)

LEMMA BeginKeeps ==
    ASSUME FetchInv, NEW c \in Calls, Begin(c)
    PROVE  FetchInv'
  <1> DEFINE strategy == IF Kind[c] = "dynamic" THEN "browser" ELSE "http"
             row == AttemptRow(c, "robotsLine", strategy, 1, 0)
  <1>1. row \in CallRow /\ row.at = "robotsLine"
    BY AttemptIn, FetchAssumption DEF Places
  <1>2. GoodRow(row) /\ Outside(row)
    BY <1>1, WaitingIsGood DEF Waiting
  <1>3. OnlyMoves(c, row) /\ Outside(call[c]) /\ UNCHANGED <<free, orphans, opened, vault, stale>>
    BY DEF Begin, Queue, OnlyMoves, Outside
  <1>4. SessionsAreGood'
    BY <1>3, SessionsKept DEF FetchInv, FetchTypes, SessionsAreGood
  <1> HIDE DEF row
  <1> QED
    BY <1>2, <1>3, <1>4, Waits

LEMMA RetryKeeps ==
    ASSUME FetchInv, NEW c \in Calls, Retry(c)
    PROVE  FetchInv'
  <1> DEFINE n == IF call[c].attempt < Attempts[c] THEN call[c].attempt + 1 ELSE call[c].attempt
             row == [call[c] EXCEPT !.at = "robotsLine", !.attempt = n]
  <1>1. call[c] \in CallRow
    BY DEF FetchInv, FetchTypes
  <1>2. n \in Nat \ {0}
    BY <1>1, RowFields, FetchAssumption
  <1> HIDE DEF n
  <1>3. row \in CallRow /\ row.at = "robotsLine"
    BY <1>1, <1>2 DEF CallRow, Places
  <1>4. GoodRow(row) /\ Outside(row)
    BY <1>3, WaitingIsGood DEF Waiting
  <1>5. OnlyMoves(c, row) /\ Outside(call[c]) /\ UNCHANGED <<free, orphans, opened, vault, stale>>
    BY <1>1 DEF Retry, Queue, OnlyMoves, Outside, CallRow, n
  <1>6. SessionsAreGood'
    BY <1>5, SessionsKept DEF FetchInv, FetchTypes, SessionsAreGood
  <1> HIDE DEF row
  <1> QED
    BY <1>4, <1>5, <1>6, Waits

\* The start of a host lets a call pass to the next place.
LEMMA StartKeeps ==
    ASSUME FetchInv, NEW c \in Calls, NEW p \in {"robotsGate", "lock", "gate"},
           p = "lock" => call[c].strategy = "browser", TakeStart(c, p)
    PROVE  FetchInv'
  <1> DEFINE row == [call[c] EXCEPT !.at = p, !.owed = 0]
  <1>1. call[c] \in CallRow
    BY DEF FetchInv, FetchTypes
  <1>p. p \in Places
    BY DEF Places
  <1>2. row \in CallRow /\ row.at = p /\ row.strategy = call[c].strategy
    BY <1>1, <1>p, MovedFree
  <1>3. GoodRow(row) /\ Outside(row)
    BY <1>2 DEF GoodRow, Outside
  <1>4. OnlyMoves(c, row) /\ Outside(call[c]) /\ UNCHANGED <<free, orphans, opened, vault, stale>>
    BY <1>1 DEF TakeStart, HasStart, OnlyMoves, Outside
  <1>5. SessionsAreGood'
    BY <1>4, SessionsKept DEF FetchInv, FetchTypes, SessionsAreGood
  <1> HIDE DEF row
  <1> QED
    BY <1>3, <1>4, <1>5, Waits

LEMMA StartsKeep ==
    ASSUME FetchInv, NEW c \in Calls, RobotsStart(c) \/ FetchStart(c)
    PROVE  FetchInv'
  <1>1. CASE RobotsStart(c)
    BY <1>1, StartKeeps DEF RobotsStart
  <1>2. CASE FetchStart(c)
    BY <1>2, StartKeeps DEF FetchStart, ProfileOf
  <1> QED
    BY <1>1, <1>2

LEMMA AskRobotsKeeps ==
    ASSUME FetchInv, NEW c \in Calls, AskRobots(c)
    PROVE  FetchInv'
  <1> DEFINE row == [call[c] EXCEPT !.at = "robots"]
  <1>1. call[c] \in CallRow
    BY DEF FetchInv, FetchTypes
  <1>2. row \in CallRow /\ row.at = "robots"
    BY <1>1, Moved DEF Places
  <1>3. GoodRow(row) /\ ~Outside(row) /\ GateOf(row) = "http"
    BY <1>2 DEF GoodRow, Outside, GateOf
  <1>4. OnlyMoves(c, row) /\ Outside(call[c]) /\ UNCHANGED <<orphans, opened, vault, stale>>
    BY <1>1 DEF AskRobots, OnlyMoves, Outside
  <1> HIDE DEF row
  <1> QED
    BY <1>3, <1>4, Enters DEF AskRobots

LEMMA LaunchKeeps ==
    ASSUME FetchInv, NEW c \in Calls, Launch(c)
    PROVE  FetchInv'
  <1> DEFINE row == [call[c] EXCEPT !.at = "flying"]
  <1>1. call[c] \in CallRow
    BY DEF FetchInv, FetchTypes
  <1>2. row \in CallRow /\ row.at = "flying" /\ row.strategy = call[c].strategy
    BY <1>1, Moved DEF Places
  <1>3. GoodRow(row) /\ ~Outside(row) /\ GateOf(row) = call[c].strategy
    BY <1>2 DEF GoodRow, Outside, GateOf
  <1>4. OnlyMoves(c, row) /\ Outside(call[c]) /\ UNCHANGED <<orphans, opened, vault, stale>>
    BY <1>1 DEF Launch, OnlyMoves, Outside
  <1> HIDE DEF row
  <1> QED
    BY <1>3, <1>4, Enters DEF Launch

LEMMA OpenSessionKeeps ==
    ASSUME FetchInv, NEW c \in Calls, OpenSession(c)
    PROVE  FetchInv'
  <1> DEFINE row == [call[c] EXCEPT !.at = "gate"]
  <1>1. call[c] \in CallRow /\ call[c].strategy = "browser"
    BY DEF FetchInv, FetchTypes, OpenSession, LocksAreForBrowsers
  <1>2. row \in CallRow /\ row.at = "gate"
    BY <1>1, Moved DEF Places
  <1>3. GoodRow(row) /\ Outside(row)
    BY <1>2 DEF GoodRow, Outside
  <1>4. OnlyMoves(c, row) /\ Outside(call[c]) /\ UNCHANGED <<free, orphans, vault, stale>>
    BY <1>1 DEF OpenSession, OnlyMoves, Outside
  <1>5. opened' = opened \cup {c} /\ \A d \in opened : Profile[d] # Profile[c]
    BY <1>1 DEF OpenSession, LockFree, ProfileOf
  <1>6. SessionsAreGood'
    <2>1. c \notin opened
      BY <1>5
    <2>2. \A d \in opened' \cap stale' : d \in opened /\ d \in stale
      BY <1>4, <1>5, <2>1 DEF FetchInv, WorkspacesAreExclusive
    <2> QED
      BY <1>4, <1>5, <2>1, <2>2
      DEF FetchInv, FetchTypes, SessionsAreGood, WorkspacesAreExclusive, NoSessionIsLost
  <1> HIDE DEF row
  <1> QED
    BY <1>3, <1>4, <1>6, Waits

LEMMA SessionUnavailableKeeps ==
    ASSUME FetchInv, NEW c \in Calls, SessionUnavailable(c)
    PROVE  FetchInv'
  <1>1. PICK row : GoodRow(row) /\ Outside(row) /\ OnlyMoves(c, row)
    BY ReturnMoves DEF SessionUnavailable
  <1>2. Outside(call[c]) /\ UNCHANGED <<free, orphans, opened, vault, stale>>
    BY DEF SessionUnavailable, Outside
  <1>3. SessionsAreGood'
    BY <1>2, SessionsKept DEF FetchInv, FetchTypes, SessionsAreGood
  <1> QED
    BY <1>1, <1>2, <1>3, Waits

LEMMA RobotsAnswerKeeps ==
    ASSUME FetchInv, NEW c \in Calls, RobotsAnswer(c)
    PROVE  FetchInv'
  <1>1. call[c] \in CallRow
    BY DEF FetchInv, FetchTypes
  <1>2. \E row : GoodRow(row) /\ Outside(row) /\ OnlyMoves(c, row)
    <2>1. ASSUME NEW delay \in Delays,
                 Queue(c, [call[c] EXCEPT !.at = "line", !.owed = delay])
          PROVE  \E row : GoodRow(row) /\ Outside(row) /\ OnlyMoves(c, row)
      <3> DEFINE row == [call[c] EXCEPT !.at = "line", !.owed = delay]
      <3>1. row \in CallRow /\ row.at = "line"
        BY <1>1 DEF CallRow, Places
      <3>2. GoodRow(row) /\ Outside(row)
        BY <3>1, WaitingIsGood DEF Waiting
      <3> QED
        BY <2>1, <3>2 DEF Queue, OnlyMoves
    <2>2. CASE Return(c)
      BY <2>2, ReturnMoves
    <2>3. CASE /\ call[c].turns < MaxRedirects
               /\ Queue(c, [call[c] EXCEPT !.at = "robotsLine", !.turns = @ + 1])
      <3> DEFINE row == [call[c] EXCEPT !.at = "robotsLine", !.turns = @ + 1]
      <3>1. call[c].turns + 1 \in 0..MaxRedirects
        BY <1>1, <2>3, RowFields, FetchAssumption
      <3>2. row \in CallRow /\ row.at = "robotsLine"
        BY <1>1, <3>1 DEF CallRow, Places
      <3>3. GoodRow(row) /\ Outside(row)
        BY <3>2, WaitingIsGood DEF Waiting
      <3> QED
        BY <2>3, <3>3 DEF Queue, OnlyMoves
    <2> QED
      BY <2>1, <2>2, <2>3 DEF RobotsAnswer
  <1>3. SessionsAreGood' /\ UNCHANGED orphans
    BY SessionsKept DEF RobotsAnswer, FetchInv, FetchTypes, SessionsAreGood
  <1>4. CASE call[c].at = "robots"
    <2>1. ~Outside(call[c]) /\ GateOf(call[c]) = "http"
      BY <1>4 DEF Outside, GateOf
    <2>2. free' = [free EXCEPT ![GateOf(call[c])] = @ + 1]
      BY <1>4, <2>1 DEF RobotsAnswer
    <2> QED
      BY <1>2, <1>3, <2>1, <2>2, Leaves
  <1>5. CASE call[c].at = "robotsGate"
    <2>1. Outside(call[c]) /\ UNCHANGED free
      BY <1>5 DEF RobotsAnswer, Outside
    <2> QED
      BY <1>2, <1>3, <2>1, Waits
  <1> QED
    BY <1>4, <1>5 DEF RobotsAnswer

LEMMA AnswerKeeps ==
    ASSUME FetchInv, NEW c \in Calls, NEW stored \in BOOLEAN, Answer(c, stored)
    PROVE  FetchInv'
  <1>1. \E row : GoodRow(row) /\ Outside(row) /\ OnlyMoves(c, row)
    BY OutcomeMoves DEF Answer, FetchInv
  <1>2. SessionsAreGood'
    BY SessionClosed DEF Answer, FetchInv, FetchTypes, SessionsAreGood
  <1>3. ~Outside(call[c]) /\ GateOf(call[c]) = call[c].strategy
    BY DEF Answer, Outside, GateOf
  <1>4. free' = [free EXCEPT ![GateOf(call[c])] = @ + 1] /\ UNCHANGED orphans
    BY <1>3 DEF Answer
  <1> QED
    BY <1>1, <1>2, <1>3, <1>4, Leaves

LEMMA TimeOutKeeps ==
    ASSUME FetchInv, NEW c \in Calls, NEW stored \in BOOLEAN, TimeOut(c, stored)
    PROVE  FetchInv'
  <1>1. \E row : GoodRow(row) /\ Outside(row) /\ OnlyMoves(c, row)
    BY FailMoves, FetchAssumption DEF TimeOut, FetchInv
  <1>2. SessionsAreGood'
    BY SessionClosed DEF TimeOut, FetchInv, FetchTypes, SessionsAreGood
  <1>3. CASE call[c].at = "flying"
    <2>1. ~Outside(call[c]) /\ GateOf(call[c]) = call[c].strategy
      BY <1>3 DEF Outside, GateOf
    <2>2. orphans' = [orphans EXCEPT ![GateOf(call[c])] = @ + 1] /\ UNCHANGED free
      BY <1>3, <2>1 DEF TimeOut, LeaveThread
    <2> QED
      BY <1>1, <1>2, <2>1, <2>2, Leaves
  <1>4. CASE call[c].at = "gate"
    <2>1. Outside(call[c]) /\ UNCHANGED <<free, orphans>>
      BY <1>4 DEF TimeOut, Outside
    <2> QED
      BY <1>1, <1>2, <2>1, Waits
  <1> QED
    BY <1>3, <1>4 DEF TimeOut

LEMMA CancelKeeps ==
    ASSUME FetchInv, NEW c \in Calls, NEW stored \in BOOLEAN, Cancel(c, stored)
    PROVE  FetchInv'
  <1>1. GoodRow(Idle(c)) /\ Outside(Idle(c)) /\ OnlyMoves(c, Idle(c))
    BY IdleIsGood DEF Cancel, OnlyMoves
  <1>2. SessionsAreGood'
    BY SessionClosed DEF Cancel, FetchInv, FetchTypes, SessionsAreGood
  <1>3. CASE call[c].at = "robots"
    <2>1. ~Outside(call[c]) /\ GateOf(call[c]) = "http"
      BY <1>3 DEF Outside, GateOf
    <2>2. free' = [free EXCEPT ![GateOf(call[c])] = @ + 1] /\ UNCHANGED orphans
      BY <1>3, <2>1 DEF Cancel
    <2> QED
      BY <1>1, <1>2, <2>1, <2>2, Leaves
  <1>4. CASE call[c].at = "flying"
    <2>1. ~Outside(call[c]) /\ GateOf(call[c]) = call[c].strategy
      BY <1>4 DEF Outside, GateOf
    <2>2. \/ free' = [free EXCEPT ![GateOf(call[c])] = @ + 1] /\ UNCHANGED orphans
          \/ orphans' = [orphans EXCEPT ![GateOf(call[c])] = @ + 1] /\ UNCHANGED free
      BY <1>4, <2>1 DEF Cancel, StopChild, LeaveThread
    <2> QED
      BY <1>1, <1>2, <2>1, <2>2, Leaves
  <1>5. CASE Outside(call[c])
    <2>1. UNCHANGED <<free, orphans>>
      BY <1>5 DEF Cancel, Outside
    <2> QED
      BY <1>1, <1>2, <1>5, <2>1, Waits
  <1> QED
    BY <1>3, <1>4, <1>5 DEF Outside

-----------------------------------------------------------------------------
(* The step *)

LEMMA GatesSame ==
    ASSUME FetchInv, UNCHANGED call, SessionsAreGood',
           free' \in [Gates -> Nat], orphans' \in [Gates -> Nat],
           \A g \in Gates : orphans'[g] + free'[g] = orphans[g] + free[g]
    PROVE  FetchInv'
  <1>1. \A g \in Gates : InGate(g)' = InGate(g)
    BY DEF InGate
  <1>2. ASSUME NEW g \in Gates
        PROVE  PermitsOut(g)'
    <2>1. IsFiniteSet(InGate(g)) /\ Cardinality(InGate(g)) \in Nat
      BY FS_CardinalityType DEF FetchInv, PermitsAreOut, PermitsOut
    <2>2. /\ IsFiniteSet(InGate(g)') /\ Cardinality(InGate(g)') = Cardinality(InGate(g))
      BY <1>1, <2>1
    <2>3. /\ free[g] \in Nat /\ orphans[g] \in Nat /\ Capacity[g] \in Nat
          /\ free'[g] \in Nat /\ orphans'[g] \in Nat
          /\ Cardinality(InGate(g)) + orphans[g] = Capacity[g] - free[g]
          /\ orphans'[g] + free'[g] = orphans[g] + free[g]
      BY CapacityIsNat DEF FetchInv, FetchTypes, PermitsAreOut, PermitsOut
    <2> QED
      BY <2>1, <2>2, <2>3 DEF PermitsOut
  <1>3. FetchTypes' /\ LocksAreForBrowsers' /\ WorkspacesAreExclusive'
    BY DEF FetchInv, FetchTypes, LocksAreForBrowsers, SessionsAreGood
  <1> QED
    BY <1>2, <1>3 DEF FetchInv, PermitsAreOut

LEMMA ThreadEndsKeeps ==
    ASSUME FetchInv, NEW g \in Gates, ThreadEnds(g)
    PROVE  FetchInv'
  <1>1. /\ free' \in [Gates -> Nat] /\ orphans' \in [Gates -> Nat]
        /\ \A h \in Gates : orphans'[h] + free'[h] = orphans[h] + free[h]
    BY DEF ThreadEnds, FetchInv, FetchTypes
  <1>2. SessionsAreGood'
    BY SessionsKept DEF ThreadEnds, FetchInv, FetchTypes, SessionsAreGood
  <1> QED
    BY <1>1, <1>2, GatesSame DEF ThreadEnds

LEMMA FetchUntouched ==
    ASSUME FetchInv, UNCHANGED <<call, free, orphans, opened, vault, stale>>
    PROVE  FetchInv'
  BY GatesSame, SessionsKept DEF FetchInv, FetchTypes, SessionsAreGood

LEMMA StoreElsewhereKeeps ==
    ASSUME FetchInv, NEW p \in Profiles, StoreElsewhere(p)
    PROVE  FetchInv'
  <1>1. SessionsAreGood'
    BY ReplacedElsewhere DEF FetchInv, FetchTypes, SessionsAreGood
  <1> QED
    BY <1>1, GatesSame DEF FetchInv, FetchTypes, StoreElsewhere

LEMMA FetchStep ==
    ASSUME FetchInv, [Next]_vars
    PROVE  FetchInv'
  <1>1. CASE UNCHANGED vars
    BY <1>1, FetchUntouched DEF vars
  <1>2. CASE Tick
    BY <1>2, FetchUntouched DEF Tick
  <1>3. ASSUME NEW g \in Gates, ThreadEnds(g)
        PROVE  FetchInv'
    BY <1>3, ThreadEndsKeeps
  <1>4. ASSUME NEW c \in Calls, Begin(c) \/ Proceed(c) \/ OpenSession(c)
        PROVE  FetchInv'
    BY <1>4, BeginKeeps, OpenSessionKeeps, StartsKeep, AskRobotsKeeps, RobotsAnswerKeeps,
       SessionUnavailableKeeps, LaunchKeeps, RetryKeeps, AnswerKeeps, TimeOutKeeps
    DEF Proceed, Storing
  <1>5. ASSUME NEW c \in Calls, NEW stored \in Storing, Cancel(c, stored)
        PROVE  FetchInv'
    BY <1>5, CancelKeeps DEF Storing
  <1>6. ASSUME NEW p \in Profiles, StoreElsewhere(p)
        PROVE  FetchInv'
    BY <1>6, StoreElsewhereKeeps
  <1> QED
    BY <1>1, <1>2, <1>3, <1>4, <1>5, <1>6 DEF Next

LEMMA FetchInitial == Init => FetchInv
  <1> SUFFICES ASSUME Init PROVE FetchInv
    OBVIOUS
  <1>1. FetchTypes
    BY IdleRow, CapacityIsNat DEF Init, FetchTypes, Gates, Capacity
  <1>2. ASSUME NEW g \in Gates
        PROVE  PermitsOut(g)
    <2>1. InGate(g) = {}
      BY IdleRow DEF Init, InGate
    <2>2. free[g] = Capacity[g] /\ orphans[g] = 0 /\ Capacity[g] \in Nat
      BY CapacityIsNat DEF Init
    <2> QED
      BY <2>1, <2>2, FS_EmptySet DEF PermitsOut
  <1>3. LocksAreForBrowsers /\ WorkspacesAreExclusive
    BY IdleRow DEF Init, LocksAreForBrowsers, WorkspacesAreExclusive, NoSessionIsLost
  <1> QED
    BY <1>1, <1>2, <1>3 DEF FetchInv, PermitsAreOut

LEMMA FetchInvariant == Spec => []FetchInv
  <1>1. FetchInv /\ [Next]_vars => FetchInv'
    BY FetchStep
  <1> QED
    BY <1>1, FetchInitial, PTL DEF Spec

-----------------------------------------------------------------------------
(* Results *)

\* However many fetches time out, are cancelled or follow redirects, the calls in
\* a gate and the threads left behind never need more than its permits, and each
\* permit comes back (ScraplingBackend._fetch, _run_blocking).
THEOREM PermitsAreKept == Spec => []EgressIsBounded
  <1>1. FetchInv => EgressIsBounded
    BY DEF FetchInv, PermitsAreOut, PermitsOut, EgressIsBounded
  <1> QED
    BY <1>1, FetchInvariant, PTL

\* A browser session that a fetch of the process has stored is never replaced by one
\* that the process unpacked before; what an older workspace replaces is at most a
\* session that another process stored meanwhile (BrowserProfileStore.materialize).
THEOREM SessionsAreKept == Spec => []NoSessionIsLost
  <1>1. FetchInv => NoSessionIsLost
    BY DEF FetchInv, WorkspacesAreExclusive
  <1> QED
    BY <1>1, FetchInvariant, PTL

=============================================================================
