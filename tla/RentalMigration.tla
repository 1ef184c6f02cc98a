--------------------------- MODULE RentalMigration ---------------------------
(***************************************************************************)
(* migration/import_rental.py and migration/shadow.py: the one-off import  *)
(* of the legacy state, the daily comparison of both programs, the         *)
(* duplicate probe, and the gate an operator asks before the rental        *)
(* monitor of the new program takes over.  Legacy jobs go on meanwhile.    *)
(* Days are counted back from today; Streak stands for the code's seven.   *)
(***************************************************************************)
EXTENDS LegacyMonitor

CONSTANT Streak   \* matched dates cutover_ready asks for (7)

ASSUME MigrationAssumption == Streak \in Nat \ {0}

VARIABLES
    importer,  \* the import command
    target,    \* the new program's database, as far as the import writes it
    results,   \* rental_shadow_results, by days back
    probe,     \* the row of rental_duplicate_probe_results
    mode,      \* which program is in charge
    agreed,    \* history: dates before today, one after the other, that matched
    agrees,    \* history: the last comparison of today matched
    shadowed   \* history: notices of a matched comparison

migrationVars == <<importer, target, results, probe, mode, agreed, agrees, shadowed>>
vars == <<legacyVars, migrationVars>>

Days == 0..Streak
Outcomes == {"none", "match", "differ"}

\* by: who created the database; keys: rows of the outbox, owed: those not marked
\* delivered; from: deliveries of the imported source.
NoTarget == [by |-> "nobody", known |-> {}, keys |-> {}, owed |-> {}, from |-> {}]

NoImport == [at |-> "off", seen |-> {}, delivered |-> {}]

\* day: 2 stands for every earlier day; passed is FALSE for a missing row.
NoProbe == [day |-> 2, passed |-> FALSE]

RentalTypeOK ==
    /\ LegacyTypeOK
    /\ importer \in [at : {"off", "mapping", "staged"},
                     seen : SUBSET Notices, delivered : SUBSET Notices]
    /\ target \in [by : {"nobody", "service", "import"}, known : SUBSET Notices,
                   keys : SUBSET Notices, owed : SUBSET Notices, from : SUBSET Notices]
    /\ results \in [Days -> Outcomes]
    /\ probe \in [day : 0..2, passed : BOOLEAN]
    /\ mode \in {"legacy", "new"}
    /\ agreed \in 0..Streak /\ agrees \in BOOLEAN /\ shadowed \subseteq Notices

Init ==
    /\ LegacyInit
    /\ importer = NoImport /\ target = NoTarget
    /\ results = [d \in Days |-> "none"] /\ probe = NoProbe
    /\ mode = "legacy"
    /\ agreed = 0 /\ agrees = FALSE /\ shadowed = {}

\* The three collectors of the new program, each in a thread of its own.
Batch(ok) == Collected(ok)

-----------------------------------------------------------------------------
(* import_rental_state *)

\* Rows of both tables that pass the validators; a delivery names a seen notice, and
\* one without a message is older than the first run.
Importable(db) ==
    /\ db.delivered \subseteq db.seen
    /\ baseline \cap db.delivered # {} => db.ran

\* The copy the operator made of the branch, closed and unchanged while it is read.
ReadSource ==
    /\ mode = "legacy" /\ importer.at = "off" /\ target.by # "import"
    /\ Importable(branch)
    /\ importer' = [at |-> "mapping", seen |-> branch.seen, delivered |-> branch.delivered]
    /\ UNCHANGED <<legacyVars, target, results, probe, mode, agreed, agrees, shadowed>>

\* _open_staged_target and _map_target: all rows in one transaction of a file nobody
\* else sees.
MapStaged ==
    /\ importer.at = "mapping" /\ target.by = "nobody"
    /\ importer' = [importer EXCEPT !.at = "staged"]
    /\ UNCHANGED <<legacyVars, target, results, probe, mode, agreed, agrees, shadowed>>

\* The user the service created has not the source's created_at: the aggregate
\* conflicts.  (So it does for a second import, unless the source is the same: that
\* one finds every row present, and neither changes anything.)
Refused ==
    /\ importer.at = "mapping" /\ target.by = "service"
    /\ importer' = NoImport
    /\ UNCHANGED <<legacyVars, target, results, probe, mode, agreed, agrees, shadowed>>

\* Mutant: the delivered rows are left out.
ObservationsOnly(seen, delivered) ==
    [by |-> "import", known |-> seen, keys |-> {}, owed |-> {}, from |-> delivered]

\* Every delivery is a delivered outbox row, under the key the runner would give it.
OutboxKeys(delivered) == delivered

\* Every announcement is an observation.
Mapped(seen, delivered) ==
    [by |-> "import", known |-> seen, keys |-> OutboxKeys(delivered), owed |-> {},
     from |-> delivered]

\* finish: link fails when the path exists by now, and the next attempt opens what
\* it finds there.
PublishTarget ==
    /\ importer.at = "staged"
    /\ IF target.by = "nobody"
       THEN /\ target' = Mapped(importer.seen, importer.delivered)
            /\ importer' = NoImport
       ELSE /\ importer' = [importer EXCEPT !.at = "mapping"]
            /\ UNCHANGED target
    /\ UNCHANGED <<legacyVars, results, probe, mode, agreed, agrees, shadowed>>

\* An error at any step, or a crash: the workspace goes, the transaction is undone.
AbortImport ==
    /\ importer.at # "off"
    /\ importer' = NoImport
    /\ UNCHANGED <<legacyVars, target, results, probe, mode, agreed, agrees, shadowed>>

\* The operator starts the service before the import or after the cutover, never in
\* between: the first start creates the database, the user and a target.
StartService ==
    /\ target.by = "nobody"
    /\ target' = [target EXCEPT !.by = "service"]
    /\ UNCHANGED <<legacyVars, importer, results, probe, mode, agreed, agrees, shadowed>>

-----------------------------------------------------------------------------
(* Shadow comparison and duplicate probe *)

\* The aggregate is there, row by row as the import maps it, and its marker with it.
StateImported == target.by = "import"

\* The latest finished run of the date; messages that failed disqualify it.
Authoritative(run) == run.status \in {"success", "partial_failure"}

Matches(run, ok) == run.rows = Batch(ok) /\ run.ok = ok

\* Mutant: a rerun for the same date keeps the first result.
KeepFirst(outcome) ==
    results' = [results EXCEPT ![0] = IF @ = "none" THEN outcome ELSE @]

\* INSERT ... ON CONFLICT(run_date) DO UPDATE.
Record(outcome) == results' = [results EXCEPT ![0] = outcome]

\* run_shadow_fetch: only for today, since the batch carries its own date.
ShadowRun(ok) ==
    /\ mode = "legacy" /\ StateImported /\ Authoritative(branch.run)
    /\ LET matched == Matches(branch.run, ok) IN
       /\ Record(IF matched THEN "match" ELSE "differ")
       /\ agrees' = matched
       /\ shadowed' = IF matched THEN shadowed \cup branch.run.rows ELSE shadowed
    /\ UNCHANGED <<legacyVars, importer, target, probe, mode, agreed>>

\* What the new program would announce.
Missing(ok) == Batch(ok) \ target.known

\* run_duplicate_probe: every agency answered and everything listed was imported.
DuplicateProbe(ok) ==
    /\ mode = "legacy" /\ StateImported
    /\ probe' = [day |-> 0, passed |-> ok = Agencies /\ Missing(ok) = {}]
    /\ UNCHANGED <<legacyVars, importer, target, results, mode, agreed, agrees, shadowed>>

\* _status_from_snapshot, asked about today.
Newest == CHOOSE d \in Days : results[d] # "none" /\ \A e \in Days : e < d => results[e] = "none"
Matched(d, n) == \A i \in d..(d + n - 1) : i \in Days /\ results[i] = "match"

CutoverReady ==
    /\ \E d \in {0, 1} : results[d] # "none"
    /\ Matched(Newest, Streak)
    /\ StateImported
    /\ probe.passed /\ probe.day \in {0, 1} /\ probe.day <= Newest

-----------------------------------------------------------------------------
(* The new program takes over *)

\* The operator pauses the schedule when no job is under way.
CutOver ==
    /\ mode = "legacy" /\ CutoverReady /\ job.at = "off"
    /\ mode' = "new"
    /\ UNCHANGED <<legacyVars, importer, target, results, probe, agreed, agrees, shadowed>>

\* A run of the rental monitor: a new item gets a row in the outbox unless its key is
\* there, a complete batch replaces the snapshot, all in one transaction.
NewRun(ok) ==
    /\ mode = "new"
    /\ LET items == Batch(ok)
           alerts == Missing(ok) \ target.keys IN
       target' = [target EXCEPT
             !.known = IF ok = Agencies THEN items ELSE @ \cup items,
             !.keys = @ \cup alerts, !.owed = @ \cup alerts]
    /\ UNCHANGED <<legacyVars, importer, results, probe, mode, agreed, agrees, shadowed>>

\* drain_once: the message is accepted, and the row marked delivered; or it is not,
\* for the answer is lost, the service is killed in between or the lease has gone to
\* another worker (module Outbox has the particulars).  The row is sent again then.
Deliver(n) ==
    /\ mode = "new" /\ n \in target.owed
    /\ Tell(n, 1)
    /\ \/ target' = [target EXCEPT !.owed = @ \ {n}] /\ UNCHANGED unrecorded
       \/ UNCHANGED target /\ Unrecord(n)
    /\ UNCHANGED <<listed, branch, job, baseline>>
    /\ UNCHANGED <<importer, results, probe, mode, agreed, agrees, shadowed>>

\* Nightly maintenance: a delivered row of 180 days ago goes, imported ones too.
ForgetDelivery(n) ==
    /\ mode = "new" /\ n \in target.keys \ target.owed
    /\ target' = [target EXCEPT !.keys = @ \ {n}]
    /\ Unrecord(n)
    /\ UNCHANGED <<listed, branch, job, told, baseline>>
    /\ UNCHANGED <<importer, results, probe, mode, agreed, agrees, shadowed>>

\* Midnight in Seoul.  The job of 12:13 is over by then.
NewDay ==
    /\ job.at = "off"
    /\ results' = [d \in Days |-> IF d = 0 THEN "none" ELSE results[d - 1]]
    /\ probe' = [probe EXCEPT !.day = IF @ < 2 THEN @ + 1 ELSE @]
    /\ branch' = [branch EXCEPT !.run = NoRun]
    /\ agreed' = IF ~agrees THEN 0 ELSE IF agreed < Streak THEN agreed + 1 ELSE agreed
    /\ agrees' = FALSE
    /\ UNCHANGED <<listed, job, told, baseline, unrecorded, importer, target, mode, shadowed>>

Migrate ==
    \/ ReadSource \/ MapStaged \/ Refused \/ PublishTarget \/ AbortImport \/ StartService
    \/ \E ok \in SUBSET Agencies : ShadowRun(ok) \/ DuplicateProbe(ok) \/ NewRun(ok)
    \/ \E n \in Notices : Deliver(n) \/ ForgetDelivery(n)
    \/ CutOver \/ NewDay

Next ==
    \/ Migrate
    \/ mode = "legacy" /\ LegacyJob /\ UNCHANGED migrationVars
    \/ (\E n \in Notices : Publish(n)) /\ UNCHANGED migrationVars

Spec == Init /\ [][Next]_vars

-----------------------------------------------------------------------------
(* Properties *)

\* "Any mismatch or missing date resets the gate": it is open only when Streak dates
\* in a row, up to today or, while today was not compared, up to yesterday, matched
\* in their last comparison.
GateNeedsTheStreak ==
    CutoverReady =>
        IF agrees THEN agreed + 1 >= Streak ELSE results[0] = "none" /\ agreed = Streak

\* The chat gets a notice a second time only when a message it accepted is in no
\* record (its answer was lost, or the record with a legacy job or to retention), or
\* when the legacy program told it after the state was taken for the import.  While
\* every message is recorded, the move to the new program repeats nothing else.
RepeatsAreExplained ==
    \A n \in Notices :
        told[n] > 1 =>
            \/ n \in unrecorded
            \/ target.by = "import" /\ n \in branch.delivered \ target.from

\* What both programs saw on a matched date has reached the chat, but for the notices
\* that were entered as delivered before the first run: nothing else that the gate was
\* opened by is left for the new program, which will not announce it.
MatchedNoticesWereTold == \A n \in shadowed : told[n] > 0 \/ n \in baseline

=============================================================================
