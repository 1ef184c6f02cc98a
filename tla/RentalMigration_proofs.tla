------------------------ MODULE RentalMigration_proofs ------------------------
(***************************************************************************)
(* Proofs about RentalMigration and LegacyMonitor, for every set of        *)
(* notices and agencies and every length of the streak.                    *)
(***************************************************************************)
EXTENDS RentalMigration, TLAPS

Told == {n \in Notices : told[n] > 0}

\* What a record of a delivery may stand for.
Settled == Told \cup baseline

(***************************************************************************)
(* The inductive invariant, in three parts: what the running job's copy    *)
(* and the branch record, which is true but for the baseline; where a      *)
(* notice is recorded all of whose messages were; and the results, which   *)
(* agree with the history of matches.                                      *)
(***************************************************************************)
JobIsClean == job.at = "off" => job = NoJob

RecordsAreTrue ==
    /\ branch.delivered \subseteq Settled /\ job.copy.delivered \subseteq Settled
    /\ job.out \subseteq Told
    /\ Authoritative(branch.run) => branch.run.rows \subseteq Settled
    /\ job.at \in {"sending", "sent"} =>
           /\ job.copy.run.rows \subseteq Settled \cup job.todo
           /\ job.copy.run.status = "none"
    /\ job.at = "closing" /\ Authoritative(job.copy.run) => job.copy.run.rows \subseteq Settled

NothingIsForgotten ==
    /\ job.at # "off" => branch.delivered \subseteq job.copy.delivered
    /\ job.todo \cap (branch.delivered \cup job.out) = {}
    /\ mode = "new" => job.at = "off" /\ target.by = "import"
    /\ mode = "legacy" => target.owed = {}
    /\ target.by = "import" => target.from \subseteq target.keys \cup unrecorded
    /\ \A n \in Told \ unrecorded :
           \/ n \in branch.delivered \cup job.out
           \/ mode = "new" /\ n \in target.keys
    /\ \A n \in Notices \ unrecorded :
           \/ told[n] > 1
           \/ told[n] > 0 /\ n \in target.owed
           => mode = "new" /\ n \in branch.delivered \ target.from
    /\ target.owed \subseteq target.keys

StreakIsKept ==
    /\ agrees <=> results[0] = "match"
    /\ \A i \in 1..agreed : results[i] = "match"
    /\ agreed < Streak => results[agreed + 1] # "match"

RentalInv ==
    /\ RentalTypeOK /\ JobIsClean /\ RecordsAreTrue /\ NothingIsForgotten /\ StreakIsKept
    /\ MatchedNoticesWereTold

-----------------------------------------------------------------------------
(* Types *)

LEMMA DatabaseTypes ==
    /\ NoRun \in Runs /\ NoJob \in Jobs
    /\ \A b \in SUBSET Notices : Seeded(b) \in Databases
    /\ NoTarget \in [by : {"nobody", "service", "import"}, known : SUBSET Notices,
                     keys : SUBSET Notices, owed : SUBSET Notices, from : SUBSET Notices]
    /\ NoImport \in [at : {"off", "mapping", "staged"},
                     seen : SUBSET Notices, delivered : SUBSET Notices]
    /\ NoProbe \in [day : 0..2, passed : BOOLEAN]
<1>1. NoRun \in Runs
  BY DEF NoRun, Runs
<1>2. \A b \in SUBSET Notices : Seeded(b) \in Databases
  BY <1>1 DEF Seeded, Databases
<1>3. NoJob \in Jobs
  BY <1>2 DEF NoJob, Jobs
<1> QED BY <1>1, <1>2, <1>3 DEF NoTarget, NoImport, NoProbe

LEMMA InitTypes == Init => RentalTypeOK
<1> SUFFICES ASSUME Init PROVE RentalTypeOK
  OBVIOUS
<1>1. told \in [Notices -> 0..Twice] /\ 0 \in 0..Streak
  BY LegacyAssumption, MigrationAssumption DEF Init, LegacyInit
<1>2. results \in [Days -> Outcomes]
  BY DEF Init, Outcomes
<1>3. LegacyTypeOK
  BY <1>1, DatabaseTypes DEF Init, LegacyInit, LegacyTypeOK
<1> QED BY <1>1, <1>2, <1>3, DatabaseTypes DEF Init, RentalTypeOK

LEMMA CollectedTypes == \A ok \in SUBSET Agencies : Collected(ok) \subseteq listed
BY DEF Collected

LEMMA CollectTypes ==
    ASSUME RentalTypeOK, NEW ok \in SUBSET Agencies
    PROVE  Upserted(branch, ok, Collected(ok)) \in Databases
<1>1. Collected(ok) \in SUBSET Notices
  BY CollectedTypes DEF RentalTypeOK, LegacyTypeOK
<1>2. [NoRun EXCEPT !.ok = ok, !.rows = Collected(ok)] \in Runs
  BY <1>1 DEF NoRun, Runs
<1>3. branch.seen \cup Collected(ok) \in SUBSET Notices
  BY <1>1 DEF RentalTypeOK, LegacyTypeOK, Databases
<1> QED BY <1>2, <1>3 DEF Upserted, Databases, RentalTypeOK, LegacyTypeOK

LEMMA LegacyTypes ==
    ASSUME RentalTypeOK, LegacyJob, UNCHANGED migrationVars
    PROVE  RentalTypeOK'
<1> USE DEF RentalTypeOK, LegacyTypeOK, migrationVars
<1>1. ASSUME NEW ok \in SUBSET Agencies, Collect(ok) PROVE RentalTypeOK'
  <2>1. Pending(branch, Collected(ok)) \in SUBSET Notices
    BY CollectedTypes DEF Pending
  <2> QED BY <1>1, <2>1, CollectTypes DEF Collect, Jobs
<1>2. ASSUME NEW n \in Notices, Send(n) PROVE RentalTypeOK'
  <2>1. told' \in [Notices -> 0..Twice]
    BY <1>2, LegacyAssumption DEF Send, Tell
  <2>2. job' \in Jobs
    BY <1>2 DEF Send, Jobs
  <2>3. unrecorded' \subseteq Notices
    BY <1>2 DEF Send, Unrecord
  <2> QED BY <1>2, <2>1, <2>2, <2>3 DEF Send
<1>3. CASE MarkDelivered
  <2>1. job.copy.delivered \cup InHand \in SUBSET Notices
    BY DEF InHand, Jobs, Databases
  <2>2. job' \in Jobs
    BY <1>3, <2>1 DEF MarkDelivered, Jobs, Databases
  <2> QED BY <1>3, <2>2 DEF MarkDelivered
<1>4. ASSUME NEW status \in {"success", "partial_failure", "telegram_failure"},
             Finish(status), UNCHANGED <<listed, branch, told, baseline, unrecorded>>
      PROVE  RentalTypeOK'
  <2>1. [job.copy.run EXCEPT !.status = status] \in Runs
    BY DEF Jobs, Databases, Runs
  <2>2. [job.copy EXCEPT !.run = [job.copy.run EXCEPT !.status = status]] \in Databases
    BY <2>1 DEF Jobs, Databases
  <2>3. job' \in Jobs
    BY <1>4, <2>2 DEF Finish, Jobs, Databases, Runs
  <2> QED BY <1>4, <2>3
<1>5. CASE TelegramFails \/ Report
  BY <1>4, <1>5 DEF TelegramFails, Report
<1>6. CASE Persist \/ LoseCopy
  BY <1>6, DatabaseTypes DEF Persist, LoseCopy, Jobs, InHand
<1> QED BY <1>1, <1>2, <1>3, <1>5, <1>6 DEF LegacyJob

LEMMA MigrationTypes ==
    ASSUME RentalTypeOK, Migrate
    PROVE  RentalTypeOK'
<1> USE DEF RentalTypeOK, LegacyTypeOK, legacyVars
<1>1. CASE ReadSource
  BY <1>1 DEF ReadSource, Databases
<1>2. CASE MapStaged
  BY <1>2 DEF MapStaged
<1>3. CASE Refused \/ AbortImport
  BY <1>3, DatabaseTypes DEF Refused, AbortImport
<1>4. CASE PublishTarget
  <2>1. Mapped(importer.seen, importer.delivered)
            \in [by : {"nobody", "service", "import"}, known : SUBSET Notices,
                keys : SUBSET Notices, owed : SUBSET Notices, from : SUBSET Notices]
    BY DEF Mapped, OutboxKeys
  <2>2. [importer EXCEPT !.at = "mapping"]
            \in [at : {"off", "mapping", "staged"},
                seen : SUBSET Notices, delivered : SUBSET Notices]
    OBVIOUS
  <2> QED BY <1>4, <2>1, <2>2, DatabaseTypes DEF PublishTarget
<1>5. CASE StartService
  BY <1>5 DEF StartService
<1>6. ASSUME NEW ok \in SUBSET Agencies, ShadowRun(ok) PROVE RentalTypeOK'
  <2>1. 0 \in Days /\ {"match", "differ"} \subseteq Outcomes
    BY MigrationAssumption DEF Days, Outcomes
  <2>2. results' \in [Days -> Outcomes]
    BY <1>6, <2>1 DEF ShadowRun, Record
  <2>3. agrees' \in BOOLEAN
    BY <1>6 DEF ShadowRun, Matches
  <2>4. shadowed' \subseteq Notices
    BY <1>6 DEF ShadowRun, Databases, Runs
  <2> QED BY <1>6, <2>2, <2>3, <2>4 DEF ShadowRun
<1>7. ASSUME NEW ok \in SUBSET Agencies, DuplicateProbe(ok) PROVE RentalTypeOK'
  <2>1. probe' \in [day : 0..2, passed : BOOLEAN]
    BY <1>7 DEF DuplicateProbe
  <2> QED BY <1>7, <2>1 DEF DuplicateProbe
<1>8. ASSUME NEW ok \in SUBSET Agencies, NewRun(ok) PROVE RentalTypeOK'
  <2>1. Batch(ok) \in SUBSET Notices /\ Missing(ok) \in SUBSET Notices
    BY CollectedTypes DEF Batch, Missing
  <2>2. target' \in [by : {"nobody", "service", "import"}, known : SUBSET Notices,
                     keys : SUBSET Notices, owed : SUBSET Notices, from : SUBSET Notices]
    BY <1>8, <2>1 DEF NewRun
  <2> QED BY <1>8, <2>2 DEF NewRun
<1>9. CASE CutOver
  BY <1>9 DEF CutOver
<1>10. CASE NewDay
  <2>1. results' \in [Days -> Outcomes]
    <3>1. \A d \in Days : d # 0 => d - 1 \in Days
      BY MigrationAssumption DEF Days
    <3> QED BY <1>10, <3>1 DEF NewDay, Outcomes
  <2>2. probe' \in [day : 0..2, passed : BOOLEAN]
    BY <1>10 DEF NewDay
  <2>3. branch' \in Databases
    BY <1>10, DatabaseTypes DEF NewDay, Databases
  <2>4. agreed' \in 0..Streak
    BY <1>10, MigrationAssumption DEF NewDay
  <2> QED BY <1>10, <2>1, <2>2, <2>3, <2>4 DEF NewDay
<1>11. ASSUME NEW n \in Notices, Deliver(n) PROVE RentalTypeOK'
  <2>1. told' \in [Notices -> 0..Twice]
    BY <1>11, LegacyAssumption DEF Deliver, Tell
  <2>2. target' \in [by : {"nobody", "service", "import"}, known : SUBSET Notices,
                     keys : SUBSET Notices, owed : SUBSET Notices, from : SUBSET Notices]
    BY <1>11 DEF Deliver
  <2>3. unrecorded' \subseteq Notices
    BY <1>11 DEF Deliver, Unrecord
  <2> QED BY <1>11, <2>1, <2>2, <2>3 DEF Deliver
<1>12. ASSUME NEW n \in Notices, ForgetDelivery(n) PROVE RentalTypeOK'
  BY <1>12 DEF ForgetDelivery, Unrecord
<1> QED
  BY <1>1, <1>2, <1>3, <1>4, <1>5, <1>6, <1>7, <1>8, <1>9, <1>10, <1>11, <1>12 DEF Migrate

LEMMA NextTypes ==
    ASSUME RentalTypeOK, [Next]_vars
    PROVE  RentalTypeOK'
<1>1. CASE UNCHANGED vars
  BY <1>1 DEF vars, legacyVars, migrationVars, RentalTypeOK, LegacyTypeOK
<1>2. CASE Migrate
  BY <1>2, MigrationTypes
<1>3. CASE LegacyJob /\ UNCHANGED migrationVars
  BY <1>3, LegacyTypes
<1>4. CASE (\E n \in Notices : Publish(n)) /\ UNCHANGED migrationVars
  BY <1>4 DEF Publish, migrationVars, RentalTypeOK, LegacyTypeOK
<1> QED BY <1>1, <1>2, <1>3, <1>4 DEF Next

-----------------------------------------------------------------------------
(* The gate *)

LEMMA StreakStep ==
    ASSUME RentalTypeOK, StreakIsKept, [Next]_vars
    PROVE  StreakIsKept'
<1> USE DEF RentalTypeOK
<1>1. CASE UNCHANGED <<results, agreed, agrees>>
  BY <1>1 DEF StreakIsKept
<1>2. ASSUME NEW ok \in SUBSET Agencies, ShadowRun(ok) PROVE StreakIsKept'
  <2>1. /\ results' = [results EXCEPT ![0] = IF agrees' THEN "match" ELSE "differ"]
        /\ agrees' \in BOOLEAN /\ agreed' = agreed
    BY <1>2 DEF ShadowRun, Record, Matches
  <2>2. results'[0] = (IF agrees' THEN "match" ELSE "differ") /\ \A i \in Nat \ {0} : results'[i] = results[i]
    BY <2>1, MigrationAssumption DEF Days
  <2> QED BY <2>1, <2>2, MigrationAssumption DEF StreakIsKept
<1>3. CASE NewDay
  <2>1. /\ results'[0] = "none" /\ agrees' = FALSE
        /\ \A d \in 1..Streak : results'[d] = results[d - 1]
    BY <1>3, MigrationAssumption DEF NewDay, Days
  <2>2. CASE ~agrees
    BY <1>3, <2>1, <2>2, MigrationAssumption DEF NewDay, StreakIsKept
  <2>3. CASE agrees
    <3>1. agreed' = IF agreed < Streak THEN agreed + 1 ELSE agreed
      BY <1>3, <2>3 DEF NewDay
    <3>2. \A i \in 0..agreed : results[i] = "match"
      BY <2>3 DEF StreakIsKept
    <3>3. \A i \in 1..agreed' : results'[i] = "match"
      BY <2>1, <3>1, <3>2, MigrationAssumption
    <3>4. agreed' < Streak => results'[agreed' + 1] # "match"
      BY <2>1, <3>1, MigrationAssumption DEF StreakIsKept
    <3> QED BY <2>1, <3>3, <3>4 DEF StreakIsKept
  <2> QED BY <2>2, <2>3
<1> QED
  BY <1>1, <1>2, <1>3
  DEF Next, vars, legacyVars, migrationVars, Migrate, ReadSource, MapStaged, Refused,
      PublishTarget, AbortImport, StartService, DuplicateProbe, NewRun, Deliver,
      ForgetDelivery, CutOver

LEMMA NewestIsRecent ==
    ASSUME RentalTypeOK, NEW r \in {0, 1}, results[r] # "none", r = 1 => results[0] = "none"
    PROVE  Newest = r
<1>1. r \in Days /\ \A e \in Days : e < r => results[e] = "none"
  BY MigrationAssumption DEF Days
<1>2. /\ Newest \in Days /\ results[Newest] # "none"
      /\ \A e \in Days : e < Newest => results[e] = "none"
  BY <1>1 DEF Newest
<1> QED BY <1>1, <1>2 DEF Days

LEMMA GateIsTheStreak == RentalTypeOK /\ StreakIsKept => GateNeedsTheStreak
<1> SUFFICES ASSUME RentalTypeOK, StreakIsKept, CutoverReady
             PROVE  IF agrees THEN agreed + 1 >= Streak ELSE results[0] = "none" /\ agreed = Streak
  BY DEF GateNeedsTheStreak
<1>1. CASE results[0] # "none"
  <2>1. Newest = 0
    BY <1>1, NewestIsRecent
  <2>2. \A i \in 0..(Streak - 1) : results[i] = "match"
    <3>1. Matched(0, Streak)
      BY <2>1 DEF CutoverReady
    <3> QED BY <3>1, MigrationAssumption DEF Matched
  <2>3. agrees
    BY <2>2, MigrationAssumption DEF StreakIsKept
  <2> QED BY <2>2, <2>3, MigrationAssumption DEF StreakIsKept, RentalTypeOK
<1>2. CASE results[0] = "none"
  <2>1. results[1] # "none"
    BY <1>2 DEF CutoverReady
  <2>2. Newest = 1
    BY <1>2, <2>1, NewestIsRecent
  <2>3. \A i \in 1..Streak : results[i] = "match"
    <3>1. Matched(1, Streak)
      BY <2>2 DEF CutoverReady
    <3> QED BY <3>1, MigrationAssumption DEF Matched
  <2>4. ~agrees
    BY <1>2 DEF StreakIsKept
  <2> QED BY <1>2, <2>3, <2>4, MigrationAssumption DEF StreakIsKept, RentalTypeOK
<1> QED BY <1>1, <1>2

-----------------------------------------------------------------------------
(* Records of what was told *)

LEMMA InitRecords ==
    Init => JobIsClean /\ RecordsAreTrue /\ NothingIsForgotten /\ StreakIsKept
            /\ MatchedNoticesWereTold
<1> SUFFICES ASSUME Init
             PROVE  JobIsClean /\ RecordsAreTrue /\ NothingIsForgotten /\ StreakIsKept
                    /\ MatchedNoticesWereTold
  OBVIOUS
<1>1. Told = {}
  BY DEF Told, Init, LegacyInit
<1>2. /\ branch.delivered = baseline /\ branch.run = NoRun /\ job = NoJob
      /\ job.copy.delivered = {} /\ job.out = {} /\ job.todo = {} /\ job.at = "off"
  BY DEF Init, LegacyInit, Seeded, NoJob
<1>3. RecordsAreTrue /\ NothingIsForgotten
  <2>1. RecordsAreTrue
    BY <1>2 DEF RecordsAreTrue, Settled, Authoritative, NoRun
  <2>2. NothingIsForgotten
    BY <1>1, <1>2 DEF Init, LegacyInit, NothingIsForgotten, NoTarget
  <2> QED BY <2>1, <2>2
<1>4. StreakIsKept
  BY MigrationAssumption DEF Init, StreakIsKept, Days
<1> QED BY <1>3, <1>4 DEF Init, LegacyInit, JobIsClean, MatchedNoticesWereTold

\* What a notice was told only grows.
LEMMA TellingGrows ==
    ASSUME RentalTypeOK, NEW n \in Notices, NEW times \in {1, 2}, Tell(n, times)
    PROVE  /\ Told' = Told \cup {n}
           /\ times = 1 /\ told'[n] > 1 => told[n] > 0
           /\ \A k \in Notices \ {n} : told'[k] = told[k]
BY LegacyAssumption DEF Tell, Told, RentalTypeOK, LegacyTypeOK

LEMMA LegacyRecords ==
    ASSUME RentalInv, LegacyJob, UNCHANGED migrationVars, mode = "legacy"
    PROVE  JobIsClean' /\ RecordsAreTrue' /\ NothingIsForgotten'
<1> DEFINE Goal == JobIsClean' /\ RecordsAreTrue' /\ NothingIsForgotten'
<1> USE DEF RentalInv, RentalTypeOK, LegacyTypeOK, migrationVars
<1>1. ASSUME NEW ok \in SUBSET Agencies, Collect(ok) PROVE Goal
  <2> DEFINE rows == Collected(ok)
             copy == Upserted(branch, ok, rows)
  <2>1. /\ copy.delivered = branch.delivered /\ copy.run.rows = rows /\ copy.run.status = "none"
    BY DEF Upserted, Databases, NoRun
  <2>2. /\ job'.at = "sending" /\ job'.out = {} /\ job'.copy = copy
        /\ job'.todo = rows \ branch.delivered
        /\ UNCHANGED <<branch, told, baseline, unrecorded>> /\ Told' = Told /\ job = NoJob
    BY <1>1 DEF Collect, Pending, Told, JobIsClean
  <2> HIDE DEF rows, copy
  <2>3. JobIsClean' /\ RecordsAreTrue'
    BY <2>1, <2>2 DEF JobIsClean, RecordsAreTrue, Settled, Authoritative
  <2>4. job.out = {}
    BY <2>2 DEF NoJob
  <2>5. NothingIsForgotten'
    BY <2>1, <2>2, <2>4 DEF NothingIsForgotten
  <2> QED BY <2>3, <2>5
<1>2. ASSUME NEW n \in Notices, Send(n) PROVE Goal
  <2>1. /\ Told' = Told \cup {n} /\ baseline' = baseline
        /\ \A k \in Notices \ {n} : told'[k] = told[k]
        /\ unrecorded' \in {unrecorded, unrecorded \cup {n}}
        /\ n \notin unrecorded' /\ told'[n] > 1 => told[n] > 0
    BY <1>2, TellingGrows DEF Send, Unrecord
  <2>2. /\ job'.at = "sent" /\ job'.copy = job.copy /\ job.at = "sending"
        /\ job'.todo = job.todo \ {n} /\ job'.out = job.out \cup {n}
        /\ n \in job.todo /\ UNCHANGED branch
    BY <1>2 DEF Send, Jobs
  <2>3. JobIsClean' /\ RecordsAreTrue'
    BY <2>1, <2>2 DEF JobIsClean, RecordsAreTrue, Settled, Authoritative
  <2>4. n \notin branch.delivered \cup job.out
    BY <2>2 DEF NothingIsForgotten
  <2>5. n \notin Told \ unrecorded /\ target.owed = {}
    BY <2>4 DEF NothingIsForgotten
  <2>6. \A k \in Notices \ unrecorded' :
            told'[k] > 1 => mode = "new" /\ k \in branch.delivered \ target.from
    BY <2>1, <2>5 DEF NothingIsForgotten, Told
  <2>7. NothingIsForgotten'
    BY <2>1, <2>2, <2>4, <2>5, <2>6 DEF NothingIsForgotten
  <2> QED BY <2>3, <2>7
<1>3. CASE MarkDelivered
  <2>1. /\ job'.at = "sending" /\ job'.todo = job.todo /\ job'.out = job.out
        /\ job'.copy.delivered = job.copy.delivered \cup job.out
        /\ job'.copy.run = job.copy.run /\ job.at = "sent"
        /\ UNCHANGED <<branch, told, baseline, unrecorded>> /\ Told' = Told
    BY <1>3 DEF MarkDelivered, InHand, Jobs, Databases, Told
  <2> QED
    BY <2>1 DEF JobIsClean, RecordsAreTrue, Settled, NothingIsForgotten, Authoritative
<1>4. ASSUME NEW status, Finish(status), UNCHANGED <<branch, told, baseline, unrecorded>>,
             job.at \in {"sending", "sent"},
             status # "telegram_failure" => job.todo = {}
      PROVE  Goal
  <2>1. /\ job'.at = "closing" /\ job'.todo = job.todo /\ job'.out = job.out
        /\ job'.copy.delivered = job.copy.delivered
        /\ job'.copy.run.rows = job.copy.run.rows /\ job'.copy.run.status = status
        /\ UNCHANGED <<branch, told, baseline, unrecorded>> /\ Told' = Told
    BY <1>4 DEF Finish, Jobs, Databases, Runs, Told
  <2> QED
    BY <1>4, <2>1 DEF JobIsClean, RecordsAreTrue, Settled, NothingIsForgotten, Authoritative
<1>5. CASE TelegramFails
  BY <1>4, <1>5 DEF TelegramFails
<1>6. CASE Report
  BY <1>4, <1>6 DEF Report
<1>7. CASE Persist
  <2>1. /\ job' = NoJob /\ branch' = job.copy /\ baseline' = baseline
        /\ unrecorded' = unrecorded \cup (job.out \ job.copy.delivered)
        /\ told' = told /\ Told' = Told /\ job.at = "closing"
    BY <1>7 DEF Persist, InHand, Told
  <2>2. NoJob.at = "off" /\ NoJob.out = {} /\ NoJob.todo = {} /\ NoJob.copy.delivered = {}
    BY DEF NoJob, Seeded
  <2> QED
    BY <2>1, <2>2 DEF JobIsClean, RecordsAreTrue, Settled, NothingIsForgotten, Authoritative
<1>8. CASE LoseCopy
  <2>1. /\ job' = NoJob /\ branch' = branch /\ baseline' = baseline
        /\ unrecorded' = unrecorded \cup job.out /\ told' = told /\ Told' = Told
    BY <1>8 DEF LoseCopy, Told
  <2>2. NoJob.at = "off" /\ NoJob.out = {} /\ NoJob.todo = {} /\ NoJob.copy.delivered = {}
    BY DEF NoJob, Seeded
  <2> QED
    BY <2>1, <2>2 DEF JobIsClean, RecordsAreTrue, Settled, NothingIsForgotten, Authoritative
<1> QED BY <1>1, <1>2, <1>3, <1>5, <1>6, <1>7, <1>8 DEF LegacyJob

\* Import, comparison and probe leave the legacy side alone.
LEMMA MigrationRecords ==
    ASSUME RentalInv, Migrate
    PROVE  JobIsClean' /\ RecordsAreTrue' /\ NothingIsForgotten'
<1> DEFINE Goal == JobIsClean' /\ RecordsAreTrue' /\ NothingIsForgotten'
<1> USE DEF RentalInv, RentalTypeOK, LegacyTypeOK
<1>1. ASSUME UNCHANGED legacyVars, mode' = mode, target' = target
      PROVE  Goal
  BY <1>1
  DEF legacyVars, Told, Settled, JobIsClean, RecordsAreTrue, NothingIsForgotten, Authoritative
<1>2. CASE ReadSource \/ MapStaged \/ Refused \/ AbortImport
  BY <1>1, <1>2 DEF ReadSource, MapStaged, Refused, AbortImport
<1>3. ASSUME NEW ok \in SUBSET Agencies, ShadowRun(ok) \/ DuplicateProbe(ok) PROVE Goal
  BY <1>1, <1>3 DEF ShadowRun, DuplicateProbe
<1>4. CASE PublishTarget
  <2>1. CASE target.by = "nobody"
    <3>1. /\ UNCHANGED legacyVars /\ mode' = mode /\ mode # "new"
          /\ target'.by = "import" /\ target'.from = target'.keys /\ target'.owed = {}
      BY <1>4, <2>1 DEF PublishTarget, Mapped, OutboxKeys, NothingIsForgotten
    <3> QED
      BY <3>1
      DEF legacyVars, Told, Settled, JobIsClean, RecordsAreTrue, NothingIsForgotten, Authoritative
  <2>2. CASE target.by # "nobody"
    BY <1>1, <1>4, <2>2 DEF PublishTarget
  <2> QED BY <2>1, <2>2
<1>5. CASE StartService
  <2>1. UNCHANGED legacyVars /\ mode' = mode /\ mode # "new" /\ target'.by = "service"
        /\ target'.owed = target.owed /\ target'.keys = target.keys
    BY <1>5 DEF StartService, NothingIsForgotten
  <2> QED
    BY <2>1
    DEF legacyVars, Told, Settled, JobIsClean, RecordsAreTrue, NothingIsForgotten, Authoritative
<1>6. CASE CutOver
  <2>1. /\ UNCHANGED legacyVars /\ mode = "legacy" /\ mode' = "new" /\ job.at = "off"
        /\ target.by = "import" /\ target' = target
    BY <1>6 DEF CutOver, CutoverReady, StateImported
  <2> QED
    BY <2>1
    DEF legacyVars, Told, Settled, JobIsClean, RecordsAreTrue, NothingIsForgotten, Authoritative
<1>7. ASSUME NEW ok \in SUBSET Agencies, NewRun(ok) PROVE Goal
  <2> DEFINE alerts == Missing(ok) \ target.keys
  <2>1. /\ mode = "new" /\ mode' = mode /\ target.by = "import" /\ UNCHANGED legacyVars
        /\ target'.by = target.by /\ target'.from = target.from
        /\ target'.keys = target.keys \cup alerts /\ target'.owed = target.owed \cup alerts
    BY <1>7 DEF NewRun, NothingIsForgotten
  <2>2. alerts \cap target.keys = {} /\ job.at = "off" /\ job = NoJob
    BY <2>1 DEF NothingIsForgotten, JobIsClean
  <2> HIDE DEF alerts
  <2>3. JobIsClean' /\ RecordsAreTrue' /\ Told' = Told
    BY <2>1 DEF legacyVars, JobIsClean, RecordsAreTrue, Settled, Told, Authoritative
  <2>4. ASSUME NEW n \in Told \ unrecorded, n \in alerts
        PROVE  n \in branch.delivered \ target.from
    <3>1. job.out = {}
      BY <2>2 DEF NoJob
    <3> QED BY <2>1, <2>2, <2>4, <3>1 DEF NothingIsForgotten
  <2>5. \A n \in Notices \ unrecorded :
            \/ told[n] > 1
            \/ told[n] > 0 /\ n \in target'.owed
            => n \in branch.delivered \ target.from
    BY <2>1, <2>4 DEF NothingIsForgotten, Told
  <2>6. NothingIsForgotten'
    BY <2>1, <2>3, <2>5 DEF legacyVars, NothingIsForgotten
  <2> QED BY <2>3, <2>6
<1>8. CASE NewDay
  <2>1. /\ UNCHANGED <<job, told, baseline, unrecorded, mode, target>> /\ Told' = Told
        /\ branch'.delivered = branch.delivered /\ branch'.run = NoRun
    BY <1>8 DEF NewDay, Databases, Told
  <2>2. ~Authoritative(NoRun)
    BY DEF Authoritative, NoRun
  <2> QED
    BY <2>1, <2>2 DEF JobIsClean, RecordsAreTrue, NothingIsForgotten, Settled
<1>9. ASSUME NEW n \in Notices, Deliver(n) PROVE Goal
  <2>1. /\ mode = "new" /\ mode' = mode /\ n \in target.owed /\ n \in target.keys
        /\ UNCHANGED <<branch, job, baseline>>
        /\ target'.by = target.by /\ target'.from = target.from /\ target'.keys = target.keys
        /\ target'.owed \subseteq target.owed
        /\ unrecorded' \in {unrecorded, unrecorded \cup {n}}
    BY <1>9 DEF Deliver, Unrecord, NothingIsForgotten
  <2>2. n \notin unrecorded' => n \notin target'.owed
    BY <1>9 DEF Deliver, Unrecord
  <2>3. /\ Told' = Told \cup {n} /\ (told'[n] > 1 => told[n] > 0)
        /\ \A k \in Notices \ {n} : told'[k] = told[k]
    BY <1>9, TellingGrows DEF Deliver
  <2>4. JobIsClean' /\ RecordsAreTrue'
    BY <2>1, <2>3 DEF JobIsClean, RecordsAreTrue, Settled, Authoritative
  <2>5. ASSUME NEW k \in Notices \ unrecorded',
               told'[k] > 1 \/ (told'[k] > 0 /\ k \in target'.owed)
        PROVE  k \in branch.delivered \ target.from
    <3>1. CASE k = n
      BY <2>1, <2>2, <2>3, <2>5, <3>1 DEF NothingIsForgotten
    <3>2. CASE k # n
      BY <2>1, <2>3, <2>5, <3>2 DEF NothingIsForgotten
    <3> QED BY <3>1, <3>2
  <2>6. \A k \in Told' \ unrecorded' : k \in branch.delivered \cup job.out \/ k \in target.keys
    BY <2>1, <2>3 DEF NothingIsForgotten
  <2>7. NothingIsForgotten'
    <3>1. job.todo \cap (branch.delivered \cup job.out) = {}
      BY DEF NothingIsForgotten
    <3> QED BY <2>1, <2>5, <2>6, <3>1 DEF NothingIsForgotten
  <2> QED BY <2>4, <2>7
<1>10. ASSUME NEW n \in Notices, ForgetDelivery(n) PROVE Goal
  <2>1. /\ mode = "new" /\ mode' = mode /\ n \notin target.owed
        /\ UNCHANGED <<branch, job, told, baseline>> /\ Told' = Told
        /\ target'.by = target.by /\ target'.from = target.from /\ target'.owed = target.owed
        /\ target'.keys = target.keys \ {n} /\ unrecorded' = unrecorded \cup {n}
    BY <1>10 DEF ForgetDelivery, Unrecord, Told
  <2>2. JobIsClean' /\ RecordsAreTrue'
    BY <2>1 DEF JobIsClean, RecordsAreTrue, Settled, Authoritative
  <2>3. NothingIsForgotten'
    BY <2>1 DEF NothingIsForgotten
  <2> QED BY <2>2, <2>3
<1> QED BY <1>2, <1>3, <1>4, <1>5, <1>6, <1>7, <1>8, <1>9, <1>10 DEF Migrate

LEMMA NextRecords ==
    ASSUME RentalInv, [Next]_vars
    PROVE  JobIsClean' /\ RecordsAreTrue' /\ NothingIsForgotten'
<1>1. CASE Migrate
  BY <1>1, MigrationRecords
<1>2. CASE mode = "legacy" /\ LegacyJob /\ UNCHANGED migrationVars
  BY <1>2, LegacyRecords
<1>3. CASE UNCHANGED vars \/ ((\E n \in Notices : Publish(n)) /\ UNCHANGED migrationVars)
  <2>1. UNCHANGED <<branch, job, told, baseline, unrecorded, mode, target>>
    BY <1>3 DEF vars, legacyVars, migrationVars, Publish
  <2> QED
    BY <2>1
    DEF Told, Settled, RentalInv, JobIsClean, RecordsAreTrue, NothingIsForgotten, Authoritative
<1> QED BY <1>1, <1>2, <1>3 DEF Next

LEMMA NextMatched ==
    ASSUME RentalInv, [Next]_vars
    PROVE  MatchedNoticesWereTold'
<1> USE DEF RentalInv, RentalTypeOK, LegacyTypeOK
<1>1. Told \subseteq Told' /\ baseline' = baseline
  <2> DEFINE Grows == Told \subseteq Told' /\ baseline' = baseline
  <2>1. CASE told' = told /\ baseline' = baseline
    BY <2>1 DEF Told
  <2>2. ASSUME NEW n \in Notices, Send(n) PROVE Grows
    BY <2>2, TellingGrows DEF Send
  <2>3. ASSUME NEW n \in Notices, Deliver(n) PROVE Grows
    BY <2>3, TellingGrows DEF Deliver
  <2> QED
    BY <2>1, <2>2, <2>3
    DEF Next, vars, legacyVars, Migrate, LegacyJob, ReadSource, MapStaged, Refused,
        PublishTarget, AbortImport, StartService, ShadowRun, DuplicateProbe, CutOver, NewDay,
        NewRun, ForgetDelivery, Collect, MarkDelivered, TelegramFails, Report, Persist, LoseCopy, Publish
<1>2. shadowed' \subseteq shadowed \cup Settled
  <2>1. CASE shadowed' = shadowed
    BY <2>1
  <2>2. ASSUME NEW ok \in SUBSET Agencies, ShadowRun(ok) PROVE shadowed' \subseteq shadowed \cup Settled
    BY <2>2 DEF ShadowRun, RecordsAreTrue
  <2> QED
    BY <2>1, <2>2
    DEF Next, vars, migrationVars, Migrate, ReadSource, MapStaged, Refused,
        PublishTarget, AbortImport, StartService, DuplicateProbe, CutOver, NewDay, NewRun,
        Deliver, ForgetDelivery
<1>3. shadowed \subseteq Settled
  BY DEF MatchedNoticesWereTold, Told, Settled
<1>4. shadowed' \subseteq Settled'
  BY <1>1, <1>2, <1>3 DEF Settled
<1> QED BY <1>4 DEF MatchedNoticesWereTold, Told, Settled

LEMMA RentalInductive ==
    /\ Init => RentalInv
    /\ RentalInv /\ [Next]_vars => RentalInv'
<1>1. Init => RentalInv
  BY InitTypes, InitRecords DEF RentalInv
<1>2. RentalInv /\ [Next]_vars => RentalInv'
  BY NextTypes, StreakStep, NextRecords, NextMatched DEF RentalInv
<1> QED BY <1>1, <1>2

-----------------------------------------------------------------------------
(* Theorems *)

\* The gate is open only over an unbroken streak of dates whose last comparison matched.
THEOREM TheGateNeedsTheStreak == Spec => []GateNeedsTheStreak
<1>1. RentalInv => GateNeedsTheStreak
  BY GateIsTheStreak DEF RentalInv
<1> QED BY RentalInductive, <1>1, PTL DEF Spec

\* Every notice of a matched date has been told by the legacy program, or was entered
\* as delivered before its first run.
THEOREM MatchesWereTold == Spec => []MatchedNoticesWereTold
<1>1. RentalInv => MatchedNoticesWereTold
  BY DEF RentalInv
<1> QED BY RentalInductive, <1>1, PTL DEF Spec

\* The chat gets a notice twice only when an accepted message has no record (any more),
\* or when the legacy program told it after the import.
THEOREM OnlyExplainedRepeats == Spec => []RepeatsAreExplained
<1>1. RentalInv => RepeatsAreExplained
  BY DEF RentalInv, NothingIsForgotten, RepeatsAreExplained
<1> QED BY RentalInductive, <1>1, PTL DEF Spec

\* The state keeps its type.
THEOREM RentalTypes == Spec => []RentalTypeOK
<1>1. RentalInv => RentalTypeOK
  BY DEF RentalInv
<1> QED BY RentalInductive, <1>1, PTL DEF Spec

=============================================================================
