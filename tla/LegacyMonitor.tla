---------------------------- MODULE LegacyMonitor ----------------------------
(***************************************************************************)
(* The predecessor, rental_monitor: one sequential job per dispatch, over  *)
(* a SQLite file that it takes from the data branch and that is pushed     *)
(* back when the job has ended.  Every write is committed in the job's own *)
(* copy; only what is pushed survives it.                                  *)
(***************************************************************************)
EXTENDS Integers, FiniteSets

CONSTANTS
    Notices,   \* announcements, by canonical_key
    Agencies,  \* LH, SH, GH
    AgencyOf,  \* notice -> the agency that publishes it
    Twice      \* bound: deliveries of a notice are told apart up to here

ASSUME LegacyAssumption ==
    AgencyOf \in [Notices -> Agencies] /\ Twice \in Nat /\ Twice >= 2

VARIABLES
    listed,  \* notices on the agencies' sites
    branch,  \* the database on the data branch
    job,     \* the running job and its working copy
    told,    \* history: how often the chat got a notice
    baseline,  \* history: notices entered as delivered before the first run, not told
    unrecorded \* history: notices with an accepted message of which there is no
               \* record: its answer was lost, or the record is gone

legacyVars == <<listed, branch, job, told, baseline, unrecorded>>

\* The run row of the day: agencies that answered and the notices whose
\* last_seen_at lies within the run.
Runs == [status : {"none", "success", "partial_failure", "telegram_failure"},
         ok : SUBSET Agencies, rows : SUBSET Notices]
NoRun == [status |-> "none", ok |-> {}, rows |-> {}]

\* ran: there is a run row, of whichever day.
Databases == [seen : SUBSET Notices, delivered : SUBSET Notices, run : Runs, ran : BOOLEAN]

\* The first database may come with deliveries that no message stands for
\* (message_id 0), so that what was on the sites then is not told.
Seeded(notices) == [seen |-> notices, delivered |-> notices, run |-> NoRun, ran |-> FALSE]

Jobs == [at : {"off", "sending", "sent", "closing"}, copy : Databases,
         todo : SUBSET Notices, out : SUBSET Notices]
NoJob == [at |-> "off", copy |-> Seeded({}), todo |-> {}, out |-> {}]

LegacyTypeOK ==
    /\ listed \subseteq Notices /\ baseline \subseteq Notices /\ unrecorded \subseteq Notices
    /\ branch \in Databases /\ job \in Jobs
    /\ told \in [Notices -> 0..Twice]

LegacyInit ==
    /\ listed = {} /\ unrecorded = {}
    /\ baseline \in SUBSET Notices
    /\ branch = Seeded(baseline) /\ job = NoJob
    /\ told = [n \in Notices |-> 0]

Publish(n) ==
    /\ listed' = IF n \in listed THEN listed \ {n} ELSE listed \cup {n}
    /\ UNCHANGED <<branch, job, told, baseline, unrecorded>>

\* Collectors, one agency after the other: one that fails is left out.
Collected(ok) == {n \in listed : AgencyOf[n] \in ok}

Tell(n, times) ==
    told' = [told EXCEPT ![n] = IF @ + times <= Twice THEN @ + times ELSE Twice]

\* One more message of the notice is not in any record.
Unrecord(n) == unrecorded' = unrecorded \cup {n}

-----------------------------------------------------------------------------
(* MonitorRunner.run *)

\* upsert_seen, after start_run: the run of the day has its rows, not its outcome yet.
Upserted(db, ok, rows) ==
    [db EXCEPT !.seen = @ \cup rows, !.ran = TRUE,
               !.run = [NoRun EXCEPT !.ok = ok, !.rows = rows]]

Pending(db, rows) == rows \ db.delivered

Collect(ok) ==
    /\ job.at = "off"
    /\ job' = [at |-> "sending", out |-> {}, todo |-> Pending(branch, Collected(ok)),
               copy |-> Upserted(branch, ok, Collected(ok))]
    /\ UNCHANGED <<listed, branch, told, baseline, unrecorded>>

\* send: request_with_retry repeats the POST while no good answer comes, though the
\* message may have been accepted; only the last one is recorded.
Send(n) ==
    /\ job.at = "sending" /\ n \in job.todo
    /\ \/ Tell(n, 1) /\ UNCHANGED unrecorded
       \/ Tell(n, 2) /\ Unrecord(n)
    /\ job' = [job EXCEPT !.at = "sent", !.todo = @ \ {n}, !.out = @ \cup {n}]
    /\ UNCHANGED <<listed, branch, baseline>>

\* The notice that was sent and is not marked yet.
InHand == job.out \ job.copy.delivered

MarkDelivered ==
    /\ job.at = "sent"
    /\ job' = [job EXCEPT !.at = "sending", !.copy.delivered = @ \cup InHand]
    /\ UNCHANGED <<listed, branch, told, baseline, unrecorded>>

Finish(status) == job' = [job EXCEPT !.at = "closing", !.copy.run.status = status]

\* Mutant: a run whose messages failed is closed like any other.
FailUnnoticed ==
    /\ job.at \in {"sending", "sent"}
    /\ Finish("partial_failure")
    /\ UNCHANGED <<listed, branch, told, baseline, unrecorded>>

\* A send or a mark raises: finish_run("telegram_failure").
TelegramFails ==
    /\ job.at \in {"sending", "sent"}
    /\ Finish("telegram_failure")
    /\ UNCHANGED <<listed, branch, told, baseline, unrecorded>>

\* The message about failed agencies, or about a day without new notices.
Report ==
    /\ job.at = "sending" /\ job.todo = {}
    /\ Finish(IF job.copy.run.ok = Agencies THEN "success" ELSE "partial_failure")
    /\ UNCHANGED <<listed, branch, told, baseline, unrecorded>>

\* close, the ready file and persist_data_snapshot.sh.
Persist ==
    /\ job.at = "closing"
    /\ branch' = job.copy /\ job' = NoJob
    /\ unrecorded' = unrecorded \cup InHand
    /\ UNCHANGED <<listed, told, baseline>>

\* The runner is killed, or the push is refused: the branch keeps what it had.
LoseCopy ==
    /\ job.at # "off"
    /\ job' = NoJob
    /\ unrecorded' = unrecorded \cup job.out
    /\ UNCHANGED <<listed, branch, told, baseline>>

LegacyJob ==
    \/ \E ok \in SUBSET Agencies : Collect(ok)
    \/ \E n \in Notices : Send(n)
    \/ MarkDelivered \/ TelegramFails \/ Report \/ Persist \/ LoseCopy

=============================================================================
