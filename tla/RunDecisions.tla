---------------------------- MODULE RunDecisions ----------------------------
(***************************************************************************)
(* What one run decides from the snapshot it loaded and the batch it       *)
(* fetched (engine/runner.py, domain/observation.py, domain/rules.py): the *)
(* snapshot that replaces the old one and the dedupe keys it enqueues.  A  *)
(* monitor watches one field of one item; a batch either holds the item or *)
(* not, and may carry source warnings, which make it partial.              *)
(***************************************************************************)
EXTENDS Integers

CONSTANTS
    Contents,        \* values the watched field can have
    NoItem,          \* the item is not in the snapshot, or not in the batch
    Rules,           \* kinds of the monitor's rules
    Satisfying,      \* values that satisfy the threshold, status or keyword rule
    NotifyNoChange   \* spec.notify_on_no_change

\* "crossed" stands for numeric_threshold, status_equals and keyword_match: each
\* matches when the new value satisfies it and the old one does not.
RuleKinds == {"new_item", "field_changed", "crossed"}

ASSUME DecisionsAssumption ==
    /\ NoItem \notin Contents
    /\ Rules \subseteq RuleKinds
    /\ Satisfying \subseteq Contents
    /\ NotifyNoChange \in BOOLEAN

Snapshots == Contents \cup {NoItem}

Batches == [item : Snapshots, warnings : BOOLEAN]

\* _current_items, and what _upsert_items leaves in the table: a partial batch
\* deletes nothing.
CurrentItem(previous, batch) ==
    IF batch.warnings /\ batch.item = NoItem THEN previous ELSE batch.item

\* evaluate_rules on what diff_items reports; an item that disappears matches no
\* rule, and one that appears has no old value.
Matched(previous, current) ==
    {rule \in Rules :
        /\ current \notin {previous, NoItem}
        /\ rule = "new_item" => previous = NoItem
        /\ rule = "crossed" => current \in Satisfying /\ previous \notin Satisfying}

\* delivery_key: a new item is keyed by the item alone, any other match by its rule
\* and the pair of values; warnings and "no change" notices by the local date (one
\* date here).
NewItemKey == <<"new_item">>
WarningKey == <<"warning">>
NoChangeKey == <<"no_change">>

DeliveryKey(rule, previous, current) ==
    IF rule = "new_item" THEN NewItemKey ELSE <<rule, previous, current>>

Keys == {NewItemKey, WarningKey, NoChangeKey}
            \cup {<<rule, p, c>> : rule \in Rules, p \in Snapshots, c \in Contents}

MatchKeys(previous, current) ==
    {DeliveryKey(rule, previous, current) : rule \in Matched(previous, current)}

\* The candidates of _run_started, in dedupe keys.
Candidates(previous, batch) ==
    LET matches == MatchKeys(previous, CurrentItem(previous, batch))
    IN  matches \cup
        CASE batch.warnings -> {WarningKey}
          [] ~batch.warnings /\ matches = {} /\ NotifyNoChange -> {NoChangeKey}
          [] OTHER -> {}
=============================================================================
