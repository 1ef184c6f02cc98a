--------------------------- MODULE TelegramUpdates ---------------------------
(***************************************************************************)
(* What telegram/api.py makes of one element of a getUpdates answer:       *)
(* _parse_update, _parse_message, the media validators and                 *)
(* _parse_callback.  An element is abstracted to the fields it carries and *)
(* to those of them that break the code's bounds (lengths, integer ranges, *)
(* characters of a Unicode category C, keys outside a medium's allow-list).*)
(***************************************************************************)
EXTENDS FiniteSets

\* The media a message without text may carry (_UNSUPPORTED_MEDIA_FIELDS).
MediaFields == {"animation", "audio", "document", "photo", "sticker", "video",
                "video_note", "voice"}

\* Other contents Telegram delivers as messages: they have no field above.
OtherFields == {"location", "contact", "poll", "dice", "pinned_message"}

MessageFields == {"chat", "from", "message_id", "text", "caption"}
                     \cup MediaFields \cup OtherFields
CallbackFields == {"id", "from", "data", "message", "inline_message_id"}

Verdicts == {"handle", "ignore", "refuse"}

Holds(part, fields) == fields \subseteq part.fields /\ part.bad \cap fields = {}

-----------------------------------------------------------------------------
(* The media, by the keys the validators allow and require *)

FileIds == {"file_id", "file_unique_id"}
Frame == {"width", "height"}
Named == {"file_name", "mime_type", "thumbnail"}

Required ==
    [photo      |-> FileIds \cup Frame,
     animation  |-> FileIds \cup Frame \cup {"duration"},
     video      |-> FileIds \cup Frame \cup {"duration"},
     sticker    |-> FileIds \cup Frame \cup {"type", "is_animated", "is_video"},
     audio      |-> FileIds \cup {"duration"},
     voice      |-> FileIds \cup {"duration"},
     video_note |-> FileIds \cup {"length", "duration"},
     document   |-> FileIds]

Optional ==
    [photo      |-> {},
     animation  |-> Named,
     video      |-> Named \cup {"cover", "start_timestamp", "supports_streaming"},
     sticker    |-> {"thumbnail", "emoji", "set_name", "premium_animation",
                     "mask_position", "custom_emoji_id", "needs_repainting"},
     audio      |-> Named \cup {"performer", "title"},
     voice      |-> {"mime_type"},
     video_note |-> {"thumbnail"},
     document   |-> Named]

\* A key the table does not know refuses the medium, and so the whole poll.
WellFormed(medium, value) ==
    /\ Required[medium] \subseteq value.fields
    /\ value.fields \subseteq Required[medium] \cup Optional[medium] \cup {"file_size"}
    /\ value.bad = {}

\* The id fields come first; a text decides, bounded and without control
\* characters; without a text exactly one well-formed medium is ignored.
MessageVerdict(message) ==
    IF ~Holds(message, {"chat", "from", "message_id"}) THEN "refuse"
    ELSE IF "text" \in message.fields
         THEN IF "text" \in message.bad THEN "refuse" ELSE "handle"
    ELSE LET media == message.fields \cap MediaFields
         IN IF /\ Cardinality(media) = 1 /\ "caption" \notin message.bad
               /\ \A m \in media : WellFormed(m, message.content[m])
            THEN "ignore" ELSE "refuse"

\* A tap below a message of the chat is handled, one below an inline message
\* is ignored.
CallbackVerdict(callback) ==
    IF ~Holds(callback, {"id", "from", "data"}) THEN "refuse"
    ELSE IF {"message", "inline_message_id"} \subseteq callback.fields THEN "refuse"
    ELSE IF Holds(callback, {"inline_message_id"}) THEN "ignore"
    ELSE IF Holds(callback, {"message"}) THEN "handle" ELSE "refuse"

\* Update types other than the two requested are ignored.
Verdict(update) ==
    CASE update.kind = "message"        -> MessageVerdict(update)
      [] update.kind = "callback_query" -> CallbackVerdict(update)
      [] OTHER                          -> "ignore"

-----------------------------------------------------------------------------
(* What the owner can send (external: the Telegram Bot API) *)

Medium(fields) == [fields |-> FileIds \cup fields, bad |-> {}]

Message(fields, bad, content) ==
    [kind |-> "message", bad |-> bad, content |-> content,
     fields |-> {"chat", "from", "message_id"} \cup fields \cup DOMAIN content]

Photo == Message({"caption"}, {}, [photo |-> Medium(Frame \cup {"file_size"})])
Location == Message({"location"}, {}, <<>>)

\* Telegram repeats an animation in the document field.
Gif == Message({}, {}, [animation |-> Medium(Frame \cup {"duration"}), document |-> Medium({})])

Tap == [kind |-> "callback_query", fields |-> {"id", "from", "data", "message"}, bad |-> {}]

=============================================================================
