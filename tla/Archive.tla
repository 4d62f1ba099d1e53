------------------------------ MODULE Archive ------------------------------
(***************************************************************************)
(* The messages of one chat in the bridge's store, under everything that   *)
(* writes them (whatsapp-bridge/bridge.go, undecryptable.go,               *)
(* history_sync.go, sends.go): live messages and their retries, markers    *)
(* for messages that could not be decrypted, history chunks and the bridge *)
(* itself, which archives what it sends.                                   *)
(*                                                                         *)
(* Live events are handled one after the other, history in a goroutine of  *)
(* its own, sends in theirs.  Every SQL statement is one action, so the    *)
(* handlers interleave between their statements.  A message is named by    *)
(* its timestamp.  Text, sender and address-book columns are left out.     *)
(***************************************************************************)
EXTENDS Integers

CONSTANTS
    Msgs,             \* the messages, by timestamp
    DbOutcomes        \* what a statement may do: {TRUE} or BOOLEAN

ASSUME ArchiveAssumption ==
    /\ Msgs \subseteq Nat \ {0}
    /\ DbOutcomes \subseteq BOOLEAN

\* What extractContentFromProto makes of a message: text (any text without
\* media), media with or without a caption, the same inside an envelope (a
\* disappearing message, say), a type it cannot read, or a carrier without payload.
Payloads ==
    {"text", "caption", "media", "sealedCaption", "sealedMedia", "unsupported", "empty"}

HasText(p) == p \in {"text", "caption", "sealedCaption", "unsupported"}

\* A live event comes out of its envelope before whatsmeow dispatches it.
HasKeys(p) == p \in {"caption", "media", "sealedCaption", "sealedMedia"}

\* History hands over the envelope, and extractFromMessage does not open it.
ShowsKeys(p) == p \in {"caption", "media"}

Contents == Payloads \union {"none", "marker"}
Labels == {"null", "empty:system", "unsupported", "undecryptable"}

VARIABLES
    payload,          \* payload[m]: what m decodes to, now and in any retry
    row,              \* row[m]: the messages row
    chat,             \* the chats row exists
    last,             \* its last_message_time, 0 for NULL
    live,             \* the live event being handled
    hist,             \* the history chunk being handled
    received,         \* messages whose live content was stored, or found stored
    recalled          \* messages a history chunk has gone through without an error

vars == <<payload, row, chat, last, live, hist, received, recalled>>

-----------------------------------------------------------------------------
(* Rows.                                                                   *)

\* rawTypeNullable: the counter a row belongs to, NULL for one that reads fine.
Label(content) ==
    CASE content = "marker" -> "undecryptable"
      [] content = "unsupported" -> "unsupported"
      [] content = "empty" -> "empty:system"
      [] OTHER -> "null"

Row(content, raw, key) == [content |-> content, raw |-> raw, key |-> key]

NoRow == Row("none", "null", FALSE)
Decoded(m) == Row(payload[m], Label(payload[m]), HasKeys(payload[m]))
Marker == Row("marker", Label("marker"), FALSE)

\* What history makes of a message: no raw_type, and the keys it can see.
Recalled(m) == Row(payload[m], "null", ShowsKeys(payload[m]))

\* Rows older decoders left: nothing read at all, or media without its keys.
Legacy(m) == {NoRow} \union
    (IF ShowsKeys(payload[m]) THEN {} ELSE {Row("empty", Label("empty"), FALSE)}) \union
    (IF HasKeys(payload[m]) THEN {Row(payload[m], "null", FALSE)} ELSE {})

Idle == [at |-> "idle", kind |-> "message", m |-> 0]
NoChunk == [at |-> "idle", todo |-> {}, m |-> 0, clean |-> TRUE]

Init ==
    /\ payload \in [Msgs -> Payloads]
    /\ row \in [Msgs -> UNION {Legacy(m) : m \in Msgs}]
    /\ \A m \in Msgs : row[m] \in Legacy(m)
    /\ chat \in BOOLEAN /\ \A m \in Msgs : row[m] # NoRow => chat
    /\ last \in {m \in Msgs : row[m] # NoRow} \union {0}
    /\ last = 0 => \A m \in Msgs : row[m] = NoRow
    /\ live = Idle /\ hist = NoChunk
    /\ received = {} /\ recalled = {}

-----------------------------------------------------------------------------
(* Live events.                                                            *)

\* handleEvent takes a message, or the notice that one could not be decrypted.
\* Either may come again for the same id, and in any order of timestamps.
Receive(m, kind) ==
    /\ live = Idle
    /\ live' = [at |-> "chat", kind |-> kind, m |-> m]
    /\ UNCHANGED <<payload, row, chat, last, hist, received, recalled>>

\* The chat upsert of onMessage and of onUndecryptableMessage.
LiveChat ==
    /\ live.at = "chat"
    /\ live' = [live EXCEPT !.at = "row"]
    /\ \E ok \in DbOutcomes :
          IF ok THEN chat' = TRUE /\ last' = live.m ELSE UNCHANGED <<chat, last>>
    /\ UNCHANGED <<payload, row, hist, received, recalled>>

\* Mutant: ON CONFLICT DO NOTHING.
StoreMessageOrNothing(m) ==
    row' = [row EXCEPT ![m] = IF @ = NoRow THEN Decoded(m) ELSE @]

\* Mutant: the guard against a retry that decodes to nothing is gone.
StoreMessageDowngrading(m) ==
    row' = [row EXCEPT ![m] =
                IF @ = NoRow \/ @.content = "marker" THEN Decoded(m) ELSE @]

\* Mutant: the upgrade leaves raw_type as it was.
StoreMessageKeepingLabel(m) ==
    row' = [row EXCEPT ![m] =
                IF @ = NoRow THEN Decoded(m)
                ELSE IF @.content = "marker" /\ payload[m] # "empty"
                     THEN [Decoded(m) EXCEPT !.raw = row[m].raw]
                     ELSE @]

\* The message upsert: a placeholder is upgraded, and never to a blank.
StoreMessage(m) ==
    row' = [row EXCEPT ![m] =
                IF @ = NoRow \/ (@.content = "marker" /\ payload[m] # "empty")
                THEN Decoded(m) ELSE @]

LiveMessage ==
    /\ live.at = "row" /\ live.kind = "message"
    /\ live' = Idle
    /\ \E ok \in DbOutcomes :
          IF ok
          THEN StoreMessage(live.m) /\ received' = received \union {live.m}
          ELSE UNCHANGED <<row, received>>
    /\ UNCHANGED <<payload, chat, last, hist, recalled>>

\* ON CONFLICT DO NOTHING.  OpenDB does not turn foreign keys on, so a row whose
\* chat upsert failed is stored all the same.
LiveMarker ==
    /\ live.at = "row" /\ live.kind = "marker"
    /\ live' = Idle
    /\ \E ok \in DbOutcomes :
          IF ok /\ row[live.m] = NoRow
          THEN row' = [row EXCEPT ![live.m] = Marker]
          ELSE UNCHANGED row
    /\ UNCHANGED <<payload, chat, last, hist, received, recalled>>

-----------------------------------------------------------------------------
(* History chunks.                                                         *)

HistoryChunk(todo) ==
    /\ hist.at = "idle"
    /\ hist' = [at |-> "chat", todo |-> todo, m |-> 0, clean |-> TRUE]
    /\ UNCHANGED <<payload, row, chat, last, live, received, recalled>>

\* The conversation's chat row, with MAX over the time; an error skips the
\* whole conversation.
HistoryChat ==
    /\ hist.at = "chat"
    /\ \E ok \in DbOutcomes :
          IF ok
          THEN /\ chat' = TRUE
               /\ last' \in {t \in {last} \union hist.todo :
                                \A u \in {last} \union hist.todo : u <= t}
               /\ hist' = [hist EXCEPT !.at = "insert"]
          ELSE hist' = NoChunk /\ UNCHANGED <<chat, last>>
    /\ UNCHANGED <<payload, row, live, received, recalled>>

\* The chunk's next message, or the end of the chunk.
AfterMessage(todo) ==
    hist' = IF todo = {} THEN NoChunk
            ELSE [at |-> "insert", todo |-> todo, m |-> 0, clean |-> TRUE]

\* Mutant: INSERT OR REPLACE, which forgets keys that history does not show.
HistoryInsertReplacing(m) ==
    /\ hist.at = "insert" /\ m \in hist.todo
    /\ \E ok \in DbOutcomes :
          IF ok
          THEN /\ row' = [row EXCEPT ![m] = Recalled(m)]
               /\ hist' = [at |-> "decode", todo |-> hist.todo \ {m}, m |-> m, clean |-> TRUE]
          ELSE UNCHANGED row /\ AfterMessage(hist.todo \ {m})
    /\ UNCHANGED <<payload, chat, last, live, received, recalled>>

\* INSERT without a raw_type, ON CONFLICT DO NOTHING.
HistoryInsert(m) ==
    /\ hist.at = "insert" /\ m \in hist.todo
    /\ \E ok \in DbOutcomes :
          IF ok
          THEN /\ row' = [row EXCEPT ![m] = IF @ = NoRow THEN Recalled(m) ELSE @]
               /\ hist' = [at |-> "decode", todo |-> hist.todo \ {m}, m |-> m, clean |-> TRUE]
          ELSE UNCHANGED row /\ AfterMessage(hist.todo \ {m})
    /\ UNCHANGED <<payload, chat, last, live, received, recalled>>

\* Mutant: the re-decode shares the `continue` of messages without media.
HistoryDecodeMediaOnly ==
    /\ hist.at = "decode"
    /\ \E ok \in DbOutcomes :
          /\ hist' = [hist EXCEPT !.at = "media", !.clean = ok]
          /\ row' = [row EXCEPT ![hist.m] =
                        IF ok /\ payload[hist.m] = "caption" /\ @.content = "empty"
                        THEN [Decoded(hist.m) EXCEPT !.key = row[hist.m].key] ELSE @]
    /\ UNCHANGED <<payload, chat, last, live, received, recalled>>

\* backfillDecodedContent: a row without content takes the text, if there is
\* any; type, content and raw_type move together.
HistoryDecode ==
    /\ hist.at = "decode"
    /\ \E ok \in DbOutcomes :
          /\ hist' = [hist EXCEPT !.at = "media", !.clean = ok]
          /\ row' = [row EXCEPT ![hist.m] =
                        IF ok /\ HasText(payload[hist.m]) /\ @.content = "empty"
                        THEN [Decoded(hist.m) EXCEPT !.key = row[hist.m].key] ELSE @]
    /\ UNCHANGED <<payload, chat, last, live, received, recalled>>

\* The media keys, where the row has none.
HistoryMedia ==
    /\ hist.at = "media"
    /\ AfterMessage(hist.todo)
    /\ \E ok \in DbOutcomes :
          IF ok
          THEN /\ row' = [row EXCEPT ![hist.m].key = @ \/ ShowsKeys(payload[hist.m])]
               /\ recalled' = recalled \union (IF hist.clean THEN {hist.m} ELSE {})
          ELSE UNCHANGED <<row, recalled>>
    /\ UNCHANGED <<payload, chat, last, live, received>>

-----------------------------------------------------------------------------
\* handleConfirmSend archives what it has sent, without a raw_type and without
\* looking for a chat row.
ArchiveSent(m) ==
    /\ payload[m] \in {"text", "caption", "media"}
    /\ row[m] = NoRow
    /\ row' = [row EXCEPT ![m] = [Decoded(m) EXCEPT !.raw = "null"]]
    /\ UNCHANGED <<payload, chat, last, live, hist, received, recalled>>

\* The process stops between two statements; the store stays as it is.
Restart ==
    /\ live' = Idle /\ hist' = NoChunk
    /\ UNCHANGED <<payload, row, chat, last, received, recalled>>

Next ==
    \/ \E m \in Msgs, kind \in {"message", "marker"} : Receive(m, kind)
    \/ LiveChat \/ LiveMessage \/ LiveMarker
    \/ \E todo \in SUBSET Msgs \ {{}} : HistoryChunk(todo)
    \/ HistoryChat \/ HistoryDecode \/ HistoryMedia
    \/ \E m \in Msgs : HistoryInsert(m) \/ ArchiveSent(m)
    \/ Restart

Spec == Init /\ [][Next]_vars

-----------------------------------------------------------------------------
(* Properties.                                                             *)

RowSet == [content : Contents, raw : Labels, key : BOOLEAN]

\* Every variable keeps its type; the row of a message holds what it decodes
\* to, a placeholder for it, or nothing.
TypeOK ==
    /\ payload \in [Msgs -> Payloads]
    /\ row \in [Msgs -> RowSet]
    /\ \A m \in Msgs : row[m].content \in {"none", "empty", "marker", payload[m]}
    /\ chat \in BOOLEAN /\ last \in Msgs \union {0}
    /\ live \in [at : {"idle", "chat", "row"}, kind : {"message", "marker"}, m : Msgs \union {0}]
    /\ live.at # "idle" => live.m \in Msgs
    /\ hist \in [at : {"idle", "chat", "insert", "decode", "media"}, todo : SUBSET Msgs,
                 m : Msgs \union {0}, clean : BOOLEAN]
    /\ hist.at \in {"decode", "media"} => hist.m \in Msgs
    /\ received \subseteq Msgs /\ recalled \subseteq Msgs

\* No event, retry or history chunk takes content away: a row that is there
\* only ever changes from a placeholder or a blank to what the message says.
NeverLosesContent ==
    [][\A m \in Msgs :
          row[m].content \notin {"none", row'[m].content} =>
             /\ row[m].content \in {"empty", "marker"}
             /\ row'[m].content = payload[m] /\ payload[m] # "empty"]_vars

\* A message that was received, at first or by a retry, is not left behind its
\* own placeholder, however many failures of it are reported before or after.
RetryRecovers ==
    \A m \in received : payload[m] # "empty" => row[m].content \notin {"none", "marker"}

\* A message history has delivered again reads and downloads: a blank row has
\* its text, a row without media keys has those that history can see.
HistoryRepairs ==
    \A m \in recalled :
        /\ HasText(payload[m]) => row[m].content \in {payload[m], "marker"}
        /\ ShowsKeys(payload[m]) => row[m].key

\* The decode counters count no row for what it no longer is: raw_type moves
\* with the content in every statement that moves it.
LabelNeverLies ==
    \A m \in Msgs : row[m].raw # "null" => row[m].raw = Label(row[m].content)

\* A row that history wrote cannot be told from one that arrived live:
\* history_sync.go:183-186 says the columns mirror onMessage exactly.  The code
\* violates this and the next property, and no configuration checks them.
HistoryMirrorsLive ==
    \A m \in recalled \ received : row[m].content = payload[m] => row[m] = Decoded(m)

\* Every message row has its chat: history_sync.go:127-129 says a missing chat
\* would fail the insert.
MessageHasChat == (\E m \in Msgs : row[m] # NoRow) => chat

\* What a row tells of its message.
Knows == [m \in Msgs |->
    CASE row[m].content = "none" -> "nothing"
      [] row[m].content = "marker" -> "announced"
      [] row[m].content = "empty" -> "blank"
      [] OTHER -> "read"]
Keys == [m \in Msgs |-> row[m].key]

Contract == INSTANCE ArchiveContract WITH
    Blank <- "empty",
    Textual <- {p \in Payloads : HasText(p)},
    Keyed <- {p \in Payloads : HasKeys(p)},
    Shown <- {p \in Payloads : ShowsKeys(p)},
    knows <- Knows, keys <- Keys

\* Knowledge of a message only grows, and what is acknowledged is known, whoever
\* writes and in whatever order statements fall: Archive implements the contract.
ImplementsArchiveContract == Contract!Spec

-----------------------------------------------------------------------------
(* The inductive invariant behind the safety properties, in parts.         *)

\* What is not stored has no columns, only media has keys, and what was received
\* or recalled is stored.
RowShape ==
    /\ \A m \in Msgs : row[m].content = "none" => row[m] = NoRow
    /\ \A m \in Msgs : row[m].key => HasKeys(payload[m])
    /\ \A m \in received \union recalled : row[m].content # "none"

\* The message a chunk is working on is stored, and reads once it has been
\* looked at again without an error.
ChunkShape ==
    hist.at \in {"decode", "media"} =>
        /\ row[hist.m].content # "none"
        /\ hist.at = "media" /\ hist.clean /\ HasText(payload[hist.m]) =>
               row[hist.m].content # "empty"

ArchiveInv ==
    TypeOK /\ LabelNeverLies /\ RetryRecovers /\ HistoryRepairs /\ RowShape /\ ChunkShape
=============================================================================
