----------------------------- MODULE ChatNames -----------------------------
(***************************************************************************)
(* What a chat is called (whatsapp-bridge/contacts_sync.go, groups.go,     *)
(* aliases.go, bridge.go, undecryptable.go, history_sync.go,               *)
(* import_baileys.go).  One person has two chats, one under each of their  *)
(* JIDs, and an entry in the user's address book under the phone JID; they *)
(* are also a member of a group.                                           *)
(*                                                                         *)
(* Live events, address-book events, history and the start-up              *)
(* synchronisation run in goroutines of their own.  Every SQL statement is *)
(* one action; SyncContactNames is one transaction.  Statements succeed.   *)
(***************************************************************************)
EXTENDS Sequences, Naturals

CONSTANTS
    Labels,           \* what the user calls the person
    MaxChanges,       \* bound: changes of the address book
    MaxStops,         \* bound: restarts of the bridge
    MaxImports        \* bound: rows of chats a Baileys import writes

\* Names that are no labels.  "absent" is a chat without a row, "null" a row
\* without a name; "owner" and "push" are push names, "number" the user part
\* of a JID, "topic" what history calls the chat, "subject" a group's own.
Nameless == {"absent", "null", "empty"}
Others == {"owner", "push", "number", "topic", "subject"}

ASSUME NamesAssumption ==
    /\ MaxChanges \in Nat /\ MaxStops \in Nat /\ MaxImports \in Nat
    /\ Labels \intersect (Nameless \union Others \union {"none", "idle"}) = {}

Direct == {"phone", "lid"}
Chats == Direct \union {"group"}

VARIABLES
    up,               \* the bridge runs
    book,             \* whatsmeow's address-book store: a label, or "none"
    events,           \* contact events not yet handled, in order
    renaming,         \* the contact event being handled, between its statements
    fullName,         \* contacts.full_name of the phone JID, "none" for NULL
    alias,            \* jid_aliases has the pair
    name,             \* name[c]: chats.name
    live,             \* the live message being handled
    startup,          \* where the start-up goroutine is
    snapshot,         \* what GetAllContacts returned to it
    raced,            \* observer: the book's last change was undone or lost
    changes, stops, imports    \* bounds

handlers == <<renaming, live, startup, snapshot>>
vars == <<up, book, events, handlers, fullName, alias, name, raced, changes, stops, imports>>

NoLive == [at |-> "idle", chat |-> "group", name |-> "null"]

\* Rows of earlier versions, which named groups after who spoke first.
Init ==
    /\ up = TRUE
    /\ book \in Labels \union {"none"} /\ fullName = book
    /\ events = <<>> /\ renaming = "idle"
    /\ alias = FALSE
    /\ name \in [Chats -> {"absent", "push", "owner"}]
    /\ name["phone"] = "absent" /\ name["lid"] # "push" /\ name["group"] # "owner"
    /\ live = NoLive
    /\ startup = "aliases" /\ snapshot = "none"
    /\ raced = FALSE /\ changes = 0 /\ stops = 0 /\ imports = 0

-----------------------------------------------------------------------------
(* The address book (contacts_sync.go).                                    *)

\* The user names, renames or removes the person on another device: whatsmeow
\* stores it and dispatches the event.
BookChanges(l) ==
    /\ changes < MaxChanges /\ up /\ l # book
    /\ book' = l
    /\ events' = Append(events, l)
    /\ changes' = changes + 1 /\ raced' = FALSE
    /\ UNCHANGED <<up, handlers, fullName, alias, name, stops, imports>>

\* onContactUpdate, writeContactName: the contacts row.
ContactEvent ==
    /\ up /\ renaming = "idle" /\ events # <<>>
    /\ renaming' = Head(events)
    /\ events' = Tail(events)
    /\ fullName' = Head(events)
    /\ UNCHANGED <<up, book, alias, name, live, startup, snapshot, raced, changes, stops, imports>>

\* The chats a contact under the phone JID belongs to.
Reached(c) == c = "phone" \/ (c = "lid" /\ alias)

\* writeContactName's UPDATE: NULL when the entry was removed.
Renamed(l) == [c \in Chats |->
    IF Reached(c) /\ name[c] # "absent" THEN IF l = "none" THEN "null" ELSE l
    ELSE name[c]]

RenameChats ==
    /\ up /\ renaming # "idle"
    /\ name' = Renamed(renaming)
    /\ renaming' = "idle"
    /\ UNCHANGED <<up, book, events, fullName, alias, live, startup, snapshot, raced, changes, stops, imports>>

-----------------------------------------------------------------------------
(* Live messages (bridge.go).                                              *)

\* Mutant: the address book is looked up without aliases.
BookNameOwnJID(c) == IF c = "phone" THEN fullName ELSE "none"

\* addressBookNameFor.
BookName(c) == IF Reached(c) THEN fullName ELSE "none"

\* Mutant: the sender's push name names any chat.
MessageNameAny(c, incoming) == IF incoming THEN "push" ELSE "null"

\* chatNameFromMessage; "null" is a message that says nothing of the chat.
MessageName(c, incoming) == IF c \in Direct /\ incoming THEN "push" ELSE "null"

\* onMessage begins: chatNameFor reads the name that the upsert will write.
MessageArrives(c, incoming) ==
    /\ up /\ live.at = "idle"
    /\ live' = [at |-> "upsert", chat |-> c, name |->
                   IF c \in Direct /\ BookName(c) # "none" THEN BookName(c)
                   ELSE MessageName(c, incoming)]
    /\ UNCHANGED <<up, book, events, renaming, fullName, alias, name, startup, snapshot, raced, changes, stops, imports>>

\* Mutant: a message without a name for the chat writes an empty one.
UpsertedOver(old, new) == new

\* COALESCE(excluded.name, chats.name).
Upserted(old, new) ==
    IF new # "null" THEN new ELSE IF old = "absent" THEN "null" ELSE old

UpsertChat ==
    /\ up /\ live.at = "upsert"
    /\ name' = [name EXCEPT ![live.chat] = Upserted(@, live.name)]
    /\ live' = [live EXCEPT !.at = "alias", !.name = "null"]
    /\ UNCHANGED <<up, book, events, renaming, fullName, alias, startup, snapshot, raced, changes, stops, imports>>

\* recordJIDAlias, when the message shows the other JID.
RecordAlias ==
    /\ up /\ live.at = "alias"
    /\ alias' \in {alias, (live.chat \in Direct) \/ alias}
    /\ live' = NoLive
    /\ UNCHANGED <<up, book, events, renaming, fullName, name, startup, snapshot, raced, changes, stops, imports>>

\* onUndecryptableMessage names a direct chat it creates after the sender, and
\* leaves the name of one that exists.
Undecryptable(c) ==
    /\ up /\ live.at = "idle"
    /\ \E n \in IF c \in Direct THEN {"push", "owner", "number"} ELSE {"empty"} :
          name' = [name EXCEPT ![c] = IF @ = "absent" THEN n ELSE @]
    /\ alias' \in {alias, (c \in Direct) \/ alias}
    /\ UNCHANGED <<up, book, events, handlers, fullName, raced, changes, stops, imports>>

-----------------------------------------------------------------------------
(* History and groups.                                                     *)

\* processHistorySyncEvent: COALESCE(chats.name, excluded.name).
HistoryNames(c) ==
    /\ up
    /\ \E n \in {"null", IF c \in Direct THEN "topic" ELSE "subject"} :
          name' = [name EXCEPT ![c] = IF @ \in {"absent", "null"} THEN n ELSE @]
    /\ UNCHANGED <<up, book, events, handlers, fullName, alias, raced, changes, stops, imports>>

\* UpsertGroupChat, with a payload that has the subject or lacks it.
GroupUpsert ==
    \E n \in {"subject", "empty"} :
        name' = [name EXCEPT !["group"] =
                    IF n = "subject" THEN n ELSE IF @ = "absent" THEN "empty" ELSE @]

\* events.JoinedGroup.
JoinedGroup ==
    /\ up /\ live.at = "idle"
    /\ GroupUpsert
    /\ UNCHANGED <<up, book, events, handlers, fullName, alias, raced, changes, stops, imports>>

-----------------------------------------------------------------------------
(* The start-up goroutine (main.go) and restarts.                          *)

\* BackfillJIDAliases, if the LID store knows the pair; its failure is logged.
SyncAliases ==
    /\ up /\ startup = "aliases"
    /\ alias' \in {alias, TRUE}
    /\ startup' = "groups"
    /\ UNCHANGED <<up, book, events, renaming, fullName, name, live, snapshot, raced, changes, stops, imports>>

\* SyncGroupMetadata, or its failure.
SyncGroups ==
    /\ up /\ startup = "groups"
    /\ GroupUpsert \/ UNCHANGED name
    /\ startup' = "snapshot"
    /\ UNCHANGED <<up, book, events, renaming, fullName, alias, live, snapshot, raced, changes, stops, imports>>

\* SyncContactNames: GetAllContacts.
SyncSnapshot ==
    /\ up /\ startup = "snapshot"
    /\ snapshot' = book
    /\ startup' = "commit"
    /\ UNCHANGED <<up, book, events, renaming, fullName, alias, name, live, raced, changes, stops, imports>>

\* A commit of the snapshot undoes a change the contact event of which wrote
\* its row before.
Undoes == snapshot \notin {"none", book} /\ events = <<>>

\* Its transaction; an entry without a name is skipped.
SyncCommit ==
    /\ up /\ startup = "commit"
    /\ IF snapshot = "none" THEN UNCHANGED <<fullName, name>>
       ELSE fullName' = snapshot /\ name' = Renamed(snapshot)
    /\ startup' = "done" /\ snapshot' = "none"
    /\ raced' = (raced \/ Undoes)
    /\ UNCHANGED <<up, book, events, renaming, alias, live, changes, stops, imports>>

\* What no later start makes up for: a removal that was undone or is in flight.
RemovalLost == book = "none" /\ (raced \/ events # <<>> \/ renaming # "idle")

\* A stop loses what is in flight: the store is whatsmeow's and keeps the book.
Stop ==
    /\ up /\ stops < MaxStops
    /\ up' = FALSE /\ stops' = stops + 1
    /\ events' = <<>> /\ renaming' = "idle" /\ live' = NoLive
    /\ startup' = "aliases" /\ snapshot' = "none"
    /\ raced' = RemovalLost
    /\ UNCHANGED <<book, fullName, alias, name, changes, imports>>

Start ==
    /\ ~up /\ up' = TRUE
    /\ UNCHANGED <<book, events, handlers, fullName, alias, name, raced, changes, stops, imports>>

-----------------------------------------------------------------------------
(* The import of an older bridge's store (import_baileys.go), a process of  *)
(* its own that may run beside the bridge.                                  *)

\* Its upsert of a chat, which writes over any name the one that store has for
\* it, or else the digits of the JID: for a group, those of its id.
ImportBaileys(c) ==
    /\ imports < MaxImports
    /\ \E n \in {"number", IF c \in Direct THEN "push" ELSE "subject"} :
          name' = [name EXCEPT ![c] = n]
    /\ imports' = imports + 1
    /\ UNCHANGED <<up, book, events, handlers, fullName, alias, raced, changes, stops>>

LiveStep == UpsertChat \/ RecordAlias
ContactStep == ContactEvent \/ RenameChats
StartupStep == SyncAliases \/ SyncGroups \/ SyncSnapshot \/ SyncCommit

Next ==
    \/ \E l \in Labels \union {"none"} : BookChanges(l)
    \/ \E c \in Chats, incoming \in BOOLEAN : MessageArrives(c, incoming)
    \/ LiveStep \/ ContactStep \/ StartupStep
    \/ \E c \in Chats : Undecryptable(c) \/ HistoryNames(c) \/ ImportBaileys(c)
    \/ JoinedGroup \/ Stop \/ Start

\* Goroutines run, and a supervisor starts the bridge again.
Fairness ==
    /\ WF_vars(LiveStep) /\ WF_vars(ContactStep) /\ WF_vars(StartupStep)
    /\ WF_vars(Start)

Spec == Init /\ [][Next]_vars /\ Fairness

-----------------------------------------------------------------------------
(* Properties.                                                             *)

TypeOK ==
    /\ up \in BOOLEAN /\ alias \in BOOLEAN
    /\ book \in Labels \union {"none"} /\ fullName \in Labels \union {"none"}
    /\ snapshot \in Labels \union {"none"}
    /\ events \in Seq(Labels \union {"none"})
    /\ renaming \in Labels \union {"none", "idle"}
    /\ name \in [Chats -> Labels \union Nameless \union Others]
    /\ live \in [at : {"idle", "upsert", "alias"}, chat : Chats,
                 name : Labels \union {"null", "push"}]
    /\ startup \in {"aliases", "groups", "snapshot", "commit", "done"}
    /\ raced \in BOOLEAN /\ changes \in Nat /\ stops \in Nat /\ imports \in Nat

\* A group is called what its own metadata says: nothing the bridge does names
\* it after a person, whoever speaks or is renamed, or takes its subject away
\* (groups.go:82-91, contacts_sync.go:75-77, MYC-3555).  Only the import of an
\* older store writes over it, which is a finding.
GroupKeepsSubject ==
    [][imports' = imports /\ name["group"] # name'["group"] =>
          /\ name["group"] # "subject"
          /\ name'["group"] \in {"null", "empty", "subject"}]_vars

\* Only the removal of its label takes a chat's name away (bridge.go:374-376).
NamesAreNotBlanked ==
    [][\A c \in Chats : name[c] \notin Nameless /\ name'[c] \in Nameless =>
          renaming = "none" /\ Reached(c)]_vars

\* A direct chat that messages keep naming ends up under the user's label
\* for them, or without one under their push name, whatever was read before a
\* rename and written after it (bridge.go:378-381, contacts_sync.go:70-73).
\* Unless the start-up synchronisation undid the book's last change, or a stop
\* lost its removal: two findings.
LabelSettles ==
    \A c \in Direct :
        []<>(live.at = "upsert" /\ live.chat = c /\ live.name # "null")
          => <>[](raced \/ name[c] = IF Reached(c) /\ book # "none" THEN book ELSE "push")

-----------------------------------------------------------------------------
(* Why the first two hold: a message names no group.                       *)
NamesInv == TypeOK /\ (live.chat = "group" => live.name = "null")
=============================================================================
