# A TLA+ model of whatsapp-mcp

This directory holds a formal model of the `whatsapp-mcp-plugin` repository:
TLA+ modules, the TLC configurations that check them on small instances, and
theorems that TLAPS proves for every instance. `PROJECT.json` ties every
definition to the source lines it stands for and lists runs, mutants, findings,
hazards and theorems. Line references below are to `src/whatsapp-bridge/`
unless a path says otherwise.

How to run, in this directory:

    tlc -workers 2 -config SendFlow.cfg MCSendFlow.tla
    tlapm SendFlowProofs.tla

and likewise for the other modules: `X.cfg` instantiates `MCX.tla`
(`SendRecording.cfg` also `MCSendFlow.tla`), `XProofs.tla` holds the theorems.
Three proof modules are about two components each and extend both:
`StoreProofs` (`Store`, `Backup`), `ChatProofs` (`ChatNames`, `Voice`) and
`ProspectProofs` (`Pings`, `Crm`). That is why the second of each pair carries
its name in `BackupSpec`, `voiceVars`, `CrmNext` and the like.

## 1. The system

The repository is a bridge between a WhatsApp account and an LLM assistant. One
Go process, the *bridge*, holds the WhatsApp session (through the library
whatsmeow), archives every message in an encrypted SQLite store, and serves a
local HTTP API. A stateless Python *MCP server* turns that API into tools. A
second Go process, *prospect-api*, serves a CRM-flavoured API over the same
store and sends pings through the bridge. The user approves what is sent: a
message is first a *draft*, then confirmed.

### Inventory

| Component | State it keeps | Operations | What makes it correct |
|---|---|---|---|
| **Send flow** (sends.go, sends_media.go, sends_reconcile.go) | `sends` rows, files in the outbound directory | create draft, confirm, expire, upload, send, record, reconcile at boot | a confirmed draft is delivered at most once; its row ends up saying what happened; bytes live as long as they can be needed |
| **Link and authentication** (auth.go, watchdog.go, bridge.go 50-330, auth routes of server.go) | device identity, socket, `connected`, `authenticated`, `authState`, outage clock, `loginRunning`, Fatal | RunAuth, loginLoop, pairing code, Reconnect, session events, watchdog tick | one pairing loop at a time; sends only over a live link; outages end; a logout ends in a restart |
| **Message store** (bridge.go 332-705, undecryptable.go, raw_type.go, content_decode.go, history_sync.go 50-253) | `messages` and `chats` rows | live message, retry, undecryptable marker, history insert and repair, archive a sent message, receipt, call | content is never lost; placeholders give way to content; counters count what is there |
| **History sync and backfill walk** (history_sync.go 255-640, backfill_walk.go) | per-chat walk: rounds, anchors, budget, stop reason | request history, next round, sweep for empty rows | a walk ends; it does not spend another's budget; progress is real |
| **Transcription and media backfill** (whisper.go, backfill.go, media_download.go) | a queue of 64 jobs, worker, sweep, transcript columns | enqueue, transcribe, sweep, close | nothing is lost for good; a transcript is written once; no send on a closed queue |
| **Names, contacts, groups, aliases** (contacts_sync.go, groups.go, aliases.go, crm_enrich.go) | `chats.name`, `contacts`, `jid_aliases` | name on message, contact event, address-book sweep, group subject, merge of phone and @lid | the best label known wins and is not lost to a worse or staler one |
| **Store, keys, migrations, backup** (db.go, keychain*.go, migrations, backup.go) | the key, schema version, snapshots | open, mint or read key, migrate, snapshot, prune | a key is never minted over existing data; a migration survives a crash; backups are whole |
| **Process life cycle** (main.go, config.go) | boot order, background loops | boot, serve, fatal exit, stop | work interrupted by a stop is picked up or closed at boot |
| **Read API** (server.go, call_result.go) | none | list, search, status, pagination | a page neither skips nor repeats |
| **Conversions** (normalize.go, scrubber.go, content_decode.go, ...) | none | pure string and protobuf functions | covered by their unit tests |
| **Vault export and audit** (export_vault.go, reconcile_vault.go) | one Markdown file per chat, in a directory the user also writes to | plan units and names, heal names, guard, write, sweep, audit | success means every chat is on disk in a file of its own; no file of another is harmed |
| **Baileys import** (import_baileys.go) | none | a one-time merge of an older bridge's store | what it does to chat names is in `ChatNames`; the rest is outside this model |
| **Remote fetch, presence** | files | one download, one call forwarded | outside this model |
| **MCP server** (src/whatsapp-mcp-server) | none | one HTTP call per tool, 30 s timeout | its timeout is the hang-up of SendFlow |
| **prospect-api: pings** (src/prospect-api: handlers_relay.go, handlers_notify.go, quiet_hours.go, wa_budget.go) | `wa_pings`, `pending_pings`, digest clock | ping with budget, quiet hours, flush, digest | the hourly budget holds; a queued ping is delivered, and once |
| **prospect-api: CRM** (crm.go, backfill_phones.go, create_missing_crm.go) | the notes of a vault the user also edits | fill, rotate, force, backfill, create | no value a note held is forgotten |
| **Installers, hooks** | none | shell scripts | they give the restart fairness the models assume |

### How the parts interact

- *Goroutines in one process.* HTTP calls run one goroutine each; whatsmeow
  dispatches live events one after the other; history chunks, transcription,
  sweeps, the watchdog and the pairing loop have goroutines of their own. They
  share SQLite (each statement is atomic, few are grouped in a transaction) and
  a handful of fields under `b.mu`.
- *Calls.* The send flow asks the link whether it is ready (`IsConnected`) and
  archives what it sent in the message store. The watchdog and the API call
  `Reconnect`. The walk is driven by the end of a history chunk. Messages,
  history and sweeps feed one transcription queue.
- *Callbacks.* `handleEvent` receives messages, undecryptable notices,
  connection and logout events and history from whatsmeow.
- *Processes.* A supervisor restarts the bridge. The MCP server is its client;
  prospect-api sends through it. The exporter opens the same store while the
  bridge serves. Two bridges may be started together.
- *People.* The owner edits notes in the vaults while the programs rewrite them.

### Hard behaviours

Two confirms racing for a draft; a client that hangs up while its request
holds a half-done send; a stop between two statements; a network answer that
does not say whether the message arrived; a logout while a login is in
progress; a device deletion that lands late; retries, placeholders and history
writing one row in any order; history interleaved with live events; statements
that fail one at a time; a walk that asks WhatsApp for ever older history; a
queue that is full or closed; a crash between two ALTERs; two first runs that
mint a key each; a clock that crosses the end of a quiet window between a check
and a write; a file system that holds two names equal where the program does
not. `PROJECT.json` lists them as hazards, each at its line and with the
properties that cover it, or a note that says why none does.

## 2. Plan

Done:

1. `SendContract`, `SendFlow`: the send flow and what it promises.
2. `Link`: pairing, reconnecting, logout, watchdog.
3. `Archive`: message rows under every writer, and `ArchiveContract`, what it promises.
4. `BackfillWalk`: sweeps, the walker's brakes and budget, the chunks that feed it.
5. `ChatNames`: every writer of a chat's name, the Baileys import's included,
   statement by statement.
6. `Voice`: the transcription queue, its worker, its sweeps, its shutdown.
7. `Store`: key resolution, opening, migrations; `Backup`: the snapshots.
8. `Pings` (prospect-api): budget, quiet hours, queue, flush.
9. `Crm` (prospect-api): what rewrites a note.
10. `Export`: the vault export and its audit.
11. Proofs: every safety invariant and every action property that a run checks,
    and the refinements of `SendContract` and `ArchiveContract`, are theorems
    (section 5).

Left, in this order:

1. Algorithms against reference definitions: keyset pagination and the
   watchdog's schedule.
2. An abstract specification of the walk (requests as a token of a budget) and of
   the ping queue.
3. Calls, media downloads on request, and the planning part of the bootstrap of
   missing notes.

Composition: the modules meet at statements. `SendFlow` takes the link's
readiness as given (a confirm that finds it not ready changes nothing);
`Archive` takes a send as one event; `BackfillWalk` takes from `Archive` that a
chunk inserts a row or repairs a blank one, and nothing else; `Voice` takes from
it that a voice note's row appears and from `ChatNames` that a chat gets a name.

Runs: one per component with its hazards enabled, one more where liveness or a
recording promise needs calmer assumptions. Where the code does not do what the
repository says of it, the finding is described in `PROJECT.json`; if a property
states it, the module keeps that property with a comment, and no configuration
checks it.

## 3. The modules

### SendFlow, SendContract

`SendFlow` has one action per statement of `handleCreateDraft` and
`handleConfirmSend` that touches the `sends` table, the outbound directory or
WhatsApp, one per step of `ReconcileInFlightSends`, and four for the
environment: `HangUp` cancels `r.Context()`, `TimePasses` makes a draft older
than its TTL, `Stop` ends the process anywhere, and `Boot` starts it. `pc[h]` is
the statement a call will execute next.

| Code | Model |
|---|---|
| `sends.status`, `created_at` | `row`, `stale` |
| files under the outbound directory | `file` |
| the archived `messages` row | `archived` |
| what WhatsApp accepted | `delivered` |
| request goroutine, its draft, its context | `pc`, `req`, `gone` |
| `ReconcileInFlightSends` rows | `stuck`, `freeing` |

A statement on `r.Context()` fails if the client is gone; one on the detached
`persistCtx` does not. A failed statement has no effect. `SendMessage` either is
acknowledged, or fails having delivered or not: the code cannot tell these two
apart. The text and the recipient are abstracted; validation that changes
nothing is a refusal to start.

`SendContract` is the promise: a draft is offered, approved once or withdrawn;
an approval arms one delivery, which happens or is lost. `ImplementsContract`
maps `row` to the contract's phase and the calls at the send to its armed set.

### Link

One action per section in which RunAuth, a `loginLoop` goroutine, `Reconnect` or
the pairing-code handler holds `b.mu`, or per call into whatsmeow, and one per
event of `handleEvent`. whatsmeow is external and is modelled by what the bridge
relies on: the device identity, whether the device is deleted, the socket, and
`Connect` refusing while a socket exists or the device is deleted.

Assumptions, each named in the module:

- An event is handled in the same step that changes the socket, since whatsmeow
  dispatches it synchronously before it goes on.
- `LoginSettled`: a new handshake or a logout does not complete inside the few
  microseconds between the end of a QR channel and the loop's next step.
- `PromptDelete`: whether `Store.Delete`, which whatsmeow starts when it
  dispatches a logout, lands within the two seconds that bridge.go:302 waits.
  The run, `LogoutRestarts` and `PairingGoesOn` assume it; without it a bridge that
  was logged out can stay logged out with nobody to restart it, a finding.
- The nudge schedule of the watchdog is abstracted to "from time to time".

### Archive, ArchiveContract

The messages of one chat. One action per SQL statement of `onMessage`,
`onUndecryptableMessage`, `processHistorySyncEvent`, `backfillDecodedContent` and
the archiving end of `handleConfirmSend`. Live events are sequential (`live` is
the one being handled), history is a goroutine of its own (`hist`), so their
statements interleave. Any statement may fail, which the code logs and skips.
`Restart` may fall between any two statements.

A message is named by its timestamp; `payload[m]` is what the decoder makes of
it, the same at every delivery; a row has its content (nothing, a blank
`system` row, the undecryptable marker, or the payload), its `raw_type` and
whether it has media keys. Initial rows include those that older decoders left:
blank rows and media without keys. Messages interact only through the chat row
and the handlers, so two of them show every interleaving of two rows.
`received` and `recalled` are history variables used by the properties only.

`ArchiveContract` is the promise without rows and statements: of a message the
archive knows nothing, that it exists, that it was blank, or what it says, and
where its media is; `Grows` is the only way its knowledge changes, and a message
that was handled live or gone through by history is known as well as that writer
could tell. `ImplementsArchiveContract` maps a row to what it tells (`Knows`,
`Keys`). It says more than `NeverLosesContent`: keys are kept too, so an insert
that replaces a row is a violation.

Two facts the model uses are worth knowing: the store's connection string does
not turn foreign keys on (db.go:53-60), so a message whose chat row is missing is
stored all the same; and whatsmeow takes a live message out of its envelope
before it dispatches it, whereas history delivers the envelope, which
`extractFromMessage` does not open. The latter is a fact about whatsmeow, not
about this repository.

### BackfillWalk

`sweep[s]` is where one call of `SweepDecodeBackfill` stands, `walk[c]` the
walker's entry for a chat, `spent` its budget, `hist` the chunk the history
goroutine is handling, `pending` the goroutines `continueWalk` started, and
`asks` what WhatsApp has been asked and has not answered. A message is named by
its place in the chat, and `Second` is its timestamp: WhatsApp, asked for what is
before a message, goes by places, whereas the walker's own comparisons (`Before`,
`Oldest`, the second brake) go by seconds, and two messages may share one. A row
is absent, blank or full. One action per section under the walker's mutex, per
statement, per send, and per answer.

`WalkReads` is about rows that are `Alone` in their second. A blank row in the
same second as the oldest of a chunk is not older to the walker, which stops
short of it (a finding). `WalkLeavesNoGap` makes no such exception.

- A failure of any kind (a statement, a send, an answer lost or repeated) uses
  one of `MaxFaults`. `excused[c]` remembers the rows that no walk can see again
  (the newest row when history *before* it was asked for) and those a statement
  failed on; `fate[c]` remembers how a walk ended. Both are read by properties
  only.
- History that WhatsApp sends unasked at pairing is not modelled; the operator's
  own request, whose answer the walker cannot tell from its own, is.
- The stale sweep (`walkStaleAfter`) runs only inside a call that then resets
  every walk, so it has no effect of its own (a finding).

### ChatNames

One person under a phone JID and a LID, in the address book under the former,
and a group both may speak in. `name[c]` is `chats.name` up to where it came
from: the user's label, a push name, a number, a group's subject. `book` is
whatsmeow's store, `events` the contact events not handled yet, `live` and
`renaming` the handlers between two statements. Statements succeed.

The start-up synchronisation takes a snapshot of the book and commits it later;
the book may change, and contact events be handled, in between. The observer
`raced` is true while the book's last change has been undone by such a commit, or
was a removal that a stop lost: the code has no remedy for either, both are
findings, and `LabelSettles` excuses them. `ImportBaileys` is the upsert of the
one-time import, a process of its own that writes over any name, a group's
subject included (a finding); `GroupKeepsSubject` is therefore about every step
but the import's.

### Voice

`row[n]` is absent (or has no media keys), pending or done; `queue` and `job` are
the transcriber's, `batch[s]` what a sweep has read and not offered yet. Enqueue
is one action with its lookup of the chat, its exclusion lists and the drop when
the queue is full; `Panics` is a send on the channel that `Close` closed.
Notes are numbered by their time, and names are only learned. A process starts
with any of `Configs`. `Crowded` in `SelfHealing` is the code's limit: a sweep
reads the newest `Limit` rows (`Newest`), so that many notes that never get a
transcript hide the older ones.

### Store

The secret store's items (`secret`), the file (absent, empty, or encrypted under
a key), how many columns of each migration exist and which versions are
recorded, and for each process its place between the first read of the key and
serving. `platform` decides whether the write of a key is create-only (macOS) or
overwrites (Linux, Windows). Assumption `OverlapEverywhere = FALSE`: where the
write overwrites, two processes do not start together. With it set the run finds
two first runs that mint a key each and lose one (a finding). Nothing in the
environment deletes an item of the secret store. `MoveAside` is what the guard's
message tells the operator to do.

### Backup

The clock, the published snapshots and the temporary files with their stamps and
whether they are whole, and the phase of `Run`. VACUUM, the rename and the listing of the
directory fail or a stop falls between any two of them. The clock does not run
while a snapshot is taken and is never set back (that the local-time stamps are
not monotone when it is, is a finding). `Foreign` is the number of files that look
like snapshots to `Prune` and are not, and sort last: each takes a slot of
retention for good. With `Keep` of them every snapshot is deleted at once, which
is a finding; `BackupAssumption` has fewer.

### Pings

Instants are Unix time, in ticks; a `Day` and an `Hour` are so many of them. What
the owner's clocks show (`Local`) is shifted once, at the instant the settings
say: summer time begins or ends. `NextWakeTimes` is the code's: today's end in
local time, as `time.Date` makes it an instant, or 24 hours after that.
`QuietUntil` is what the settings mean, and `Misjudged` says of which requests the
two differ: the end is shown never, or the clocks are set back after today's end
and before tomorrow's. That is a finding, and `QuietIsKept` lets such a request go.

Each ping is a request
of one of three kinds with its place in the handler; `counted` is what its
budget transaction read, so that the snapshot and the insert are two steps and
SQLite's refusal to upgrade a stale read is a guard. The queue, the flush and
the marking of a delivered row are separate steps; a call to the bridge may
deliver although its answer is lost. An error at the budget's transaction, the
refusal of a busy store or any other, drops a relay with a log line (`Contended`,
`Unbudgeted`).

### Crm

One note. Its contact field stands for email and phone, its history for emails
and phones. An entry is quoted or bare, since YAML reads a bare number as an
integer and the code's `stringField` reads only strings. A request reads the
file, and later empties and rewrites it: two steps, and the owner, another
request or a stop may fall between any of them. A request that changes another
field of the note (mode "other") leaves contact and history as it read them, and
rewrites the file all the same. `ever` (values the note held)
and `kept` (where the owner's text stands) are observers; they start anew from a
file that was changed since it was read, forced, or cut short: a lost update of
two overlapping writers is what the code does, and not a violation. Which note a
request finds is left out, and so is the tail that a shorter of two overlapping
writes may leave.

### Export

Chats with a name, a newest time and a number of rows, the alias edges, and a
directory of files. A file name is the sequence of its parts, so the code's three
levels of decoration are appends and two names clash when their fold keys are
equal. `fs` is the file system's own idea of equal names, which may be coarser
than the planner's: that is what the pre-write guard and the final sweep are
for. `StartExport` is the plan (units, closures, display names, tags, levels),
`Heal` one rename (where one fails the next member's file is tried),
`GuardAliases` the guard, `Write` one unit's file, `Finish` the sweep and the return
code, `Exit` the end of the process; writes come in any order, and one may fail or
be cut short by `Kill`. A write starts with the frontmatter, so what is left of it
(`Torn`) is a file without a jid, a note to every later run, or one with its
identity and time and not all of its rows. The latter is `cut`: the next export
takes it for whole and skips it, a finding, and `RunIsComplete` asks nothing of
what such a file holds. `PlanFor` is shared with the audit
(`ReconcileVault`), whose MISSING and COLLISION are `Missing` and `WouldDestroy`.

The database changes between runs, except for messages, which arrive during a
run as well, in two steps as in `onMessage`: the chat's time (`MessageTime`) and
the row (`MessageRow`). `coming[j]` says whether a message of `j` is between the
two, and whether its time is "new", newer than all that any export has seen, or
"late". `late[j]` counts the rows a skip by time cannot see: history, a resent
message, a second message of one second, and a row whose time an export saw
before the row was there; where a resent message sets the chat's time back, all
of its rows (a finding). A file carries the `late` it was written at: what it may
lack is what came late after it, and nothing else. Both are read by properties
only. A row is one that renders; sanitising of names, frontmatter that other
tools add and symbolic links are left out.

## 4. What the runs check

| Run | Instance | Shows |
|---|---|---|
| `send_flow` | 2 drafts (one with a file), 2 concurrent calls, hang-ups everywhere, failing statements, 1 stop | `AtMostOnce`, `SentWasDelivered`, `LiveDraftHasBytes`, and the refinement `ImplementsContract` |
| `send_recording` | the same, statements succeed, no hang-up at the send or the failed-update | `ConfirmedIsOwned`, `AcknowledgedIsRecorded`, and, with fairness, `ConfirmedResolves` |
| `link` | 2 pairing goroutines, the watchdog, 1 operator, arbitrary network, logouts, restarts | `OneLoginLoop`, `SendsNeedLink`, `OutageIsTimed`, `PairingGoesOn`, and, with fairness, `LogoutRestarts`, `OutageHeals` |
| `archive` | 2 messages of every kind, failing statements, restarts | `NeverLosesContent`, `RetryRecovers`, `HistoryRepairs`, `LabelNeverLies`, and the refinement `ImplementsArchiveContract` |
| `backfill_walk` | 1 chat of 5 messages, two in one second, blank throughout or with a hole; chunks of 2 rows, 2 overlapping sweeps, 1 live message, 1 operator request, 1 fault | `RequestsAreBounded` and `WalkLeavesNoGap`, and, with fairness, `WalkReads` |
| `chat_names` | 3 chats, 1 label, 2 changes of the book, 1 restart, 1 row imported | `GroupKeepsSubject`, `NamesAreNotBlanked`, and, with fairness, `LabelSettles` |
| `voice` | 2 notes in 2 chats, a queue of 2, a sweep of 1, 3 configurations, 1 fault, 1 stop | `PrivateChatsAreClosed`, and, with fairness, `SelfHealing` |
| `store` | 2 processes, 2 accounts, 3 keys, 4 starts, both kinds of secret store | `KeyNotLost`, `MintNeedsNoStore`, `RecordedIsWhole` |
| `backup` | interval 3, delay 1, keep 3 with a foreign file among them, 10 instants | `SnapshotsRestore`, `SnapshotsAreFresh` |
| `pings` | 2 pings, a day of 4 ticks, an hour of 2, a budget of 1, 7 settings, 1 fault | `BudgetHolds`, `TwiceOnlyInDoubt`, `QuietIsKept`, and, with fairness, `QueuedIsDelivered` |
| `crm` | 2 concurrent requests of every mode, 3 values, 1 edit or stop | `NothingForgotten` |
| `export` | 3 persons' JIDs (two of one person) and a group, 3 directories, 2 file systems, 2 exports, 2 events | `RunIsComplete`, `ForeignFilesSurvive`, `RefusalIsDeserved` |

Every property has a mutant, a plausible bug in a mapped definition, that breaks
it in the run that checks it.

### Bounds, and why they are enough

- Send flow: the races are between two calls on one draft; the second draft
  shows that they are per draft and lets a media draft and a text draft share
  the handlers. One stop reaches every program point, the reconciliation
  included (the theorems cover any number).
- Link: at most one pairing loop runs, so two goroutine slots show the race to
  enter. A goroutine that finds no free slot has to wait in the model.
- Archive: messages interact only through the chat row and the handlers, so two
  of them show every interleaving. The theorems hold for any set.
- Backfill walk: with a window of 2, a budget of 2 and 2 rounds every brake is
  the first to hold somewhere; a chat of 5 leaves rows on both sides of a walk,
  and the two messages of one second fall within a chunk or on both sides of its
  end. Two sweeps are the smallest number in which one re-arms another's walk.
  Chats share nothing but the budget, which the second sweep spends.
- Chat names: one label and its removal give a rename, a removal and a rename
  back in two changes; one imported row meets every state of the others.
- Voice: with a limit of 1, one note can crowd another out; `VoiceAssumption`
  keeps the code's order, `Limit <= QueueSize`.
- Store: three keys are one per process and one of the existing store; four
  starts let a first run be interrupted, overlapped and repeated. The number of
  columns per migration is the code's own.
- Backup: ten instants are more than three intervals; restarts, unlike
  instants, are not bounded, so a process may restart more often than the
  interval. Three slots, one of them foreign, leave two, the fewest in which
  retention deletes a snapshot and keeps an older one.
- Pings: the window lies across midnight, within the day or nowhere; in the night
  of the first kind the clocks are set back or forward during the window, or such
  that its end is shown twice or never. `MaxTime` leaves two days after the last
  request for what is queued.
- Crm: three values let a rotation return to a value that was rotated out.
- Export: two runs, so that the second meets what the first left; two events,
  so that a change and a failure, or two changes, fall together; 3 rows. Messages
  arrive in the chats of `Busy`.

The remaining counters (`MaxChanges`, `MaxStops`, `MaxImports`, `MaxFaults`, `MaxArrivals`,
`MaxAsks`, `MaxOperatorAsks`, `MaxLaunches`, `MaxEvents`, `MaxRuns`) are marked
as bounds where they are declared, and occur in the guards of environment
actions only. Deadlock is not checked where such a bound, or a sweep that is
over, lets the model stop.

### Fairness

- A goroutine that can take a step does (`WF` of `HandlerStep`, `AuthStep`,
  `LoopStep`, `ReconnectStep`, of `HistoryStep` and the sweeps of `BackfillWalk`, of
  the handlers of `ChatNames`, `Voice` and `Pings`): every call it makes has a
  timeout (upload 5 min, send 30 s, persist 15 s, transcription 10 min), and no
  section waits while it holds a lock another one needs.
- Tickers fire: the watchdog's (`WatchdogNudge`), the transcription sweep's
  (`SweepBegin("timer")`), the flush of the ping queue (`Flush`); and the clock of
  `Pings` runs.
- The supervisor starts the bridge again (`WF` of `BootStep`, `NewBridge`, `Start`,
  `ProcessStarts`):
  `KeepAlive` in the launchd plist (`scripts/install-bridge-autostart.sh:184`) and
  `Restart=on-failure` in the systemd unit (`:222`). A stop that an operator asks
  systemd for lasts until the operator starts the bridge again; what waits for a
  boot waits that long.
- whatsmeow finishes a handshake the network allows and a deletion it began.
- WhatsApp answers a request for history or never will: `Respond` is fair and
  `Lose`, which is one of its outcomes, counts as a fault.
- Not assumed: that anybody scans a code, calls the API, starts a sweep or mends
  the network (`OutageHeals` has the hypothesis `<>[]net`), that whatsmeow's own
  reconnect keeps trying, that a client waits for its answer, that a process
  survives, that messages keep naming a chat (the hypothesis of `LabelSettles`)
  or that the timer's sweep finds the queue empty (that of `SelfHealing`).

## 5. What is proved

TLAPS proves the following for every value of the constants that satisfies the
module's named assumption (`SendAssumption`, `LinkAssumption`,
`ArchiveAssumption`, `StoreAssumption`, `BackupAssumption`, `PingsAssumption`,
`WalkAssumption`, `CrmAssumption`, `NamesAssumption`, `VoiceAssumption`,
`ExportAssumption`; TLC evaluates these in the runs too). A theorem that needs more
says so in its statement. Every inductive invariant was checked by TLC on the
component's instance before it was proved.

**SendFlowProofs.** `SendInvariant`: `SendInv` is inductive. `AtMostOnce` alone is
not: that nothing was delivered before a send is known only because the guarded
flip closes the draft and one call at most is at the send, so the invariant
adds `SendShape` (past the flip the row is closed; before the send nothing was
delivered, after an acknowledged one exactly one message was) and, for the
bytes, `RowShape` and `RemovalShape` (whoever deletes them is about a draft that
expired or closed). From it follow `TypeCorrect`, `DeliveredAtMostOnce`,
`SentRowsAreTrue` and `LiveDraftsKeepBytes`. `FlowImplementsContract` shows that
every step of the flow is a step of the contract or a stutter: the insert is
Offer, the expiry Withdraw, the flip Approve, an acknowledged or ambiguous send
Deliver or Lose, a stop Lose. `NoConfirmedRowIsForgotten` proves
`ConfirmedIsOwned` where statements succeed and no client hangs up at the send
or the failed-update. `AcknowledgedIsNotLost` proves `AcknowledgedIsRecorded` where
statements succeed, hang-ups allowed everywhere: `RecordShape` says that one call
at most is between the flip and the archive row of a draft, and that until it
gets there the row is still 'confirmed' (or a late expiry has marked it).

**LinkProofs.** `LinkInvariant`: `LinkInv` is inductive. The gate of the send flow
is sound (`SendGateIsSound`) because `connected` is up only over a live socket of a
device that no logout has condemned and no pairing loop is about to drop
(`ConnectedShape`); the outage clock needs `ClockShape`, which speaks of unpaired
bridges as well, since pairing turns one into the other. `LoginLoopIsUnique`,
`OutagesAreTimed` and `LinkTypeCorrect` follow. `PairingLasts` proves `PairingGoesOn`
under `PromptDelete`: `PairingShape` says that while a deletion is under way the
goroutine of that logout waits for it, and that whoever is about to connect
either has an identity or a clear way - no identity and a closed socket, so that a
network that is there lets the loop go on - or a deleted device, which ends in a
restart.

**ArchiveProofs.** `ArchiveInvariant`: `ArchiveInv` is inductive. The lemma
`RowsMove` reduces every action to one relation on a row (`RowMove`), so that the
properties are argued once and not per writer. `RowShape` says that what was
received or recalled is stored, `ChunkShape` that the row a chunk is working on
reads once it has been looked at. `ContentIsKept` is an action property;
`RetriesRecover`, `HistoryRepairsRows`, `LabelsAreTrue` and
`ArchiveTypeCorrect` are invariants. `ArchiveKeepsContract`, the refinement: a step is
about one row (`OneAtATime`), a row that moves records something the contract
allows (`MoveRecords`), and the invariant after the step says that what it
acknowledges is known.

**BackfillWalkProofs.** `WalkerIsBounded` rests on `BoundInv`. The counters alone say
nothing, since a second sweep sets the budget back while the walks of the first
go on; what is invariant is a sum: what was asked plus what may still be spent
fits the resets so far, and for one chat what was asked plus the rounds its walk
has left fits the sweeps that are past the chat. `WalksLeaveNoGap` rests on
`GapInv`: behind every request in flight, and behind the part of a chunk that has
been handled, nothing readable is unread. Chunks are handled and walks begun from the
newest message of a set; that there is one takes the well-foundedness of the
natural numbers.

**StoreProofs.** `StoreInv` gives `StoreTypeCorrect` and `RecordedMigrationsAreWhole`:
a process counts a statement as run only when its column is there (`PassedShape`),
also when another process added it. `KeysAreNotLost` and `MintingNeedsNoStore`
assume `OverlapEverywhere = FALSE`; `KeyShape` says that processes which run at once
share their account and the create-only write, and that one about to write
either has no data beside it or will be refused.

Of Backup, `SnapshotsAreWhole` and `SnapshotsStayFresh` from `BackupInv`.
`FilesShape` ties the newest published file to the last rename, `ClockShape` says how
long a run may still go on without a snapshot: to the end of the delay, or to a
tick that comes before the last snapshot is two intervals old.

**ProspectProofs.** Of Pings, `BudgetIsKept`: the transaction inserts only over the snapshot it
counted, so an insert meets the count it was decided on; that no row is from the
future makes the hour before the newest row the only one that grows.
`TwiceNeedsDoubt` from `DoubtInv`: what is queued, or in the hands of the flush, has
not been received or is in doubt. `QuietHoursAreKept`, for every window, every
length of a day and every change of the clock by at most half a day: `QuietInv`
says of a ping on its way that it may go now, of one in the queue that its due
time is not before the end of the window it was asked for in, and of one about to
be queued that it was asked for in a window that may be over by now. The rest is
arithmetic: `InQuietHours` and `NextWakeTimes`, which go by cases as the code does,
agree with `Quiet`, which says without cases how long the window lasts, also where
it lies across midnight, is empty, or ends at the tick of the request; and where
the clocks change, a wake time before the window's end is one that `Misjudged`
names.

Of Crm, `ValuesAreNotForgotten`: between the read and the write of a request
the file may be emptied, cut short or changed by others, so `NothingForgotten`,
which speaks of settled files, is not inductive. `LastInv` covers the moments in
between: the last writer of an emptied file has in hand all that was in it.
`CrmTypeCorrect` and `CallInv` carry it.

**ChatProofs.** Of ChatNames, `GroupsKeepSubjects` and `NamesAreKept` from `NamesInv`:
a message that is being handled brings no name for a group (`chatNameFromMessage`
says nothing of one), so the COALESCE of its upsert finds nothing to write. The
lemma `NamesStep` sorts the writers of a name into kinds; the import is one, which
`NamesAreKept` includes and `GroupsKeepSubjects` tells apart. Of Voice,
`PrivateChatsStayOut`: `chatExcluded` answers for a chat that is kept out whether
its lookup succeeds or fails, so none of the queue's producers - a handler with a
note of an earlier moment in hand, a sweep with rows it read before the name was
known - adds to what the queue holds of it. That the queue's entries of a chat
are fewer after the worker took one is an injection between two sets of positions.

**ExportProofs.** `ExportInvariant`: `ExportInv` is inductive, for any set of chats,
any directory, and any file system, however coarse (`KeyOn`). Its parts follow a
run. `UnitsInv`: the connected components the plan is made of are disjoint, and a
chat in the closure of a unit but not one of its rows is empty or came after the plan. `PlanInv`: the
names are those of `PlanFor` on the directory as it was; the three levels of
decoration are unfolded, so that what is left over is what clashes with the
whole JID in it, or with an entry that is not a chat's (`RefusalsDeserved`).
`DiskInv` and `SkipInv`: a file whose time is not older than a chat's has all of the
chat's rows but the late ones, unless it was cut short, which is why the skip by
time is sound up to these; `NewInv` says that a time which is still new is newer
than every file and every plan. `WriteInv` is about the writes in whatever order: one still to be done does
not lead to a foreign file - this is what the guard establishes, against the
whole plan, before the first write - and one that is done has its file, unless
another unit led to the same entry after it. That other unit is what the sweep
finds at the end, from the name under which the entry was left, so an outcome
of "ok" leaves none (`OkInv`), and with the same names still taken the audit
plans as the export did (`ExportsComplete`). `ForeignFilesStay` is the third
conjunct of `PlanInv`: it needs the guard's fact while files are written, and that
healing only moves files of managed chats to names that lead nowhere else.

`ExportAssumption` says of the directory that is there at first what `Init` could
not: that no two of its entries are one to the file system, and that its chat
files hold the rows they say they hold or were cut short. A file that the owner
took over, or that a run left without frontmatter, has no jid and is a note.

Only model-checked: the liveness properties (`ConfirmedResolves`, `LogoutRestarts`,
`OutageHeals`, `WalkReads`, `LabelSettles`, `SelfHealing`, `QueuedIsDelivered`), which need
fairness and ENABLED, out of the prover's reach. What recursive definitions
compute is not proved either: no module that a theorem is about has one. The
connected components of the export are stated by what they are (`Component`),
not by how the code walks them.

## 6. What is not modelled

Whole components (`not_modelled` in `PROJECT.json`): the read API and its origin
guard, which change nothing; the pure conversions and the configuration, which
are string code covered by unit tests; the remote fetch, which is a media write
that succeeds or fails; presence, which keeps no state; the MCP server, a
stateless client; installers and hooks, whose effect is the fairness above.

Within the modelled ones:

- Send flow: mark-read, which forwards a receipt; the wording of messages.
- Link: drawing the QR code, the error ring behind `/api/status`, the nudge
  schedule.
- Archive: previews, senders, receipts, call results, files a download writes.
- Backfill walk: history that arrives unasked, what a row contains.
- Chat names: the phone column and push names of `contacts`, participant counts,
  the alias healthcheck.
- Voice: the conversion itself, the download of images and documents on request.
- Store: the SQL of the data repairs inside migrations, the WAL mode, the
  contents of the secret store's other items.
- Pings: the morning digest, which keeps no state between days, and validation.
- CRM: which note a request finds, the other fields, presets, inbox, lookups.
- Export: rendering, the frontmatter other tools add, symbolic links.
- Import: contacts and messages.

SQLite is trusted throughout: a statement, or a transaction, applies as a whole
or not at all, and survives a stop once it has returned.

### Findings

`PROJECT.json` quotes, under `findings`, the places where the code does not do what
the repository says of it. No configuration checks for them. Where a property
says what was promised, the module keeps it with a comment: `ExpiredIsNotDelivered`
and the unrestricted `ConfirmedIsOwned` in `SendFlow`, `HistoryMirrorsLive` and
`MessageHasChat` in `Archive`, `AlwaysHeals` in `Voice`, `BodyIsKept` in `Crm`. For a
client that hangs up in the middle of a send, a late deletion of the device, and
two first runs that overlap, the constant that excludes it from the run
(`HangUpPoints`, `PromptDelete`, `OverlapEverywhere`) shows it when set. Elsewhere the
model has the behaviour and the property excuses it by name: rows that share a
second with the end of a chunk (`Alone` in `BackfillWalk`), a change of the address
book undone by the start-up synchronisation and an import over a group's subject
(`raced`, `imports'` in `ChatNames`), a wake time misjudged when the clocks change
(`Misjudged` in `Pings`), a file cut short after its frontmatter and rows no skip
sees (`cut`, `late` in `Export`), and overlapping writes of a note (`overtaken` in
`Crm`). Without the excuse the run finds the finding.
