------------------------------- MODULE Voice -------------------------------
(***************************************************************************)
(* Transcription of voice notes (whatsapp-bridge/whisper.go, backfill.go,  *)
(* the enqueue of bridge.go, the shutdown of main.go).  Event handlers and *)
(* sweeps feed a bounded queue, one worker drains it, and a sweep re-reads *)
(* the rows without a transcript: the newest `Limit` of them.  A chat is   *)
(* kept out of transcription by what the store knows it is called.         *)
(*                                                                         *)
(* Notes are numbered in the order of their timestamps.                    *)
(***************************************************************************)
EXTENDS Naturals, FiniteSets, Sequences

CONSTANTS
    NumNotes,         \* how many voice notes there are
    Chat,             \* Chat[n]: the chat of note n
    Silent,           \* notes that yield no transcript: silence, gone from the CDN
    Configs,          \* what the user may have configured at a start
    QueueSize,        \* capacity of Transcriber.jobs (64)
    Limit,            \* rows a sweep reads (50)
    MaxFaults,        \* bound: lookups and jobs that fail
    MaxArrivals,      \* bound: live deliveries of notes, repeated ones included
    MaxAsks,          \* bound: sweeps an operator requests
    MaxRestarts       \* bound: restarts

Notes == 1..NumNotes
NoNote == 0
VoiceChats == {Chat[n] : n \in Notes}
Sweepers == {"timer", "operator"}

\* WHATSAPP_WHISPER_BACKEND, _EXCLUDE_CHATS and _ONLY_CHATS; `exclude` and
\* `only` are the chats whose name a pattern matches, `only` is "any" when
\* there is no such list.
Config == [backend : {"off", "openai-api", "local-cpp"},
           exclude : SUBSET VoiceChats, only : SUBSET VoiceChats, any : BOOLEAN]

ASSUME VoiceAssumption ==
    /\ NumNotes \in Nat /\ Silent \subseteq Notes
    /\ DOMAIN Chat = Notes
    /\ Configs \subseteq Config
    /\ Limit \in Nat \ {0} /\ QueueSize \in Nat /\ Limit <= QueueSize
    /\ MaxFaults \in Nat /\ MaxArrivals \in Nat /\ MaxAsks \in Nat /\ MaxRestarts \in Nat

VARIABLES
    phase,            \* "up", "closing" (the queue is closed) or "down"
    config,
    row,              \* row[n]: "absent" (or without media keys), "pending", "done"
    since,            \* the oldest note within the sweep's window
    named,            \* chats whose name the store knows
    handling,         \* the note whose handler has yet to enqueue it
    queue,            \* Transcriber.jobs
    job,              \* what the worker is at
    batch,            \* batch[s]: rows sweep s has read and not yet offered
    faults, arrivals, asks, restarts   \* bounds

counters == <<faults, arrivals, asks, restarts>>
voiceVars == <<phase, config, row, since, named, handling, queue, job, batch, counters>>

NoBatch == [s \in Sweepers |-> <<>>]

VoiceInit ==
    /\ phase = "up" /\ config \in Configs
    /\ row = [n \in Notes |-> "absent"] /\ since = 1
    /\ named = {}
    /\ handling = NoNote /\ queue = <<>> /\ job = NoNote /\ batch = NoBatch
    /\ faults = 0 /\ arrivals = 0 /\ asks = 0 /\ restarts = 0

-----------------------------------------------------------------------------
(* Enqueue (whisper.go).                                                   *)

\* Mutant: a lookup that fails finds a chat without a name.
ExcludedFailOpen(c, found) ==
    \/ found /\ c \in named /\ c \in config.exclude
    \/ ~config.any /\ c \notin named \intersect config.only

\* chatExcluded: with no list nothing is looked up; a lookup that fails excludes.
Excluded(c, found) ==
    /\ config.exclude # {} \/ ~config.any
    /\ \/ ~found
       \/ c \in named /\ c \in config.exclude
       \/ ~config.any /\ c \notin named \intersect config.only

Offered(n, found) == config.backend # "off" /\ ~Excluded(Chat[n], found)

\* A job more, or a drop when the queue is full.
Enqueue(n) ==
    \E found \in BOOLEAN :
        /\ found \/ faults < MaxFaults
        /\ faults' = IF found THEN faults ELSE faults + 1
        /\ phase = "up" \/ ~Offered(n, found)
        /\ queue' = IF Offered(n, found) /\ Len(queue) < QueueSize
                    THEN Append(queue, n) ELSE queue

-----------------------------------------------------------------------------
(* Notes arrive (bridge.go, history_sync.go) and chats get names.          *)

\* onMessage up to its enqueue; a repeated delivery leaves the row alone.
NoteArrives(n) ==
    /\ phase = "up" /\ handling = NoNote /\ arrivals < MaxArrivals
    /\ row' = [row EXCEPT ![n] = IF @ = "absent" THEN "pending" ELSE @]
    /\ handling' = n
    /\ named' \in {named, named \union {Chat[n]}}
    /\ arrivals' = arrivals + 1
    /\ UNCHANGED <<phase, config, since, queue, job, batch, faults, asks, restarts>>

HandlerEnqueues ==
    /\ phase # "down" /\ handling # NoNote
    /\ Enqueue(handling)
    /\ handling' = NoNote
    /\ UNCHANGED <<phase, config, row, since, named, job, batch, arrivals, asks, restarts>>

\* History inserts a note, or gives an old row its media keys.
HistoryNote(n) ==
    /\ phase = "up" /\ row[n] = "absent"
    /\ row' = [row EXCEPT ![n] = "pending"]
    /\ UNCHANGED <<phase, config, since, named, handling, queue, job, batch, counters>>

\* The address book, an alias or a group subject reaches the chat.
ChatNamed(c) ==
    /\ phase = "up" /\ c \notin named
    /\ named' = named \union {c}
    /\ UNCHANGED <<phase, config, row, since, handling, queue, job, batch, counters>>

\* The oldest note leaves the window of BackfillWindowDays.
NoteAges ==
    /\ since \in Notes
    /\ since' = since + 1
    /\ UNCHANGED <<phase, config, row, named, handling, queue, job, batch, counters>>

-----------------------------------------------------------------------------
(* The sweep (backfill.go, server.go's handleBackfillTranscripts).         *)

\* Mutant: every voice note in the window is swept.
PendingAny == {n \in Notes : row[n] # "absent" /\ n >= since}

\* What the sweep's query selects from.
Pending == {n \in Notes : row[n] = "pending" /\ n >= since}

\* ORDER BY timestamp DESC LIMIT.
Newest(S) ==
    LET k == IF Cardinality(S) < Limit THEN Cardinality(S) ELSE Limit
    IN {rows \in [1..k -> S] :
          /\ \A i, j \in 1..k : i < j => rows[i] > rows[j]
          /\ \A n \in S : (\E i \in 1..k : n = rows[i]) \/ (\A i \in 1..k : n < rows[i])}

\* Rows are buffered before the first is offered.
SweepBegin(s) ==
    /\ phase = "up" /\ batch[s] = <<>> /\ Pending # {}
    /\ IF s = "operator" THEN asks < MaxAsks /\ asks' = asks + 1 ELSE UNCHANGED asks
    /\ \E rows \in Newest(Pending) : batch' = [batch EXCEPT ![s] = rows]
    /\ UNCHANGED <<phase, config, row, since, named, handling, queue, job, faults, arrivals,
                   restarts>>

\* One row: SweepOnce's own test of the chat and Enqueue's count as one.  The
\* loop does not look at its context: it goes on while the process stops.
SweepEnqueue(s) ==
    /\ phase # "down" /\ batch[s] # <<>>
    /\ Enqueue(Head(batch[s]))
    /\ batch' = [batch EXCEPT ![s] = Tail(@)]
    /\ UNCHANGED <<phase, config, row, since, named, handling, job, arrivals, asks, restarts>>

-----------------------------------------------------------------------------
(* The worker (whisper.go).                                                *)

\* The worker's backend does anything: OpenAI's is a scaffold.
BackendRuns == config.backend = "local-cpp"

\* whisper-cli finds speech in it.
HasTranscript(n) == n \notin Silent

WorkerTakes ==
    /\ phase # "down" /\ job = NoNote /\ queue # <<>>
    /\ job' = Head(queue) /\ queue' = Tail(queue)
    /\ UNCHANGED <<phase, config, row, since, named, handling, batch, counters>>

\* Download, ffmpeg, whisper, the statement, or ten minutes passed.
WorkerFails ==
    /\ phase # "down" /\ job # NoNote /\ faults < MaxFaults
    /\ job' = NoNote /\ faults' = faults + 1
    /\ UNCHANGED <<phase, config, row, since, named, handling, queue, batch, arrivals, asks, restarts>>

\* No transcript: the row stays pending.
WorkerGivesUp ==
    /\ phase # "down" /\ job # NoNote
    /\ ~HasTranscript(job) \/ ~BackendRuns
    /\ job' = NoNote
    /\ UNCHANGED <<phase, config, row, since, named, handling, queue, batch, counters>>

\* The UPDATE, of a row that has a transcript too.
WorkerPersists ==
    /\ phase # "down" /\ job # NoNote
    /\ HasTranscript(job) /\ BackendRuns
    /\ row' = [row EXCEPT ![job] = "done"]
    /\ job' = NoNote
    /\ UNCHANGED <<phase, config, since, named, handling, queue, batch, counters>>

-----------------------------------------------------------------------------
(* The process (main.go).                                                  *)

\* run's defers: the sockets are gone, then Transcriber.Close closes the
\* queue and waits for the worker.
Close ==
    /\ phase = "up" /\ restarts < MaxRestarts
    /\ phase' = "closing" /\ restarts' = restarts + 1
    /\ UNCHANGED <<config, row, since, named, handling, queue, job, batch, faults, arrivals, asks>>

Dies ==
    /\ phase' = "down"
    /\ handling' = NoNote /\ queue' = <<>> /\ job' = NoNote /\ batch' = NoBatch
    /\ UNCHANGED <<config, row, since, named, faults, arrivals, asks>>

Drained ==
    /\ phase = "closing" /\ queue = <<>> /\ job = NoNote
    /\ Dies /\ UNCHANGED restarts

\* A handler or a sweep that is still at work sends on the closed queue.
Panics ==
    /\ phase = "closing"
    /\ \/ handling # NoNote /\ Offered(handling, TRUE)
       \/ \E s \in Sweepers : batch[s] # <<>> /\ Offered(Head(batch[s]), TRUE)
    /\ Dies /\ UNCHANGED restarts

Killed ==
    /\ phase = "up" /\ restarts < MaxRestarts
    /\ Dies /\ restarts' = restarts + 1

ProcessStarts ==
    /\ phase = "down"
    /\ phase' = "up" /\ config' \in Configs
    /\ UNCHANGED <<row, since, named, handling, queue, job, batch, counters>>

-----------------------------------------------------------------------------
WorkerEnds == WorkerFails \/ WorkerGivesUp \/ WorkerPersists

VoiceNext ==
    \/ \E n \in Notes : NoteArrives(n) \/ HistoryNote(n)
    \/ HandlerEnqueues
    \/ \E c \in VoiceChats : ChatNamed(c)
    \/ NoteAges
    \/ \E s \in Sweepers : SweepBegin(s) \/ SweepEnqueue(s)
    \/ WorkerTakes \/ WorkerEnds
    \/ Close \/ Drained \/ Panics \/ Killed \/ ProcessStarts

\* Goroutines go on and the timer fires again; nothing need arrive, be asked
\* for or be named, and the process need not stop.
VoiceSpec ==
    /\ VoiceInit /\ [][VoiceNext]_voiceVars
    /\ WF_voiceVars(HandlerEnqueues)
    /\ WF_voiceVars(SweepBegin("timer"))
    /\ \A s \in Sweepers : WF_voiceVars(SweepEnqueue(s))
    /\ WF_voiceVars(WorkerTakes) /\ WF_voiceVars(WorkerEnds)
    /\ WF_voiceVars(ProcessStarts)

-----------------------------------------------------------------------------
(* Properties.                                                             *)

\* Once the store knows an excluded chat by its name, and with an only-list
\* for every chat not on it, no note of it enters transcription: live,
\* repeated, swept or re-read after a restart, whatever lookup fails.  What
\* was queued before may still be transcribed.
Private(c) == c \in named \intersect config.exclude \/ (~config.any /\ c \notin config.only)
InHand(c) == {i \in DOMAIN queue : Chat[queue[i]] = c}
PrivateChatsAreClosed ==
    [][\A c \in VoiceChats :
        Private(c) /\ config' = config => Cardinality(InHand(c)') <= Cardinality(InHand(c))]_voiceVars

\* The sweep recovers what the queue dropped, a job failed at or a process
\* left behind, if it keeps finding the queue empty and fewer than `Limit`
\* newer notes stand in its way that never get a transcript: then every note
\* has one, is out of the window, or can have none.
Barren(n) == ~HasTranscript(n) \/ Excluded(Chat[n], TRUE)
Crowded(n) == Cardinality({m \in Pending : m > n /\ Barren(m)}) >= Limit
Works == phase = "up" /\ BackendRuns
IdleSweep == SweepBegin("timer") /\ queue = <<>> /\ job = NoNote
SelfHealing ==
    <>[]Works /\ []<><<IdleSweep>>_voiceVars
        => <>[](\A n \in Pending : Barren(n) \/ Crowded(n))

\* What backfill.go's comment promises: a failure is recovered whatever else
\* is pending.  The code violates it, and no configuration checks it.
AlwaysHeals ==
    <>[]Works /\ []<><<IdleSweep>>_voiceVars
        => <>[](\A n \in Pending : Barren(n))

-----------------------------------------------------------------------------
(* What the proof of PrivateChatsAreClosed needs: queues hold notes.       *)
VoiceInv ==
    /\ queue \in Seq(Notes)
    /\ handling \in Notes \union {NoNote}
    /\ batch \in [Sweepers -> Seq(Notes)]
=============================================================================
