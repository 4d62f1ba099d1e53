---------------------------- MODULE BackfillWalk ----------------------------
(***************************************************************************)
(* The repair of rows an older decoder stored empty                        *)
(* (whatsapp-bridge/backfill_walk.go, history_sync.go).  A sweep, one HTTP *)
(* request, asks WhatsApp for the window before the newest row of each     *)
(* chat; every delivered chunk decides, in the history goroutine, whether  *)
(* to ask for the window before it.  Sweeps may overlap each other, an     *)
(* operator's own history request and answers to an earlier sweep.         *)
(*                                                                         *)
(* A message is named by its place in its chat, which is what WhatsApp     *)
(* goes by: a request names the message it anchors on.  The code compares  *)
(* timestamps, which are seconds, and several messages may share one.      *)
(***************************************************************************)
EXTENDS Integers, FiniteSets

CONSTANTS
    Chats,
    Depth,            \* messages per chat, the live ones included
    Stores,           \* what a chat's rows may be at first
    Second,           \* Second[t]: the timestamp of message t
    Carriers,         \* messages that decode to no text
    Window,           \* messages per reply to the walker (per_chat, at most 200)
    Budget,           \* requests over all chats in one sweep
    MaxRounds,        \* requests per chat in one sweep
    Sweeps,           \* the calls of POST /api/admin/backfill-decode
    OperatorCount,    \* messages per reply to an operator's own request
    MaxOperatorAsks,  \* bound: how many of those
    MaxFaults         \* bound: statements, sends and answers that fail

ASSUME WalkAssumption ==
    /\ Depth \in Nat
    /\ Second \in [1..Depth -> Nat \ {0}]
    /\ \A t, u \in 1..Depth : t <= u => Second[t] <= Second[u]
    /\ Carriers \subseteq 1..Depth
    /\ Stores \subseteq [1..Depth -> {"none", "blank", "full"}]
    /\ \A f \in Stores : /\ \E t \in 1..Depth : f[t] # "none"
                         /\ \A t \in Carriers : f[t] # "full"
    /\ Window \in Nat \ {0} /\ OperatorCount \in Nat \ {0}
    /\ Budget \in Nat \ {0} /\ MaxRounds \in Nat \ {0}
    /\ MaxOperatorAsks \in Nat /\ MaxFaults \in Nat
    /\ IsFiniteSet(Sweeps) /\ "" \notin Chats

Times == 1..Depth

VARIABLES
    row,              \* row[c][t]: "none", "blank" (type system, no text) or "full"
    walk,             \* walker.chats: rounds and anchor, or NotWalking
    spent,            \* walker.spent
    sweep,            \* where each sweep is
    pending,          \* goroutines of continueWalk that have yet to send
    asks,             \* requests WhatsApp has and has not answered
    hist,             \* the chunk the history goroutine is handling
    operatorAsks,     \* operator requests so far
    faults,           \* failures so far
    resets,           \* sweeps that have re-armed the walker
    asked,            \* requests the walker decided on
    askedOf,          \* askedOf[c]: those for c
    start,            \* start[c]: the anchor the last walk of c began with
    excused,          \* excused[c]: the row a request for the newest history
                      \* anchored on, those after it, and rows a statement
                      \* failed on
    fate              \* fate[c]: "open", or what became of c's last walk

counts == <<resets, asked, askedOf>>
env == <<operatorAsks, faults>>
past == <<start, excused, fate>>
vars == <<row, walk, spent, sweep, pending, asks, hist, env, counts, past>>

-----------------------------------------------------------------------------

NotWalking == [rounds |-> 0, anchor |-> 0]
Walking(c) == walk[c] # NotWalking

NoChunk == [at |-> "idle", chat |-> "", todo |-> {}, oldest |-> 0, older |-> FALSE]
NoSweep == [at |-> "idle", chat |-> "", todo |-> {}, anchor |-> 0]

Held(c) == {t \in Times : row[c][t] # "none"}
Blank(c) == {t \in Times : row[c][t] = "blank"}
Newest(S) == CHOOSE t \in S : \A u \in S : u <= t

\* The code's strict < on timestamps.
Before(t, u) == Second[t] < Second[u]

\* What the decoder makes of a message now.
Decoded(t) == IF t \in Carriers THEN "blank" ELSE "full"

Ask(c, before, count) == [chat |-> c, before |-> before, count |-> count]

\* RequestChatHistory, which reads the newest row itself: one of those of the
\* newest second.
AskNewest(c, count) ==
    \E t \in Held(c) :
       /\ ~Before(t, Newest(Held(c)))
       /\ asks' = asks \union {Ask(c, t, count)}
       /\ excused' = [excused EXCEPT ![c] = @ \union {u \in Held(c) : t <= u}]

\* The history WhatsApp answers with: the messages right before the anchor.
Reply(q) == {t \in Times : q.before - q.count <= t /\ t < q.before}
Chunk(q) == [NoChunk EXCEPT !.at = "rows", !.chat = q.chat, !.todo = Reply(q)]

\* A walk that nothing will continue: no reply, or one that leads nowhere.
Unanswered(c) == fate' = [fate EXCEPT ![c] = IF Walking(c) THEN "unanswered" ELSE @]

\* A statement, a send or an answer comes off, or fails.
Try(ok) ==
    /\ ok \/ faults < MaxFaults
    /\ faults' = IF ok THEN faults ELSE faults + 1

Init ==
    /\ row \in [Chats -> Stores]
    /\ walk = [c \in Chats |-> NotWalking]
    /\ spent = 0
    /\ sweep = [s \in Sweeps |-> NoSweep]
    /\ pending = {} /\ asks = {}
    /\ hist = NoChunk
    /\ operatorAsks = 0 /\ faults = 0 /\ resets = 0
    /\ asked = 0 /\ askedOf = [c \in Chats |-> 0]
    /\ start = [c \in Chats |-> 0]
    /\ excused = [c \in Chats |-> {}]
    /\ fate = [c \in Chats |-> "open"]

-----------------------------------------------------------------------------
(* A sweep (SweepDecodeBackfill).                                          *)

\* decodeBackfillTargets: the named chat, or those with the most blank rows.
SweepStart(s) ==
    /\ sweep[s].at = "idle"
    /\ \E T \in SUBSET {c \in Chats : Blank(c) # {}} :
          sweep' = [sweep EXCEPT ![s] = [NoSweep EXCEPT !.at = "reset", !.todo = T]]
    /\ UNCHANGED <<row, walk, spent, pending, asks, hist, counts, past, env>>

\* walker.sweepStale, whose outcome walker.reset wipes, and reset.
SweepReset(s) ==
    /\ sweep[s].at = "reset"
    /\ sweep' = [sweep EXCEPT ![s].at = "pick"]
    /\ walk' = [c \in Chats |-> NotWalking]
    /\ spent' = 0
    /\ resets' = resets + 1
    /\ fate' = [c \in Chats |-> IF Walking(c) THEN "reset" ELSE fate[c]]
    /\ UNCHANGED <<row, pending, asks, hist, asked, askedOf, start, excused, env>>

NextTarget(s) ==
    sweep' = [sweep EXCEPT ![s] = [NoSweep EXCEPT !.at = "pick", !.todo = sweep[s].todo]]

\* The next target's newest timestamp; a query that fails skips the chat.
SweepPick(s, c) ==
    /\ sweep[s].at = "pick" /\ c \in sweep[s].todo
    /\ \E ok \in BOOLEAN :
          /\ Try(ok)
          /\ sweep' = [sweep EXCEPT ![s] =
              IF ok THEN [at |-> "begin", chat |-> c, todo |-> sweep[s].todo \ {c},
                          anchor |-> Newest(Held(c))]
              ELSE [sweep[s] EXCEPT !.todo = @ \ {c}]]
    /\ UNCHANGED <<row, walk, spent, pending, asks, hist, counts, past, operatorAsks>>

\* walker.begin: the chat walks from its newest row, or the budget is gone.
SweepBegin(s) ==
    LET c == sweep[s].chat IN
    /\ sweep[s].at = "begin"
    /\ \/ /\ spent < Budget
          /\ spent' = spent + 1
          /\ walk' = [walk EXCEPT ![c] = [rounds |-> 1, anchor |-> sweep[s].anchor]]
          /\ sweep' = [sweep EXCEPT ![s].at = "request"]
          /\ asked' = asked + 1 /\ askedOf' = [askedOf EXCEPT ![c] = @ + 1]
          /\ start' = [start EXCEPT ![c] = sweep[s].anchor]
          /\ fate' = [fate EXCEPT ![c] = "open"]
       \/ /\ spent >= Budget
          /\ NextTarget(s)
          /\ UNCHANGED <<spent, walk, asked, askedOf, start, fate>>
    /\ UNCHANGED <<row, pending, asks, hist, resets, excused, env>>

\* RequestChatHistory reads the newest row once more and asks for what is
\* before it.  A request that fails leaves the chat walking.
SweepRequest(s) ==
    LET c == sweep[s].chat IN
    /\ sweep[s].at = "request"
    /\ NextTarget(s)
    /\ \E ok \in BOOLEAN :
          /\ Try(ok)
          /\ IF ok THEN UNCHANGED fate ELSE Unanswered(c)
          /\ IF ok THEN AskNewest(c, Window) ELSE UNCHANGED <<asks, excused>>
    /\ UNCHANGED <<row, walk, spent, pending, hist, counts, start, operatorAsks>>

SweepEnd(s) ==
    /\ sweep[s].at = "pick" /\ sweep[s].todo = {}
    /\ sweep' = [sweep EXCEPT ![s].at = "done"]
    /\ UNCHANGED <<row, walk, spent, pending, asks, hist, counts, past, env>>

-----------------------------------------------------------------------------
(* The history goroutine (processHistorySyncEvent, continueWalk).          *)

\* WhatsApp answers and the chat row is upserted; an upsert that fails gives
\* the conversation up.
Answer(q) ==
    /\ q \in asks /\ hist = NoChunk
    /\ asks' = asks \ {q}
    /\ \E ok \in BOOLEAN :
          /\ Try(ok)
          /\ IF ok THEN UNCHANGED fate ELSE Unanswered(q.chat)
          /\ hist' = IF ok THEN Chunk(q) ELSE hist
    /\ UNCHANGED <<row, walk, spent, sweep, pending, counts, start, excused, operatorAsks>>

\* WhatsApp answers once more than it was asked.
AnswerAgain(q) ==
    /\ q \in asks /\ hist = NoChunk /\ Try(FALSE)
    /\ hist' = Chunk(q)
    /\ UNCHANGED <<row, walk, spent, sweep, pending, asks, counts, past, operatorAsks>>

\* WhatsApp never answers.
Lose(q) ==
    /\ q \in asks /\ Try(FALSE)
    /\ asks' = asks \ {q}
    /\ Unanswered(q.chat)
    /\ UNCHANGED <<row, walk, spent, sweep, pending, hist, counts, start, excused, operatorAsks>>

\* The anchor of the chunk, which only an older second moves.
Oldest(anchor, t) == IF anchor = 0 \/ Before(t, anchor) THEN t ELSE anchor

\* Mutant: a row that is already held is not repaired.
RecallInsertOnly ==
    LET c == hist.chat  t == Newest(hist.todo) IN
    /\ hist.at = "rows" /\ hist.todo # {}
    /\ hist' = [hist EXCEPT !.todo = @ \ {t}, !.oldest = Oldest(@, t)]
    /\ row' = [row EXCEPT ![c][t] = IF @ = "none" THEN Decoded(t) ELSE @]
    /\ UNCHANGED <<walk, spent, sweep, pending, asks, counts, past, env>>

\* One message: INSERT ... DO NOTHING, then backfillDecodedContent, which
\* turns a blank row, and no other, into what the message decodes to.
Recall ==
    LET c == hist.chat  t == Newest(hist.todo) IN
    /\ hist.at = "rows" /\ hist.todo # {}
    /\ \E inserts, repairs \in BOOLEAN :
          /\ Try(inserts /\ repairs)
          /\ row' = [row EXCEPT ![c][t] =
                        IF inserts /\ (@ = "none" \/ (@ = "blank" /\ repairs))
                        THEN Decoded(t) ELSE @]
          /\ hist' = [hist EXCEPT !.todo = @ \ {t},
                                  !.oldest = IF inserts THEN Oldest(@, t) ELSE @]
          /\ excused' = [excused EXCEPT ![c] =
                            IF inserts /\ repairs THEN @ ELSE @ \union {t}]
    /\ UNCHANGED <<walk, spent, sweep, pending, asks, counts, start, fate, operatorAsks>>

\* Mutant: the query looks one row too far back.
HasOlderSkipping(c, t) == \E u \in Blank(c) : Second[u] < Second[t] - 1

\* hasEmptyRowsOlderThan: a blank row of the chunk's oldest second is none.
HasOlder(c, t) == \E u \in Blank(c) : Before(u, t)

\* The chunk is through.  An empty one, or a query that fails, ends here.
ChunkRead ==
    LET c == hist.chat IN
    /\ hist.at = "rows" /\ hist.todo = {}
    /\ \/ /\ hist.oldest # 0 /\ Try(TRUE)
          /\ hist' = [hist EXCEPT !.at = "next", !.older = HasOlder(c, hist.oldest)]
          /\ UNCHANGED fate
       \/ /\ Try(hist.oldest = 0)
          /\ hist' = NoChunk
          /\ Unanswered(c)
    /\ UNCHANGED <<row, walk, spent, sweep, pending, asks, counts, start, excused, operatorAsks>>

\* Mutant: the round limit and the budget are off by one.
BrakeLoose(w, oldest, older) ==
    IF oldest = 0 \/ ~Before(oldest, w.anchor) THEN "no_progress"
    ELSE IF ~older THEN "nothing_older"
    ELSE IF w.rounds > MaxRounds THEN "max_rounds"
    ELSE IF spent > Budget THEN "global_budget"
    ELSE "none"

\* The brakes of walker.next, in the order the code tries them.
Brake(w, oldest, older) ==
    IF oldest = 0 \/ ~Before(oldest, w.anchor) THEN "no_progress"
    ELSE IF ~older THEN "nothing_older"
    ELSE IF w.rounds >= MaxRounds THEN "max_rounds"
    ELSE IF spent >= Budget THEN "global_budget"
    ELSE "none"

\* walker.next on a chat that does not walk does nothing.
NextIgnored ==
    /\ hist.at = "next" /\ ~Walking(hist.chat)
    /\ hist' = NoChunk
    /\ UNCHANGED <<row, walk, spent, sweep, pending, asks, counts, past, env>>

NextStops ==
    LET c == hist.chat  why == Brake(walk[c], hist.oldest, hist.older) IN
    /\ hist.at = "next" /\ Walking(c) /\ why # "none"
    /\ walk' = [walk EXCEPT ![c] = NotWalking]
    /\ fate' = [fate EXCEPT ![c] = why]
    /\ hist' = NoChunk
    /\ UNCHANGED <<row, spent, sweep, pending, asks, counts, start, excused, env>>

\* The walk steps back; the request goes out from a goroutine of its own.
NextContinues ==
    LET c == hist.chat IN
    /\ hist.at = "next" /\ Walking(c)
    /\ Brake(walk[c], hist.oldest, hist.older) = "none"
    /\ spent' = spent + 1
    /\ walk' = [walk EXCEPT ![c] = [rounds |-> @.rounds + 1, anchor |-> hist.oldest]]
    /\ pending' = pending \union {Ask(c, hist.oldest, Window)}
    /\ asked' = asked + 1 /\ askedOf' = [askedOf EXCEPT ![c] = @ + 1]
    /\ hist' = NoChunk
    /\ UNCHANGED <<row, sweep, asks, resets, past, env>>

\* That goroutine: RequestHistoryBefore, and nothing if it fails.
SendPending(q) ==
    /\ q \in pending
    /\ pending' = pending \ {q}
    /\ \E ok \in BOOLEAN :
          /\ Try(ok)
          /\ IF ok THEN UNCHANGED fate ELSE Unanswered(q.chat)
          /\ asks' = IF ok THEN asks \union {q} ELSE asks
    /\ UNCHANGED <<row, walk, spent, sweep, hist, counts, start, excused, operatorAsks>>

-----------------------------------------------------------------------------
(* What else goes on.                                                      *)

\* POST /api/backfill/history: RequestChatHistory, outside any walk.
OperatorRequest(c) ==
    /\ operatorAsks < MaxOperatorAsks
    /\ operatorAsks' = operatorAsks + 1
    /\ AskNewest(c, OperatorCount)
    /\ UNCHANGED <<row, walk, spent, sweep, pending, hist, faults, counts, start, fate>>

\* onMessage: a message newer than the rest.
LiveMessage(c) ==
    LET t == Newest(Held(c)) + 1 IN
    /\ t \in Times
    /\ row' = [row EXCEPT ![c][t] = Decoded(t)]
    /\ UNCHANGED <<walk, spent, sweep, pending, asks, hist, counts, past, env>>

SweepStep(s) ==
    \/ SweepStart(s) \/ SweepReset(s) \/ SweepBegin(s) \/ SweepRequest(s) \/ SweepEnd(s)
    \/ \E c \in Chats : SweepPick(s, c)

HistoryStep == Recall \/ ChunkRead \/ NextIgnored \/ NextStops \/ NextContinues

Respond == \E q \in asks : Answer(q) \/ Lose(q)

Next ==
    \/ \E s \in Sweeps : SweepStep(s)
    \/ HistoryStep \/ Respond
    \/ \E q \in asks : AnswerAgain(q)
    \/ \E q \in pending : SendPending(q)
    \/ \E c \in Chats : OperatorRequest(c) \/ LiveMessage(c)

\* A sweep that has begun goes on, the goroutines run, and WhatsApp answers a
\* request or is taken never to.
Fairness ==
    /\ \A s \in Sweeps : WF_vars(SweepStep(s) /\ sweep[s].at # "idle")
    /\ WF_vars(HistoryStep)
    /\ WF_vars(Respond)
    /\ WF_vars(\E q \in pending : SendPending(q))

Spec == Init /\ [][Next]_vars /\ Fairness

-----------------------------------------------------------------------------
(* Properties.                                                             *)

TypeOK ==
    /\ row \in [Chats -> [Times -> {"none", "blank", "full"}]]
    /\ walk \in [Chats -> [rounds : Nat, anchor : Nat]]
    /\ spent \in Nat /\ resets \in Nat /\ asked \in Nat
    /\ operatorAsks \in Nat /\ faults \in Nat
    /\ askedOf \in [Chats -> Nat]
    /\ sweep \in [Sweeps -> [at : {"idle", "reset", "pick", "begin", "request", "done"},
                             chat : Chats \union {""}, todo : SUBSET Chats, anchor : Nat]]
    /\ pending \subseteq [chat : Chats, before : Nat, count : Nat]
    /\ asks \subseteq [chat : Chats, before : Nat, count : Nat]
    /\ hist \in [at : {"idle", "rows", "next"}, chat : Chats \union {""},
                 todo : SUBSET Times, oldest : Nat, older : BOOLEAN]
    /\ start \in [Chats -> Nat]
    /\ excused \in [Chats -> SUBSET Times]
    /\ fate \in [Chats -> {"open", "unanswered", "no_progress", "nothing_older",
                           "max_rounds", "global_budget", "reset"}]

\* However sweeps, chunks and goroutines overlap, the walker never decides on
\* more requests than its sweeps were given, over all chats or for one of them
\* (backfill_walk.go:17-32: "bounded by construction").
RequestsAreBounded ==
    /\ asked <= resets * Budget
    /\ \A c \in Chats : askedOf[c] <= Cardinality(Sweeps) * MaxRounds

\* A walk passes over nothing: between the row it began at and the one it has
\* reached every row that can be read has been, but for the rows sweeps began
\* at and those a statement failed on (history_sync.go:196-209, 253-260).
WalkLeavesNoGap ==
    \A c \in Chats : Walking(c) =>
        \A t \in Times \ excused[c] :
            walk[c].anchor <= t /\ t < start[c] => row[c][t] # "blank" \/ t \in Carriers

\* What the next two invariants rest on: a chat keeps its rows, and what a sweep
\* or the history goroutine is busy with is a chat, which the sweep has taken
\* off its list.
Aimed ==
    /\ \A c \in Chats : \E t \in Times : row[c][t] # "none"
    /\ \A s \in Sweeps : sweep[s].at \in {"begin", "request"} =>
                            sweep[s].chat \in Chats \ sweep[s].todo
    /\ hist.at # "idle" => hist.chat \in Chats

\* The sweeps that will not begin c any more.
Begun(c) ==
    {s \in Sweeps : /\ sweep[s].at \notin {"idle", "reset"} /\ c \notin sweep[s].todo
                    /\ sweep[s].at = "begin" => sweep[s].chat # c}

\* Why RequestsAreBounded holds: what the walker may still spend fits the budget
\* of the sweep that armed it, and what a walk may still ask for fits the rounds
\* of the sweep that began it.
BoundInv ==
    /\ spent <= Budget
    /\ resets = 0 =>
         /\ asked = 0 /\ spent = 0
         /\ \A c \in Chats : ~Walking(c)
         /\ \A s \in Sweeps : sweep[s].at \in {"idle", "reset"}
    /\ resets # 0 => asked + Budget <= resets * Budget + spent
    /\ \A c \in Chats :
         /\ Walking(c) => walk[c].rounds \in 1..MaxRounds
         /\ askedOf[c] + (IF Walking(c) THEN MaxRounds - walk[c].rounds ELSE 0)
              <= Cardinality(Begun(c)) * MaxRounds

\* A row that was read, or that no decoder can.
Readable(c, t) == row[c][t] # "blank" \/ t \in Carriers
ReadDownTo(c, n) == \A t \in Times \ excused[c] : n <= t => Readable(c, t)

\* Why WalkLeavesNoGap holds: behind every request in flight, and behind what
\* the history goroutine has handled of a chunk, nothing is left unread.
GapInv ==
    /\ \A q \in asks \union pending : ReadDownTo(q.chat, q.before)
    /\ hist.at # "idle" =>
         /\ hist.oldest # 0 => ReadDownTo(hist.chat, hist.oldest)
         /\ hist.at = "next" => hist.oldest # 0
         /\ \A t, u \in hist.todo : t..u \subseteq hist.todo
         /\ \A t \in hist.todo : t + 1 \in hist.todo \/ ReadDownTo(hist.chat, t + 1)

\* A message that shares its second with no other.
Alone(t) == \A u \in Times : Second[u] = Second[t] => u = t

\* A blank row ahead of a walk, the only one of its second, is read in the end,
\* unless a statement failed on it, an answer or a request was lost, a new sweep
\* started over, or a brake other than "nothing older" held: the walk neither
\* stops early nor hangs (backfill_walk.go:143-185).  A row that shares the
\* second of a chunk's oldest message may stay unread: to the query it is not
\* older.
WalkReads ==
    \A c \in Chats, t \in Times :
        (Walking(c) /\ row[c][t] = "blank" /\ t \notin Carriers /\ t < walk[c].anchor
           /\ Alone(t))
          ~> \/ row[c][t] = "full" \/ t \in excused[c]
             \/ fate[c] \in {"unanswered", "reset", "no_progress", "max_rounds", "global_budget"}
=============================================================================
