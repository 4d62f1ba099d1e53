------------------------------- MODULE Pings -------------------------------
(***************************************************************************)
(* The owner's WhatsApp pings in prospect-api: relay-note (quiet hours,    *)
(* the hourly budget, the queue), notify-owner (recorded, never held back) *)
(* and the goroutine that flushes the queue every minute                   *)
(* (handlers_relay.go, handlers_notify.go, wa_budget.go, quiet_hours.go,   *)
(* main.go).                                                               *)
(*                                                                         *)
(* Handlers run at once and between their steps time passes.  A send to    *)
(* the bridge may fail, or arrive although its answer does not: the        *)
(* request gives up after 10 s and the bridge after 30.  The process may   *)
(* stop between any two steps; the two tables survive.                     *)
(*                                                                         *)
(* Instants are Unix time.  What the owner's clocks show runs along with   *)
(* them until it is moved, once: daylight saving begins or ends.           *)
(***************************************************************************)
EXTENDS Integers, FiniteSets, FiniteSetsExt

CONSTANTS
  Pings,        \* requests that want to ping the owner
  Day, Hour,    \* ticks in a day and in an hour of the clock
  Configs,      \* settings: the quiet window in what the clocks show, whether
                \* "high" overrides it, and TimeZone: when the clocks change, by what
  Limit,        \* WhatsAppPingsPerHour
  LastRequest,  \* bound: the last instant at which a request arrives
  MaxTime,      \* bound: the last instant of a behaviour
  MaxFaults     \* bound: failed or unanswered calls, failed writes and crashes

ASSUME PingsAssumption ==
  /\ Day \in Nat \ {0} /\ Hour \in Nat \ {0} /\ Limit \in Nat
  /\ Configs \subseteq [start : 0 .. Day - 1, end : 0 .. Day - 1, override : BOOLEAN,
                         change : Nat, shift : Int]
  /\ \A c \in Configs : /\ -Day <= 2 * c.shift /\ 2 * c.shift <= Day
                         /\ c.change + c.shift >= 0
  /\ LastRequest + 2 * Day <= MaxTime /\ MaxFaults \in Nat

VARIABLES
  cfg,       \* the settings of this deployment
  now,       \* the instant, in ticks from a midnight
  kind,      \* what each ping is: "normal" or "high" relays, or "notify"
  state,     \* where each ping is; see States
  counted,   \* the wa_pings rows its budget transaction read
  wanted,    \* the instant its handler read the clock for the count
  due,       \* deliver_at of a queued ping
  recorded,  \* rows of wa_pings: [by, ts]
  batch,     \* the rows the flush selected and has not delivered yet
  up,        \* the process runs
  faults,
  sent,      \* observer: how often the owner received each ping
  doubtful,  \* observer: pings received by a call that did not record it
  notBefore  \* observer: when a ping asked for in a quiet window may arrive;
             \* 0 once its wake time was misjudged

budget == <<counted, wanted, recorded>>
observers == <<sent, doubtful, notBefore>>
vars == <<cfg, now, kind, state, counted, wanted, due, recorded, batch, up, faults,
          sent, doubtful, notBefore>>

States ==
  {"new", "quiet", "count", "insert", "send", "overflow", "queued", "marking", "done", "lost"}
InHandler == {"quiet", "count", "insert", "send", "overflow"}

Times == 0 .. MaxTime
Goto(p, s) == state' = [state EXCEPT ![p] = s]
Fault == faults < MaxFaults /\ faults' = faults + 1

Init ==
  /\ cfg \in Configs
  /\ now = 0 /\ up = TRUE /\ faults = 0
  /\ kind = [p \in Pings |-> "normal"]
  /\ state = [p \in Pings |-> "new"]
  /\ counted = [p \in Pings |-> {}] /\ wanted = [p \in Pings |-> 0]
  /\ due = [p \in Pings |-> 0]
  /\ recorded = {} /\ batch = {}
  /\ sent = [p \in Pings |-> 0] /\ doubtful = {}
  /\ notBefore = [p \in Pings |-> 0]

(***************************************************************************)
(* Quiet hours                                                             *)
(***************************************************************************)
\* What the clocks show at an instant, in ticks from a midnight: now.In(loc).
Local(t) == IF t < cfg.change THEN t ELSE t + cfg.shift

\* A bug: a window that wraps midnight is never entered.
InQuietHoursNoWrap(t) == cfg.start <= Local(t) % Day /\ Local(t) % Day < cfg.end

InQuietHours(t) ==
  LET minute == Local(t) % Day IN
  IF cfg.start <= cfg.end
    THEN minute >= cfg.start /\ minute < cfg.end
    ELSE minute >= cfg.start \/ minute < cfg.end

\* When the clocks show l: twice, if they are set back over it, or never.
Shows(l) == {u \in {l, l - cfg.shift} : Local(u) = l}

\* time.Date, which for a time shown never or twice takes either offset.
Date(l) == IF Shows(l) # {} THEN Shows(l) ELSE {l, l - cfg.shift}

\* The window's end on the date of t.
EndToday(t) == (Local(t) \div Day) * Day + cfg.end

\* The next occurrence of the window's end after t: today's, or 24 h later,
\* whatever the clocks show by then.
NextWakeTimes(t) == {IF u > t THEN u ELSE u + Day : u \in Date(EndToday(t))}

ShouldSendNow(urgency) ==
  ~InQuietHours(now) \/ (urgency = "high" /\ cfg.override)

\* Time.Add(time.Hour).Truncate(time.Hour).
NextFullHour(t) == ((t + Hour) \div Hour) * Hour

\* What the settings mean, said without the code's cases: the window lasts
\* from start, for as long as it takes to reach end.
Quiet(t) == (Local(t) - cfg.start) % Day < (cfg.end - cfg.start) % Day
QuietUntil(t) == Min({u \in t .. t + 2 * Day : ~Quiet(u)})

\* When 24 h more than an end is another time: the clocks skip the end, or are
\* set back after today's and no later than 24 h on.
Misjudged(t) ==
  LET end == EndToday(t) IN
  \/ Shows(end) = {} \/ Shows(end + Day) = {}
  \/ /\ cfg.shift < 0 /\ end <= t /\ end < cfg.change
     /\ cfg.change <= end + Day \/ cfg.change <= t

(***************************************************************************)
(* The handlers                                                            *)
(***************************************************************************)
\* A request: notify-owner goes straight to the budget, relay-note asks for
\* the quiet hours first.
Request(p, k) ==
  /\ up /\ state[p] = "new" /\ now <= LastRequest
  /\ kind' = [kind EXCEPT ![p] = k]
  /\ notBefore' = [notBefore EXCEPT ![p] =
       IF k = "notify" \/ (k = "high" /\ cfg.override) THEN now ELSE QuietUntil(now)]
  /\ Goto(p, IF k = "notify" \/ ShouldSendNow(k) THEN "count" ELSE "quiet")
  /\ UNCHANGED <<cfg, now, budget, due, batch, up, faults, sent, doubtful>>

\* In quiet hours the ping is queued to wake time, read from a later clock; an
\* error of the insert is ignored.
QueueQuiet(p) ==
  /\ state[p] = "quiet"
  /\ \/ /\ \E wake \in NextWakeTimes(now) : due' = [due EXCEPT ![p] = wake]
        /\ notBefore' = [notBefore EXCEPT ![p] = IF Misjudged(now) THEN 0 ELSE @]
        /\ Goto(p, "queued") /\ UNCHANGED faults
     \/ Fault /\ Goto(p, "lost") /\ UNCHANGED <<due, notBefore>>
  /\ UNCHANGED <<cfg, now, kind, budget, batch, up, sent, doubtful>>

\* CheckAndRecordPing returns an error: a relay is dropped with a log line,
\* notify-owner sends all the same.
Unbudgeted(p) ==
  /\ Goto(p, IF kind[p] = "notify" THEN "send" ELSE "lost")
  /\ UNCHANGED recorded

\* CheckAndRecordPing begins: the rows of the last hour are counted.
CountPings(p) ==
  /\ state[p] = "count"
  /\ \/ /\ counted' = [counted EXCEPT ![p] = recorded]
        /\ wanted' = [wanted EXCEPT ![p] = now]
        /\ Goto(p, "insert") /\ UNCHANGED <<recorded, faults>>
     \/ Fault /\ Unbudgeted(p) /\ UNCHANGED <<counted, wanted>>
  /\ UNCHANGED <<cfg, now, kind, due, batch, up, observers>>

InLastHour(p) == {r \in counted[p] : r.ts > wanted[p] - Hour}

\* A bug: the count and the insert are two statements without a transaction.
MayInsertUnserialised(p) == TRUE

\* SQLite upgrades a read transaction to a write only if nobody has written
\* since it began to read.
MayInsert(p) == counted[p] = recorded

Recorded(p) ==
  /\ Cardinality(InLastHour(p)) < Limit
  /\ MayInsert(p)
  /\ recorded' = recorded \cup {[by |-> p, ts |-> now]}
  /\ Goto(p, "send")

\* The budget is used up: a relay is queued, notify-owner sends all the same.
Refused(p) ==
  /\ Cardinality(InLastHour(p)) >= Limit
  /\ Goto(p, IF kind[p] = "notify" THEN "send" ELSE "overflow")
  /\ UNCHANGED recorded

\* SQLITE_BUSY, because another transaction wrote or is about to.
Contended(p) ==
  /\ Cardinality(InLastHour(p)) < Limit
  /\ counted[p] # recorded \/ \E q \in Pings \ {p} : state[q] = "insert"
  /\ Unbudgeted(p)

\* Or the insert or the commit fails for another reason.
RecordPing(p) ==
  /\ state[p] = "insert"
  /\ \/ Recorded(p) /\ UNCHANGED faults
     \/ Refused(p) /\ UNCHANGED faults
     \/ Contended(p) /\ UNCHANGED faults
     \/ Fault /\ Unbudgeted(p)
  /\ counted' = [counted EXCEPT ![p] = {}] /\ wanted' = [wanted EXCEPT ![p] = 0]
  /\ UNCHANGED <<cfg, now, kind, due, batch, up, observers>>

QueueOverflow(p) ==
  /\ state[p] = "overflow"
  /\ \/ /\ due' = [due EXCEPT ![p] = NextFullHour(now)]
        /\ Goto(p, "queued") /\ UNCHANGED faults
     \/ Fault /\ Goto(p, "lost") /\ UNCHANGED due
  /\ UNCHANGED <<cfg, now, kind, budget, batch, up, observers>>

Received(p) == sent' = [sent EXCEPT ![p] = @ + 1]

\* sendViaBridge in a handler; a ping whose send fails is not queued.
SendNow(p) ==
  /\ state[p] = "send"
  /\ \/ Received(p) /\ Goto(p, "done") /\ UNCHANGED <<faults, doubtful>>
     \/ Fault /\ Received(p) /\ Goto(p, "lost") /\ doubtful' = doubtful \cup {p}
     \/ Fault /\ Goto(p, "lost") /\ UNCHANGED <<sent, doubtful>>
  /\ UNCHANGED <<cfg, now, kind, budget, due, batch, up, notBefore>>

(***************************************************************************)
(* FlushPendingPings                                                       *)
(***************************************************************************)
IsDue(p) == state[p] = "queued" /\ due[p] <= now

FlushSelect ==
  /\ up /\ batch = {} /\ \A p \in Pings : state[p] # "marking"
  /\ {p \in Pings : IsDue(p)} # {}
  /\ batch' = {p \in Pings : IsDue(p)}
  /\ UNCHANGED <<cfg, now, kind, state, budget, due, up, faults, observers>>

\* A bug: a ping whose delivery failed is marked like the others.
AfterFailedDelivery(p) == Goto(p, "marking")

\* A ping whose delivery fails stays queued for the next flush.
DeliveryFailed(p) == UNCHANGED state

\* One row at a time.
FlushDeliver(p) ==
  /\ p \in batch /\ \A q \in Pings : state[q] # "marking"
  /\ batch' = batch \ {p}
  /\ \/ Received(p) /\ Goto(p, "marking") /\ UNCHANGED <<faults, doubtful>>
     \/ Fault /\ Received(p) /\ DeliveryFailed(p) /\ doubtful' = doubtful \cup {p}
     \/ Fault /\ DeliveryFailed(p) /\ UNCHANGED <<sent, doubtful>>
  /\ UNCHANGED <<cfg, now, kind, budget, due, up, notBefore>>

\* A bug: the row is left as it is.
MarkedAsBefore == "queued"

Marked == "done"

\* The UPDATE, which may fail.
FlushMark(p) ==
  /\ state[p] = "marking"
  /\ \/ /\ Goto(p, Marked) /\ due' = [due EXCEPT ![p] = 0]
        /\ UNCHANGED <<faults, doubtful>>
     \/ Fault /\ Goto(p, "queued") /\ doubtful' = doubtful \cup {p} /\ UNCHANGED due
  /\ UNCHANGED <<cfg, now, kind, budget, batch, up, sent, notBefore>>

(***************************************************************************)
(* The environment                                                         *)
(***************************************************************************)
\* The process stops: handlers vanish, the batch too, the tables stay.
Crash ==
  /\ up /\ Fault
  /\ up' = FALSE /\ batch' = {}
  /\ state' = [p \in Pings |->
       IF state[p] \in InHandler THEN "lost"
       ELSE IF state[p] = "marking" THEN "queued" ELSE state[p]]
  /\ doubtful' = doubtful \cup {p \in Pings : state[p] = "marking"}
  /\ counted' = [p \in Pings |-> {}] /\ wanted' = [p \in Pings |-> 0]
  /\ UNCHANGED <<cfg, now, kind, due, recorded, sent, notBefore>>

Start ==
  /\ ~up
  /\ up' = TRUE
  /\ UNCHANGED <<cfg, now, kind, state, budget, due, batch, faults, observers>>

\* Bound: no handler is still running a tick after the last request.
Tick ==
  /\ now < MaxTime
  /\ now > LastRequest => \A p \in Pings : state[p] \notin InHandler
  /\ now' = now + 1
  /\ UNCHANGED <<cfg, kind, state, budget, due, recorded, batch, up, faults, observers>>

Handle(p) ==
  QueueQuiet(p) \/ CountPings(p) \/ RecordPing(p) \/ QueueOverflow(p) \/ SendNow(p)

Flush == FlushSelect \/ \E p \in Pings : FlushDeliver(p) \/ FlushMark(p)

Next ==
  \/ \E p \in Pings :
       \/ \E k \in {"normal", "high", "notify"} : Request(p, k)
       \/ QueueQuiet(p) \/ CountPings(p) \/ RecordPing(p)
       \/ QueueOverflow(p) \/ SendNow(p) \/ FlushDeliver(p) \/ FlushMark(p)
  \/ FlushSelect
  \/ Crash \/ Start \/ Tick

\* The clock runs, and so do handlers once begun, the goroutine that flushes
\* every minute and the supervisor.
Fairness ==
  /\ WF_vars(Tick) /\ WF_vars(Flush) /\ WF_vars(Start)
  /\ \A p \in Pings : WF_vars(Handle(p))

Spec == Init /\ [][Next]_vars /\ Fairness

(***************************************************************************)
(* Properties                                                              *)
(***************************************************************************)
\* However handlers interleave, no hour ever holds more than Limit recorded
\* pings (wa_budget.go:9-15).
BudgetHolds ==
  \A r \in recorded :
    Cardinality({q \in recorded : r.ts - Hour < q.ts /\ q.ts <= r.ts}) <= Limit

\* A relay asked for in a quiet window does not reach the owner before the
\* clocks show that window's end, wherever the window lies, whatever passes
\* between the check and the queueing and through a change of the clocks,
\* but for those it misjudges, a finding; only an urgent one with the override
\* may (quiet_hours.go:37-83).
QuietIsKept ==
  [][\A p \in Pings : sent'[p] > sent[p] => now >= notBefore[p]]_vars

\* The owner gets a ping twice only if a call that delivered it did not live
\* to say so or to record it (quiet_hours.go:124-135).
TwiceOnlyInDoubt == \A p \in Pings : sent[p] > 1 => p \in doubtful

\* A queued ping is delivered in the end, through failures of the bridge and
\* restarts (quiet_hours.go:97-136).
QueuedIsDelivered == \A p \in Pings : state[p] = "queued" ~> sent[p] > 0

(***************************************************************************)
(* Why they hold: three inductive invariants                               *)
(***************************************************************************)
Window(rows, r) == {q \in rows : r.ts - Hour < q.ts /\ q.ts <= r.ts}

\* A transaction counts from an instant that is not later than its insert, and
\* no row is from the future.
BudgetShape ==
  /\ now \in Nat
  /\ state \in [Pings -> States] /\ wanted \in [Pings -> Nat]
  /\ recorded \subseteq [by : Pings, ts : Nat] /\ IsFiniteSet(recorded)
  /\ \A r \in recorded : r.ts <= now
  /\ \A p \in Pings : wanted[p] <= now

BudgetInv == BudgetShape /\ \A r \in recorded : Cardinality(Window(recorded, r)) <= Limit

\* Nothing is received before it is sent; what is queued and what the flush
\* holds has not been received, or is in doubt.
DoubtInv ==
  /\ state \in [Pings -> States] /\ sent \in [Pings -> Nat]
  /\ \A p \in Pings :
       /\ state[p] \in InHandler \cup {"new"} => sent[p] = 0
       /\ state[p] = "queued" /\ p \notin doubtful => sent[p] = 0
       /\ p \in batch => state[p] = "queued"
       /\ p \notin doubtful => sent[p] <= 1

\* A ping on its way to a send may be sent now, one in the queue when it is due;
\* one about to be queued was asked for in a window that may be over by now, and
\* must wait no longer than for its end.
QuietInv ==
  /\ cfg \in Configs /\ now \in Nat
  /\ due \in [Pings -> Nat] /\ notBefore \in [Pings -> Nat]
  /\ \A p \in Pings :
       /\ state[p] \in InHandler \ {"quiet"} => notBefore[p] <= now
       /\ state[p] = "quiet" => \E t \in 0 .. now : notBefore[p] <= QuietUntil(t)
       /\ state[p] \in {"queued", "marking"} => notBefore[p] <= due[p]
       /\ p \in batch => due[p] <= now
=============================================================================
