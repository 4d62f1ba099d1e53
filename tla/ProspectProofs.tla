--------------------------- MODULE ProspectProofs ---------------------------
(***************************************************************************)
(* Proofs about Pings and Crm, the two parts of prospect-api that keep state, *)
(* for any number of requests, any limit, clock, values and number of      *)
(* failures: no hour holds more pings than the budget, none comes in quiet *)
(* hours, none twice without a call whose outcome nobody recorded; and no  *)
(* sequence of updates of a note forgets a value, unless one of them was   *)
(* forced, overtaken or cut short.                                         *)
(***************************************************************************)
EXTENDS Pings, Crm, FiniteSetTheorems, WellFoundedInduction, TLAPS

-----------------------------------------------------------------------------
(* The budget.                                                             *)

LEMMA BudgetInitial == Init => BudgetInv
BY FS_EmptySet DEF Init, BudgetInv, BudgetShape, States

\* The transaction: what it counted is what is there, so the hour that ends now
\* holds the counted rows of its last hour and its own.
LEMMA BudgetRecorded ==
  ASSUME BudgetInv, NEW p \in Pings, MayInsert(p),
         Cardinality(InLastHour(p)) < Limit,
         recorded' = recorded \cup {[by |-> p, ts |-> now]}
  PROVE  \A r \in recorded' : Cardinality(Window(recorded', r)) <= Limit
<1> DEFINE new == [by |-> p, ts |-> now]
<1> USE PingsAssumption DEF BudgetInv, BudgetShape, MayInsert
<1>1. IsFiniteSet(InLastHour(p)) /\ Cardinality(InLastHour(p)) \in Nat
  BY FS_Subset, FS_CardinalityType DEF InLastHour
<1>2. /\ IsFiniteSet(InLastHour(p) \cup {new})
      /\ Cardinality(InLastHour(p) \cup {new}) <= Limit
  <2> DEFINE S == InLastHour(p)
  <2>1. IsFiniteSet(S) /\ Cardinality(S) \in Nat /\ Cardinality(S) < Limit
    BY <1>1
  <2> HIDE DEF new, S
  <2>2. IsFiniteSet(S \cup {new})
    BY <2>1, FS_AddElement
  <2>3. \/ Cardinality(S \cup {new}) = Cardinality(S)
        \/ Cardinality(S \cup {new}) = Cardinality(S) + 1
    BY <2>1, FS_AddElement
  <2>4. Cardinality(S \cup {new}) <= Limit
    BY <2>1, <2>3, PingsAssumption
  <2> QED
    BY <2>2, <2>4 DEF S
<1> SUFFICES ASSUME NEW r \in recorded' PROVE Cardinality(Window(recorded', r)) <= Limit
  OBVIOUS
<1>3. r.ts \in Nat /\ r.ts <= now
  OBVIOUS
<1>4. CASE r.ts = now
  <2>1. Window(recorded', r) \subseteq InLastHour(p) \cup {new}
    BY <1>4 DEF Window, InLastHour
  <2>2. Cardinality(Window(recorded', r)) <= Cardinality(InLastHour(p) \cup {new})
    BY <1>2, <2>1, FS_Subset
  <2>3. /\ Cardinality(Window(recorded', r)) \in Nat
        /\ Cardinality(InLastHour(p) \cup {new}) \in Nat
    BY <1>2, <2>1, FS_Subset, FS_CardinalityType
  <2> QED
    BY <1>2, <2>2, <2>3
<1>5. CASE r.ts # now
  <2>1. r \in recorded
    BY <1>5
  <2>2. Window(recorded', r) = Window(recorded, r)
    BY <1>3, <1>5 DEF Window
  <2> QED
    BY <2>1, <2>2
<1> QED
  BY <1>4, <1>5

\* A step that leaves the table alone and does not set the clock back.
LEMMA BudgetKept ==
  ASSUME BudgetInv, UNCHANGED recorded, now' \in Nat, now' >= now,
         state' \in [Pings -> States], wanted' \in [Pings -> Nat],
         \A p \in Pings : wanted'[p] <= now'
  PROVE  BudgetInv'
BY DEF BudgetInv, BudgetShape, Window

\* Handlers.
LEMMA BudgetHandler ==
  ASSUME BudgetInv, NEW p \in Pings,
         \/ \E k \in {"normal", "high", "notify"} : Request(p, k)
         \/ QueueQuiet(p) \/ CountPings(p) \/ RecordPing(p)
         \/ QueueOverflow(p) \/ SendNow(p)
  PROVE  BudgetInv'
<1> USE DEF BudgetInv, BudgetShape, Goto, States, budget, observers
<1>1. ASSUME NEW k \in {"normal", "high", "notify"}, Request(p, k) PROVE BudgetInv'
  BY <1>1, BudgetKept DEF Request
<1>2. CASE QueueQuiet(p)
  BY <1>2, BudgetKept DEF QueueQuiet
<1>3. CASE CountPings(p)
  BY <1>3, BudgetKept DEF CountPings, Unbudgeted
<1>4. CASE RecordPing(p)
  <2> wanted' \in [Pings -> Nat] /\ (\A q \in Pings : wanted'[q] <= now') /\ now' = now
    BY <1>4 DEF RecordPing
  <2>1. CASE Refused(p)
    BY <1>4, <2>1, BudgetKept DEF Refused
  <2>2. CASE Contended(p) \/ Unbudgeted(p)
    BY <1>4, <2>2, BudgetKept DEF Contended, Unbudgeted
  <2>3. CASE Recorded(p)
    <3>1. \A r \in recorded' : Cardinality(Window(recorded', r)) <= Limit
      BY <2>3, BudgetRecorded DEF Recorded
    <3>2. IsFiniteSet(recorded')
      BY <2>3, FS_AddElement DEF Recorded
    <3>3. state' \in [Pings -> States]
      BY <2>3 DEF Recorded
    <3>4. recorded' \subseteq [by : Pings, ts : Nat] /\ \A r \in recorded' : r.ts <= now'
      BY <2>3 DEF Recorded
    <3> QED
      BY <3>1, <3>2, <3>3, <3>4
  <2> QED
    BY <1>4, <2>1, <2>2, <2>3 DEF RecordPing
<1>5. CASE QueueOverflow(p)
  BY <1>5, BudgetKept DEF QueueOverflow
<1>6. CASE SendNow(p)
  BY <1>6, BudgetKept DEF SendNow
<1> QED
  BY <1>1, <1>2, <1>3, <1>4, <1>5, <1>6

\* Everything else.
LEMMA BudgetStep == BudgetInv /\ [Next]_vars => BudgetInv'
<1> SUFFICES ASSUME BudgetInv, [Next]_vars PROVE BudgetInv'
  OBVIOUS
<1> USE DEF BudgetInv, BudgetShape, Goto, States, budget, observers
<1>1. CASE UNCHANGED vars
  BY <1>1, BudgetKept DEF vars
<1>2. ASSUME NEW p \in Pings, FlushDeliver(p) PROVE BudgetInv'
  BY <1>2, BudgetKept DEF FlushDeliver, DeliveryFailed
<1>3. ASSUME NEW p \in Pings, FlushMark(p) PROVE BudgetInv'
  BY <1>3, BudgetKept DEF FlushMark, Marked
<1>4. CASE FlushSelect \/ Start
  BY <1>4, BudgetKept DEF FlushSelect, Start
<1>5. CASE Crash
  BY <1>5, BudgetKept DEF Crash
<1>6. CASE Tick
  BY <1>6, BudgetKept DEF Tick
<1> QED
  BY <1>1, <1>2, <1>3, <1>4, <1>5, <1>6, BudgetHandler DEF Next

\* No hour holds more than Limit recorded pings, however handlers interleave
\* between the count and the insert of their transactions (wa_budget.go:9-15).
THEOREM BudgetIsKept == Spec => []BudgetHolds
<1>1. BudgetInv => BudgetHolds
  BY DEF BudgetInv, BudgetHolds, Window
<1> QED
  BY <1>1, BudgetInitial, BudgetStep, PTL DEF Spec

-----------------------------------------------------------------------------
(* Deliveries.                                                             *)

LEMMA DoubtInitial == Init => DoubtInv
BY DEF Init, DoubtInv, States, InHandler

LEMMA DoubtStep == DoubtInv /\ [Next]_vars => DoubtInv'
<1> SUFFICES ASSUME DoubtInv, [Next]_vars PROVE DoubtInv'
  OBVIOUS
<1> USE DEF DoubtInv, Goto, States, InHandler, budget, observers, Received
<1>1. CASE UNCHANGED vars
  BY <1>1 DEF vars
<1>2. ASSUME NEW p \in Pings, NEW k \in {"normal", "high", "notify"}, Request(p, k)
      PROVE  DoubtInv'
  BY <1>2 DEF Request
<1>3. ASSUME NEW p \in Pings, QueueQuiet(p) PROVE DoubtInv'
  BY <1>3 DEF QueueQuiet
<1>4. ASSUME NEW p \in Pings, CountPings(p) PROVE DoubtInv'
  BY <1>4 DEF CountPings, Unbudgeted
<1>5. ASSUME NEW p \in Pings, RecordPing(p) PROVE DoubtInv'
  BY <1>5 DEF RecordPing, Recorded, Refused, Contended, Unbudgeted
<1>6. ASSUME NEW p \in Pings, QueueOverflow(p) PROVE DoubtInv'
  BY <1>6 DEF QueueOverflow
<1>7. ASSUME NEW p \in Pings, SendNow(p) PROVE DoubtInv'
  BY <1>7 DEF SendNow
<1>8. ASSUME NEW p \in Pings, FlushDeliver(p) PROVE DoubtInv'
  BY <1>8 DEF FlushDeliver, DeliveryFailed
<1>9. ASSUME NEW p \in Pings, FlushMark(p) PROVE DoubtInv'
  BY <1>9 DEF FlushMark, Marked
<1>10. CASE FlushSelect
  BY <1>10 DEF FlushSelect, IsDue
<1>11. CASE Crash
  BY <1>11 DEF Crash
<1>12. CASE Start \/ Tick
  BY <1>12 DEF Start, Tick
<1> QED
  BY <1>1, <1>2, <1>3, <1>4, <1>5, <1>6, <1>7, <1>8, <1>9, <1>10, <1>11, <1>12 DEF Next

\* The owner gets a ping twice only if a call that delivered it failed or was
\* cut off, or its row could not be marked (quiet_hours.go:124-135).
THEOREM TwiceNeedsDoubt == Spec => []TwiceOnlyInDoubt
<1>1. DoubtInv => TwiceOnlyInDoubt
  BY DEF DoubtInv, TwiceOnlyInDoubt
<1> QED
  BY <1>1, DoubtInitial, DoubtStep, PTL DEF Spec

-----------------------------------------------------------------------------
(* Quiet hours.                                                            *)

\* Division with a remainder, and that there is only one.
LEMMA Divides ==
  ASSUME NEW d \in Nat \ {0}, NEW x \in Int
  PROVE  x = (x \div d) * d + (x % d) /\ x % d \in 0 .. d - 1 /\ x \div d \in Int
OBVIOUS

LEMMA Multiples == ASSUME NEW k \in Int, NEW d \in Nat, k >= 1 PROVE k * d >= d
BY SMTT(30)

LEMMA RemainderIs ==
  ASSUME NEW d \in Nat \ {0}, NEW x \in Int, NEW k \in Int, NEW r \in 0 .. d - 1,
         x = k * d + r
  PROVE  x % d = r
<1> DEFINE q == x \div d
           s == x % d
<1>1. x = q * d + s /\ s \in 0 .. d - 1 /\ q \in Int
  BY Divides
<1> HIDE DEF q, s
<1>2. (k - q) * d = s - r
  BY <1>1
<1>3. CASE k - q >= 1
  <2>1. (k - q) * d >= d
    BY <1>1, <1>3, Multiples
  <2> QED
    BY <1>1, <1>2, <2>1
<1>4. CASE k - q <= -1
  <2>1. (q - k) * d >= d
    BY <1>1, <1>4, Multiples
  <2>2. (q - k) * d = r - s
    BY <1>1
  <2> QED
    BY <1>1, <2>1, <2>2
<1>5. CASE k = q
  BY <1>1, <1>5 DEF s
<1> QED
  BY <1>1, <1>3, <1>4, <1>5

\* What a setting's clocks do.
LEMMA ZoneIs ==
  ASSUME cfg \in Configs
  PROVE  /\ cfg.change \in Nat /\ cfg.shift \in Int /\ cfg.change + cfg.shift >= 0
         /\ -Day <= 2 * cfg.shift /\ 2 * cfg.shift <= Day
BY PingsAssumption

LEMMA LocalIs ==
  ASSUME cfg \in Configs, NEW t \in Int
  PROVE  /\ Local(t) \in Int /\ (t \in Nat => Local(t) \in Nat)
         /\ t < cfg.change => Local(t) = t
         /\ t >= cfg.change => Local(t) = t + cfg.shift
BY ZoneIs DEF Local

\* How long the window is, and how far into it an instant lies.
LEMMA WindowIs ==
  ASSUME cfg \in Configs
  PROVE  /\ cfg.start \in 0 .. Day - 1 /\ cfg.end \in 0 .. Day - 1
         /\ Day \in Nat \ {0}
         /\ (cfg.end - cfg.start) % Day =
              IF cfg.start <= cfg.end THEN cfg.end - cfg.start ELSE cfg.end - cfg.start + Day
<1>1. cfg.start \in 0 .. Day - 1 /\ cfg.end \in 0 .. Day - 1 /\ Day \in Nat \ {0}
  BY PingsAssumption
<1> DEFINE a == cfg.start
           b == cfg.end
<1> HIDE DEF a, b
<1>2. a \in 0 .. Day - 1 /\ b \in 0 .. Day - 1
  BY <1>1 DEF a, b
<1>3. CASE a <= b
  <2>1. b - a \in Int /\ b - a \in 0 .. Day - 1
    BY <1>1, <1>2, <1>3
  <2> DEFINE d == b - a
  <2>2. d \in Int /\ d \in 0 .. Day - 1
    BY <2>1
  <2> HIDE DEF d
  <2>3. d = 0 * Day + d /\ 0 \in Int
    BY <1>1, <2>2
  <2>4. d % Day = d
    BY <1>1, <2>2, <2>3, RemainderIs
  <2> QED
    BY <1>1, <1>3, <2>4 DEF a, b, d
<1>4. CASE ~(a <= b)
  <2>1. b - a + Day \in 0 .. Day - 1 /\ b - a = (-1) * Day + (b - a + Day)
    BY <1>1, <1>2, <1>4
  <2>2. (b - a) % Day = b - a + Day
    BY <1>1, <1>2, <2>1, RemainderIs
  <2> QED
    BY <1>1, <1>4, <2>2 DEF a, b
<1> QED
  BY <1>3, <1>4

\* An instant out of the code's window is out of the window as it is meant.
LEMMA OutOfWindow ==
  ASSUME cfg \in Configs, NEW t \in Nat, ~InQuietHours(t)
  PROVE  ~Quiet(t)
<1> DEFINE a == cfg.start
           b == cfg.end
           l == Local(t)
           q == l \div Day
           m == l % Day
<1>1. /\ a \in 0 .. Day - 1 /\ b \in 0 .. Day - 1 /\ Day \in Nat \ {0}
      /\ (b - a) % Day = IF a <= b THEN b - a ELSE b - a + Day
  BY WindowIs
<1>2. l = q * Day + m /\ m \in 0 .. Day - 1 /\ q \in Int /\ l \in Int
  <2>1. l \in Int
    BY LocalIs
  <2> HIDE DEF l
  <2> QED
    BY <1>1, <2>1, Divides
<1>3. IF a <= b THEN ~(m >= a /\ m < b) ELSE ~(m >= a \/ m < b)
  BY DEF InQuietHours
<1>4. Quiet(t) <=> (l - a) % Day < (b - a) % Day
  BY DEF Quiet
<1> HIDE DEF a, b, q, m, l
<1>5. CASE m >= a
  <2> DEFINE r == m - a
             x == l - a
  <2>1. r \in 0 .. Day - 1 /\ x = q * Day + r /\ x \in Int /\ q \in Int
    BY <1>1, <1>2, <1>5
  <2> HIDE DEF r, x
  <2>2. x % Day = r
    <3>1. Day \in Nat \ {0}
      BY <1>1
    <3> QED
      BY <2>1, <3>1, RemainderIs
  <2>3. CASE a <= b
    BY <1>1, <1>2, <1>3, <1>4, <1>5, <2>2, <2>3 DEF r, x
  <2>4. CASE ~(a <= b)
    BY <1>3, <1>5, <2>4
  <2> QED
    BY <2>3, <2>4
<1>6. CASE ~(m >= a)
  <2> DEFINE r == m - a + Day
             x == l - a
             n == q - 1
  <2>1. r \in 0 .. Day - 1 /\ x = n * Day + r /\ x \in Int /\ n \in Int
    BY <1>1, <1>2, <1>6
  <2> HIDE DEF r, x, n
  <2>2. x % Day = r
    <3>1. Day \in Nat \ {0}
      BY <1>1
    <3> QED
      BY <2>1, <3>1, RemainderIs
  <2>3. CASE a <= b
    BY <1>1, <1>2, <1>4, <2>2, <2>3 DEF r, x
  <2>4. CASE ~(a <= b)
    BY <1>1, <1>2, <1>3, <1>4, <1>6, <2>2, <2>4 DEF r, x
  <2> QED
    BY <2>3, <2>4
<1> QED
  BY <1>5, <1>6

\* The instant at which the clocks show the window's end is out of the window.
LEMMA EndIsOutside ==
  ASSUME cfg \in Configs, NEW u \in Int, NEW k \in Int, Local(u) = k * Day + cfg.end
  PROVE  ~Quiet(u)
<1> DEFINE a == cfg.start
           b == cfg.end
           w == Local(u)
<1>1. /\ a \in 0 .. Day - 1 /\ b \in 0 .. Day - 1 /\ Day \in Nat \ {0}
      /\ (b - a) % Day = IF a <= b THEN b - a ELSE b - a + Day
  BY WindowIs
<1>2. w \in Int /\ w = k * Day + b
  BY LocalIs
<1>3. Quiet(u) <=> (w - a) % Day < (b - a) % Day
  BY DEF Quiet
<1> HIDE DEF a, b, w
<1>4. (w - a) % Day = (b - a) % Day
  <2>1. CASE a <= b
    <3>1. b - a \in 0 .. Day - 1 /\ w - a = k * Day + (b - a)
      BY <1>1, <1>2, <2>1
    <3>2. (w - a) % Day = b - a
      BY <1>1, <1>2, <3>1, RemainderIs
    <3> QED
      BY <1>1, <2>1, <3>2
  <2>2. CASE ~(a <= b)
    <3>1. /\ b - a + Day \in 0 .. Day - 1 /\ w - a = (k - 1) * Day + (b - a + Day)
          /\ k - 1 \in Int
      BY <1>1, <1>2, <2>2
    <3>2. (w - a) % Day = b - a + Day
      <4> DEFINE x == w - a
                 r == b - a + Day
                 n == k - 1
      <4>1. x \in Int /\ r \in 0 .. Day - 1 /\ x = n * Day + r /\ n \in Int
        BY <1>1, <1>2, <3>1
      <4> HIDE DEF x, r, n
      <4>2. x % Day = r
        BY <1>1, <4>1, RemainderIs
      <4> QED
        BY <4>2 DEF x, r
    <3> QED
      BY <1>1, <2>2, <3>2
  <2> QED
    BY <2>1, <2>2
<1>5. (b - a) % Day \in Int
  BY <1>1
<1> QED
  BY <1>3, <1>4, <1>5

\* Where the end of an instant's date lies, on the clocks.
LEMMA EndTodayIs ==
  ASSUME cfg \in Configs, NEW t \in Nat
  PROVE  \E k \in Nat : /\ EndToday(t) = k * Day + cfg.end
                        /\ k * Day <= Local(t) /\ Local(t) < k * Day + Day
                        /\ k * Day \in Nat
<1> DEFINE l == Local(t)
           k == l \div Day
<1>1. l \in Nat /\ Day \in Nat \ {0}
  BY LocalIs, PingsAssumption
<1>2. EndToday(t) = k * Day + cfg.end
  BY DEF EndToday
<1> HIDE DEF l
<1>3. l = k * Day + (l % Day) /\ l % Day \in 0 .. Day - 1 /\ k \in Int
  BY <1>1, Divides
<1>4. k \in Nat
  BY <1>1
<1> HIDE DEF k
<1> DEFINE base == k * Day
<1>5. base \in Nat
  BY <1>1, <1>4
<1>6. base <= l /\ l < base + Day
  <2> DEFINE m == l % Day
  <2>1. l = base + m /\ m \in 0 .. Day - 1
    BY <1>3
  <2> HIDE DEF m, base
  <2> QED
    BY <1>1, <1>5, <2>1
<1> QED
  BY <1>2, <1>4, <1>5, <1>6 DEF l

LEMMA NextDay ==
  ASSUME cfg \in Configs, NEW k \in Int
  PROVE  (k + 1) * Day + cfg.end = k * Day + cfg.end + Day
<1> DEFINE e == cfg.end
<1>1. Day \in Nat /\ e \in Int
  BY WindowIs
<1> HIDE DEF e
<1>2. (k + 1) * Day + e = k * Day + e + Day
  BY <1>1
<1> QED
  BY <1>2 DEF e

\* No window lasts longer than a day by the clocks.
LEMMA QuietIsFinite ==
  ASSUME cfg \in Configs, NEW t \in Nat
  PROVE  \E u \in t .. t + 2 * Day : ~Quiet(u)
<1>1. /\ cfg.end \in 0 .. Day - 1 /\ Day \in Nat \ {0}
      /\ cfg.change \in Nat /\ cfg.shift \in Int
  BY WindowIs, ZoneIs
<1>2. ASSUME NEW s \in Nat,
             \A u \in s .. s + Day : Local(u) = Local(s) + (u - s)
      PROVE  \E u \in s .. s + Day : ~Quiet(u)
  <2>1. PICK k \in Nat : /\ EndToday(s) = k * Day + cfg.end
                         /\ k * Day <= Local(s) /\ Local(s) < k * Day + Day
                         /\ k * Day \in Nat
    BY EndTodayIs
  <2> DEFINE base == k * Day
             l == Local(s)
             u == IF l <= base + cfg.end THEN s + (base + cfg.end - l)
                  ELSE s + (base + cfg.end + Day - l)
  <2>2. l \in Nat /\ base \in Nat /\ base <= l /\ l < base + Day
    BY <2>1, LocalIs
  <2> HIDE DEF l, base
  <2>3. u \in s .. s + Day /\ u \in Int
    BY <1>1, <2>2
  <2>4. l + (u - s) = base + cfg.end \/ l + (u - s) = base + cfg.end + Day
    BY <1>1, <2>2
  <2> HIDE DEF u
  <2>5. Local(u) = l + (u - s)
    BY <1>2, <2>3 DEF l
  <2>6. k + 1 \in Int /\ (k + 1) * Day + cfg.end = base + cfg.end + Day
    BY NextDay DEF base
  <2>7. ~Quiet(u)
    <3>1. CASE Local(u) = base + cfg.end
      BY <2>3, <3>1, EndIsOutside DEF base
    <3>2. CASE Local(u) = (k + 1) * Day + cfg.end
      BY <2>3, <2>6, <3>2, EndIsOutside
    <3> QED
      BY <2>4, <2>5, <2>6, <3>1, <3>2
  <2> QED
    BY <2>3, <2>7
<1>3. CASE t >= cfg.change \/ t + Day < cfg.change
  <2>1. \A u \in t .. t + Day : Local(u) = Local(t) + (u - t)
    BY <1>1, <1>3 DEF Local
  <2>2. PICK u \in t .. t + Day : ~Quiet(u)
    BY <1>2, <2>1
  <2> QED
    BY <1>1, <2>2
<1>4. CASE t < cfg.change /\ cfg.change <= t + Day
  <2> DEFINE s == cfg.change
  <2>1. \A u \in s .. s + Day : Local(u) = Local(s) + (u - s)
    BY <1>1 DEF Local
  <2>2. PICK u \in s .. s + Day : ~Quiet(u)
    BY <1>1, <1>2, <2>1
  <2> QED
    BY <1>1, <1>4, <2>2
<1> QED
  BY <1>1, <1>3, <1>4

\* The instants of a time of day that the clocks show.
LEMMA ShowsIs ==
  ASSUME cfg \in Configs, NEW l \in Int, NEW u \in Shows(l)
  PROVE  /\ u \in Int /\ Local(u) = l
         /\ \/ u = l /\ u < cfg.change
            \/ u = l - cfg.shift /\ u >= cfg.change
<1>1. u \in {l, l - cfg.shift} /\ Local(u) = l
  BY DEF Shows
<1>2. cfg.shift \in Int /\ cfg.change \in Nat
  BY ZoneIs
<1> QED
  BY <1>1, <1>2 DEF Local

\* And when they show it at none.
LEMMA ShowsNone ==
  ASSUME cfg \in Configs, NEW l \in Int, Shows(l) # {}
  PROVE  l < cfg.change \/ l - cfg.shift >= cfg.change
<1>1. PICK u : u \in Shows(l)
  OBVIOUS
<1>2. cfg.shift \in Int /\ cfg.change \in Nat
  BY ZoneIs
<1> QED
  BY <1>1, <1>2, ShowsIs

LEMMA WakeTyped ==
  ASSUME cfg \in Configs, NEW t \in Nat, NEW w \in NextWakeTimes(t)
  PROVE  w \in Nat
<1>1. PICK k \in Nat : EndToday(t) = k * Day + cfg.end /\ k * Day \in Nat
  BY EndTodayIs
<1> DEFINE l == EndToday(t)
<1>2. l \in Nat
  BY <1>1, WindowIs
<1>3. PICK u \in Date(l) : w = IF u > t THEN u ELSE u + Day
  BY DEF NextWakeTimes
<1> HIDE DEF l
<1>4. u \in {l, l - cfg.shift}
  BY <1>3 DEF Date, Shows
<1> QED
  BY <1>2, <1>3, <1>4, ZoneIs, PingsAssumption

\* A wake time that is not misjudged comes after the window is over.
LEMMA WakesOutside ==
  ASSUME cfg \in Configs, NEW t \in Nat, NEW w \in NextWakeTimes(t), ~Misjudged(t)
  PROVE  \E v \in Nat : t <= v /\ v <= w /\ ~Quiet(v)
<1> DEFINE l == EndToday(t)
           c == cfg.change
           s == cfg.shift
<1>1. PICK k \in Nat : /\ l = k * Day + cfg.end
                       /\ k * Day <= Local(t) /\ Local(t) < k * Day + Day
                       /\ k * Day \in Nat
  BY EndTodayIs
<1>2. l \in Nat /\ Local(t) < l + Day /\ Local(t) \in Nat
  BY <1>1, WindowIs, LocalIs
<1>3. /\ c \in Nat /\ s \in Int /\ Day \in Nat \ {0}
      /\ -Day <= 2 * s /\ 2 * s <= Day
  BY ZoneIs, PingsAssumption
<1>4. /\ Shows(l) # {} /\ Shows(l + Day) # {}
      /\ ~(s < 0 /\ l <= t /\ l < c /\ (c <= l + Day \/ c <= t))
  BY DEF Misjudged
<1>5. PICK u \in Date(l) : w = IF u > t THEN u ELSE u + Day
  BY DEF NextWakeTimes
<1>6. w \in Nat
  BY WakeTyped
<1>7. u \in Shows(l)
  BY <1>4, <1>5 DEF Date
<1>8. /\ k \in Int /\ k + 1 \in Int /\ l + Day = (k + 1) * Day + cfg.end
  BY <1>1, NextDay
<1>9. IF t < c THEN Local(t) = t ELSE Local(t) = t + s
  BY DEF Local
<1>10. \A v \in Int : Local(v) = IF v < c THEN v ELSE v + s
  BY DEF Local
<1>11. ASSUME NEW v \in Nat, t <= v, v <= w, Local(v) = l \/ Local(v) = l + Day
       PROVE  \E x \in Nat : t <= x /\ x <= w /\ ~Quiet(x)
  <2>1. ~Quiet(v)
    BY <1>1, <1>8, <1>11, EndIsOutside
  <2> QED
    BY <1>11, <2>1
<1>12. /\ u \in Int /\ Local(u) = l
       /\ (u = l /\ u < c) \/ (u = l - s /\ u >= c)
  <2> HIDE DEF l
  <2>1. l \in Int
    BY <1>2
  <2> QED
    BY <1>7, <2>1, ShowsIs
<1>13. l + Day < c \/ l + Day - s >= c
  BY <1>2, <1>3, <1>4, ShowsNone
<1> HIDE DEF l, c, s
<1>14. CASE u > t
  <2>1. w = u
    BY <1>5, <1>14
  <2> QED
    BY <1>6, <1>11, <1>12, <1>14, <2>1
<1>15. CASE ~(u > t) /\ (u >= c \/ w < c)
  <2>1. w = u + Day
    BY <1>5, <1>15
  <2>2. Local(w) = l + Day
    BY <1>2, <1>3, <1>6, <1>10, <1>12, <1>15, <2>1
  <2>3. t <= w
    BY <1>2, <1>3, <1>4, <1>6, <1>9, <1>12, <1>15, <2>1
  <2> QED
    BY <1>6, <1>11, <2>2, <2>3
<1>16. CASE ~(u > t) /\ u < c /\ c <= w
  <2>1. w = u + Day /\ u = l
    BY <1>2, <1>3, <1>5, <1>12, <1>16
  <2>2. s >= 0
    BY <1>2, <1>3, <1>4, <1>16, <2>1
  <2>3. w - s >= c /\ w - s \in Nat /\ w - s <= w
    BY <1>2, <1>3, <1>6, <1>13, <1>16, <2>1, <2>2
  <2>4. Local(w - s) = l + Day
    BY <1>2, <1>3, <1>6, <1>10, <2>1, <2>3
  <2>5. t <= w - s
    BY <1>2, <1>3, <1>6, <1>9, <2>1, <2>2, <2>3
  <2> QED
    BY <1>11, <2>3, <2>4, <2>5
<1> QED
  BY <1>3, <1>6, <1>12, <1>14, <1>15, <1>16

\* A set of instants has a first one, which Min finds.
LEMMA MinIsLeast ==
  ASSUME NEW S \in SUBSET Nat, S # {}
  PROVE  Min(S) \in S /\ \A x \in S : Min(S) <= x
<1>1. PICK n \in S : \A m \in S : ~(<<m, n>> \in OpToRel(<, Nat))
  BY NatLessThanWellFounded, WFMin
<1>2. \A m \in S : m \in Nat /\ n \in Nat /\ ~(m < n)
  BY <1>1 DEF OpToRel
<1>3. \A m \in S : n <= m
  BY <1>2
<1> QED
  BY <1>3 DEF Min

\* A window that holds an instant is over by any later one out of it, and by
\* every wake time from then on, and is no window if the instant lies outside.
LEMMA QuietEnds ==
  ASSUME cfg \in Configs, NEW t \in Nat
  PROVE  /\ QuietUntil(t) \in Nat
         /\ ~Quiet(t) => QuietUntil(t) = t
         /\ \A v \in Nat : t <= v /\ ~Quiet(v) => QuietUntil(t) <= v
<1> DEFINE S == {u \in t .. t + 2 * Day : ~Quiet(u)}
<1>1. Day \in Nat \ {0}
  BY PingsAssumption
<1>2. PICK w \in t .. t + 2 * Day : ~Quiet(w)
  BY QuietIsFinite
<1>3. QuietUntil(t) = Min(S)
  BY DEF QuietUntil
<1>4. \A u : u \in S <=> u \in t .. t + 2 * Day /\ ~Quiet(u)
  OBVIOUS
<1>5. S \in SUBSET Nat /\ S # {}
  <2>1. w \in S
    BY <1>1, <1>2, <1>4
  <2> QED
    BY <1>1, <2>1
<1> HIDE DEF S
<1> DEFINE first == Min(S)
<1>6. first \in S /\ \A x \in S : first <= x
  BY <1>5, MinIsLeast
<1> HIDE DEF first
<1>7. first \in Nat /\ t <= first /\ first <= t + 2 * Day
  BY <1>1, <1>4, <1>6
<1>8. ASSUME ~Quiet(t) PROVE first = t
  <2>1. t \in S
    BY <1>1, <1>4, <1>8
  <2> QED
    BY <1>6, <1>7, <2>1
<1>9. ASSUME NEW v \in Nat, t <= v, ~Quiet(v) PROVE first <= v
  <2>1. CASE v <= t + 2 * Day
    <3>1. v \in S
      BY <1>1, <1>4, <1>9, <2>1
    <3> QED
      BY <1>6, <3>1
  <2>2. CASE ~(v <= t + 2 * Day)
    BY <1>1, <1>7, <2>2
  <2> QED
    BY <2>1, <2>2
<1> QED
  BY <1>3, <1>7, <1>8, <1>9 DEF first

LEMMA WakesLater ==
  ASSUME cfg \in Configs, NEW t \in Nat, NEW u \in Nat, t <= u,
         NEW w \in NextWakeTimes(u), ~Misjudged(u)
  PROVE  QuietUntil(t) <= w
<1>1. PICK v \in Nat : u <= v /\ v <= w /\ ~Quiet(v)
  BY WakesOutside
<1>2. QuietUntil(t) \in Nat /\ w \in Nat
  BY QuietEnds, WakeTyped
<1>3. QuietUntil(t) <= v
  BY <1>1, QuietEnds
<1> QED
  BY <1>1, <1>2, <1>3

\* The next full hour lies ahead.
LEMMA NextHourIsLater ==
  ASSUME NEW t \in Nat
  PROVE  NextFullHour(t) \in Nat /\ t < NextFullHour(t)
<1> DEFINE x == t + Hour
           q == x \div Hour
           m == x % Hour
<1>1. Hour \in Nat \ {0} /\ x \in Int
  BY PingsAssumption
<1>2. x = q * Hour + m /\ m \in 0 .. Hour - 1 /\ q \in Int
  BY <1>1, Divides
<1>3. NextFullHour(t) = q * Hour
  BY DEF NextFullHour
<1> HIDE DEF q, m
<1> DEFINE h == q * Hour
<1>4. h \in Int
  BY <1>1, <1>2
<1>5. t + Hour = h + m
  BY <1>2
<1> HIDE DEF h
<1> QED
  BY <1>1, <1>2, <1>3, <1>4, <1>5 DEF h

LEMMA QuietInitial == Init => QuietInv
BY DEF Init, QuietInv, InHandler

\* A request: notify-owner and urgent pings may go at once, others when the
\* window that the code looked at is over.
LEMMA QuietRequest ==
  ASSUME DoubtInv, QuietInv, NEW p \in Pings, NEW k \in {"normal", "high", "notify"},
         Request(p, k)
  PROVE  QuietInv'
<1> DEFINE free == k = "notify" \/ (k = "high" /\ cfg.override)
<1>1. /\ UNCHANGED <<cfg, now, due, batch>>
      /\ notBefore' = [notBefore EXCEPT ![p] = IF free THEN now ELSE QuietUntil(now)]
      /\ state' = [state EXCEPT ![p] = IF k = "notify" \/ ShouldSendNow(k)
                                       THEN "count" ELSE "quiet"]
      /\ state[p] = "new"
  BY DEF Request, Goto
<1>2. cfg \in Configs /\ now \in Nat /\ due \in [Pings -> Nat] /\ notBefore \in [Pings -> Nat]
  BY DEF QuietInv
<1>3. state \in [Pings -> States]
  BY DEF DoubtInv
<1>4. QuietUntil(now) \in Nat /\ (~Quiet(now) => QuietUntil(now) = now)
  BY <1>2, QuietEnds
<1>5. ShouldSendNow(k) => free \/ QuietUntil(now) = now
  BY <1>2, <1>4, OutOfWindow DEF ShouldSendNow
<1>6. (free => k = "notify" \/ ShouldSendNow(k)) /\ (k = "notify" => free)
  BY DEF ShouldSendNow
<1> HIDE DEF free
<1>7. notBefore' \in [Pings -> Nat]
  BY <1>1, <1>2, <1>4
<1>8. \/ state'[p] = "count" /\ notBefore'[p] = now
      \/ state'[p] = "quiet" /\ notBefore'[p] = QuietUntil(now)
  <2>1. /\ state'[p] = IF k = "notify" \/ ShouldSendNow(k) THEN "count" ELSE "quiet"
        /\ notBefore'[p] = IF free THEN now ELSE QuietUntil(now)
    BY <1>1, <1>2, <1>3
  <2> QED
    BY <1>5, <1>6, <2>1
<1>9. \A q \in Pings \ {p} : state'[q] = state[q] /\ notBefore'[q] = notBefore[q]
  BY <1>1, <1>2, <1>3
<1>10. \A t : QuietUntil(t)' = QuietUntil(t)
  BY <1>1 DEF QuietUntil, Quiet, Local
<1>11. p \notin batch
  BY <1>1 DEF DoubtInv
<1>12. ASSUME NEW q \in Pings
       PROVE  /\ state'[q] \in InHandler \ {"quiet"} => notBefore'[q] <= now'
              /\ state'[q] = "quiet" =>
                   \E t \in 0 .. now' : notBefore'[q] <= QuietUntil(t)'
              /\ state'[q] \in {"queued", "marking"} => notBefore'[q] <= due'[q]
              /\ q \in batch' => due'[q] <= now'
  <2>1. CASE q = p
    <3>1. now \in 0 .. now' /\ now' = now /\ QuietUntil(now) \in Nat
      BY <1>1, <1>2, <1>4
    <3>2. state'[p] = "quiet" => notBefore'[p] <= QuietUntil(now)
      BY <1>8, <3>1
    <3> QED
      BY <1>1, <1>2, <1>8, <1>10, <1>11, <2>1, <3>1, <3>2 DEF InHandler
  <2>2. CASE q # p
    BY <1>1, <1>9, <1>10, <2>2 DEF QuietInv
  <2> QED
    BY <2>1, <2>2
<1> QED
  BY <1>1, <1>2, <1>7, <1>12 DEF QuietInv

\* A step that asks for no ping: it goes on from where it may, waits in the
\* queue as it did or for as long as it must, or is given up.
LEMMA QuietMoves ==
  ASSUME QuietInv, cfg' = cfg, now' \in Nat, now' >= now,
         due' \in [Pings -> Nat], notBefore' \in [Pings -> Nat],
         \A p \in Pings :
           /\ notBefore'[p] <= notBefore[p]
           /\ state'[p] \in InHandler =>
                \/ state'[p] = state[p]
                \/ state[p] \in InHandler \ {"quiet"} /\ state'[p] # "quiet"
           /\ state'[p] \in {"queued", "marking"} =>
                \/ state[p] \in {"queued", "marking"} /\ due'[p] = due[p]
                \/ /\ state[p] = "quiet" /\ due'[p] \in NextWakeTimes(now)
                   /\ Misjudged(now) => notBefore'[p] = 0
                \/ state[p] \in InHandler \ {"quiet"} /\ due'[p] >= now
           /\ p \in batch' => \/ p \in batch /\ due'[p] = due[p]
                              \/ due'[p] <= now'
  PROVE  QuietInv'
<1>1. /\ cfg \in Configs /\ now \in Nat
      /\ due \in [Pings -> Nat] /\ notBefore \in [Pings -> Nat]
  BY DEF QuietInv
<1>2. \A t : QuietUntil(t)' = QuietUntil(t)
  BY DEF QuietUntil, Quiet, Local
<1>3. ASSUME NEW p \in Pings
      PROVE  /\ state'[p] \in InHandler \ {"quiet"} => notBefore'[p] <= now'
             /\ state'[p] = "quiet" =>
                  \E t \in 0 .. now' : notBefore'[p] <= QuietUntil(t)
             /\ state'[p] \in {"queued", "marking"} => notBefore'[p] <= due'[p]
             /\ p \in batch' => due'[p] <= now'
  <2>1. /\ notBefore[p] \in Nat /\ due[p] \in Nat /\ due'[p] \in Nat
        /\ notBefore'[p] \in Nat /\ notBefore'[p] <= notBefore[p]
        /\ state[p] \in InHandler \ {"quiet"} => notBefore[p] <= now
        /\ state[p] = "quiet" => \E t \in 0 .. now : notBefore[p] <= QuietUntil(t)
        /\ state[p] \in {"queued", "marking"} => notBefore[p] <= due[p]
        /\ p \in batch => due[p] <= now
    BY <1>1 DEF QuietInv
  <2>2. state'[p] \in InHandler \ {"quiet"} => notBefore'[p] <= now'
    BY <1>1, <2>1
  <2>3. ASSUME state'[p] = "quiet"
        PROVE  \E t \in 0 .. now' : notBefore'[p] <= QuietUntil(t)
    <3>1. state[p] = "quiet"
      BY <2>3 DEF InHandler
    <3>2. PICK t \in 0 .. now : notBefore[p] <= QuietUntil(t)
      BY <2>1, <3>1
    <3>3. t \in 0 .. now' /\ QuietUntil(t) \in Nat
      BY <1>1, <3>2, QuietEnds
    <3>4. notBefore'[p] <= QuietUntil(t)
      BY <2>1, <3>2, <3>3
    <3> QED
      BY <3>3, <3>4
  <2>4. ASSUME state'[p] \in {"queued", "marking"} PROVE notBefore'[p] <= due'[p]
    <3>1. CASE /\ state[p] = "quiet" /\ due'[p] \in NextWakeTimes(now)
               /\ Misjudged(now) => notBefore'[p] = 0
      <4>1. PICK t \in 0 .. now : notBefore[p] <= QuietUntil(t)
        BY <2>1, <3>1
      <4>2. t \in Nat /\ t <= now /\ QuietUntil(t) \in Nat
        BY <1>1, <4>1, QuietEnds
      <4>3. ~Misjudged(now) => QuietUntil(t) <= due'[p]
        BY <1>1, <3>1, <4>2, WakesLater
      <4> QED
        BY <2>1, <3>1, <4>1, <4>2, <4>3
    <3>2. CASE state[p] \in {"queued", "marking"} /\ due'[p] = due[p]
      BY <2>1, <3>2
    <3>3. CASE state[p] \in InHandler \ {"quiet"} /\ due'[p] >= now
      BY <1>1, <2>1, <3>3
    <3> QED
      BY <2>4, <3>1, <3>2, <3>3
  <2>5. ASSUME p \in batch' PROVE due'[p] <= now'
    BY <1>1, <2>1, <2>5
  <2> QED
    BY <2>2, <2>3, <2>4, <2>5
<1> QED
  BY <1>1, <1>2, <1>3 DEF QuietInv

LEMMA QuietStep == DoubtInv /\ QuietInv /\ [Next]_vars => QuietInv'
<1> SUFFICES ASSUME DoubtInv, QuietInv, [Next]_vars PROVE QuietInv'
  OBVIOUS
<1>1. /\ now \in Nat /\ cfg \in Configs /\ due \in [Pings -> Nat]
      /\ state \in [Pings -> States]
      /\ notBefore \in [Pings -> Nat]
      /\ \A p \in Pings : notBefore[p] <= notBefore[p]
      /\ \A p \in batch : p \in Pings => state[p] = "queued"
  BY DEF QuietInv, DoubtInv
<1>2. /\ \A w \in NextWakeTimes(now) : w \in Nat
      /\ NextFullHour(now) \in Nat /\ NextFullHour(now) >= now
  BY <1>1, WakeTyped, NextHourIsLater
<1> USE DEF Goto, States, InHandler, budget, observers
<1>3. ASSUME NEW p \in Pings, NEW k \in {"normal", "high", "notify"}, Request(p, k)
      PROVE  QuietInv'
  BY <1>3, QuietRequest
<1>4. ASSUME NEW p \in Pings, QueueQuiet(p) PROVE QuietInv'
  BY <1>1, <1>2, <1>4, QuietMoves DEF QueueQuiet
<1>5. ASSUME NEW p \in Pings, CountPings(p) PROVE QuietInv'
  BY <1>1, <1>5, QuietMoves DEF CountPings, Unbudgeted
<1>6. ASSUME NEW p \in Pings, RecordPing(p) PROVE QuietInv'
  BY <1>1, <1>6, QuietMoves DEF RecordPing, Recorded, Refused, Contended, Unbudgeted
<1>7. ASSUME NEW p \in Pings, QueueOverflow(p) PROVE QuietInv'
  BY <1>1, <1>2, <1>7, QuietMoves DEF QueueOverflow
<1>8. ASSUME NEW p \in Pings, SendNow(p) PROVE QuietInv'
  BY <1>1, <1>8, QuietMoves DEF SendNow
<1>9. ASSUME NEW p \in Pings, FlushDeliver(p) PROVE QuietInv'
  BY <1>1, <1>9, QuietMoves DEF FlushDeliver, DeliveryFailed
<1>10. ASSUME NEW p \in Pings, FlushMark(p) PROVE QuietInv'
  BY <1>1, <1>10, QuietMoves DEF FlushMark, Marked
<1>11. CASE FlushSelect
  BY <1>1, <1>11, QuietMoves DEF FlushSelect, IsDue
<1>12. CASE Crash
  BY <1>1, <1>12, QuietMoves DEF Crash
<1>13. CASE Start \/ Tick \/ UNCHANGED vars
  BY <1>1, <1>13, QuietMoves DEF Start, Tick, vars
<1> QED
  BY <1>3, <1>4, <1>5, <1>6, <1>7, <1>8, <1>9, <1>10, <1>11, <1>12, <1>13 DEF Next

\* A ping is received by a send that may be made now, or out of a batch whose
\* pings are due.
LEMMA ReceivedInTime ==
  ASSUME DoubtInv, QuietInv, [Next]_vars, NEW p \in Pings, sent'[p] > sent[p]
  PROVE  now >= notBefore[p]
<1>1. /\ sent \in [Pings -> Nat] /\ now \in Nat
      /\ due \in [Pings -> Nat] /\ notBefore \in [Pings -> Nat]
  BY DEF DoubtInv, QuietInv
<1>2. sent' # sent
  BY <1>1
<1>3. PICK q \in Pings : SendNow(q) \/ FlushDeliver(q)
  BY <1>2 DEF Next, vars, budget, observers, Request, QueueQuiet, CountPings, RecordPing,
     QueueOverflow, FlushMark, FlushSelect, Crash, Start, Tick
<1>4. Received(q)
  BY <1>2, <1>3 DEF SendNow, FlushDeliver
<1>5. p = q
  BY <1>1, <1>4 DEF Received
<1>6. CASE SendNow(q)
  BY <1>1, <1>5, <1>6 DEF SendNow, QuietInv, InHandler
<1>7. CASE FlushDeliver(q)
  <2>1. p \in batch /\ state[p] = "queued"
    BY <1>5, <1>7 DEF FlushDeliver, DoubtInv
  <2>2. notBefore[p] <= due[p] /\ due[p] <= now
    BY <2>1 DEF QuietInv
  <2> QED
    BY <1>1, <2>2
<1> QED
  BY <1>3, <1>6, <1>7

\* A relay asked for in a quiet window reaches the owner after the clocks showed
\* that window's end, for every window, length of a day and change of the clocks,
\* whatever passes between the check and the queueing, unless the clocks skip the
\* end or are set back between it and the wake time 24 h later (quiet_hours.go:37-83).
THEOREM QuietHoursAreKept == Spec => QuietIsKept
<1>1. DoubtInv /\ QuietInv /\ [Next]_vars
        => [\A p \in Pings : sent'[p] > sent[p] => now >= notBefore[p]]_vars
  BY ReceivedInTime
<1> QED
  BY <1>1, DoubtInitial, DoubtStep, QuietInitial, QuietStep, PTL DEF Spec, QuietIsKept

-----------------------------------------------------------------------------
(* Reading and writing a note.                                             *)

LEMMA ReadTyped == ASSUME NEW c \in Contents PROVE ReadCRMFile(c) \in Contents
BY DEF ReadCRMFile, Contents, Absent

LEMMA HeldTyped == ASSUME NEW c \in Contents PROVE Held(c) \subseteq Values
BY DEF Held, Contents, StringField, StringSliceField, Entries

\* A note that may be written is read with all it holds.
LEMMA ReadHolds ==
  ASSUME NEW c \in Contents, c.fm \in {"none", "ok"},
         c.fm = "none" => Held(c) = {}
  PROVE  Held(c) \subseteq Held(ReadCRMFile(c))
BY DEF ReadCRMFile

LEMMA QuotedTyped ==
  ASSUME NEW v \in Values
  PROVE  Quoted(v) \in Entries /\ Quoted(v).value = v /\ Quoted(v).quoted = TRUE
BY DEF Quoted, Entries

\* The contact field of a note is the value written into it.
LEMMA FieldWritten ==
  ASSUME NEW v \in Values
  PROVE  StringField(Quoted(v)) = v /\ v # NoValue
BY QuotedTyped, CrmAssumption DEF StringField

\* The history is written as it reads.
LEMMA HistoryWritten ==
  ASSUME NEW S \in SUBSET Values
  PROVE  StringSliceField({Quoted(m) : m \in S}) = S
BY QuotedTyped DEF StringSliceField

\* A rotation holds what the note held.
LEMMA RotationHolds ==
  ASSUME NEW c \in Contents, NEW v \in Values
  PROVE  /\ Rotated(c, v) \in Contents
         /\ Rotated(c, v).primary = Quoted(v)
         /\ Held(c) \subseteq {v} \cup StringSliceField(Rotated(c, v).history)
<1> DEFINE merged == Merged(c.history, StringField(c.primary), v)
<1>1. merged \subseteq Values
  BY DEF Merged, StringField, StringSliceField, Contents, Entries
<1>2. Held(c) \subseteq {v} \cup merged
  BY DEF Held, Merged
<1>3. Rotated(c, v) = [c EXCEPT !.primary = Quoted(v),
                                !.history = IF merged = {} THEN @ ELSE {Quoted(m) : m \in merged}]
  BY DEF Rotated
<1> HIDE DEF merged
<1>4. {Quoted(m) : m \in merged} \subseteq Entries /\ Quoted(v) \in Entries
  BY <1>1, QuotedTyped
<1>5. /\ Rotated(c, v) \in Contents /\ Rotated(c, v).primary = Quoted(v)
      /\ Rotated(c, v).history = IF merged = {} THEN c.history ELSE {Quoted(m) : m \in merged}
  BY <1>3, <1>4 DEF Contents
<1>6. Held(c) \subseteq {v} \cup StringSliceField(Rotated(c, v).history)
  BY <1>1, <1>2, <1>5, HistoryWritten
<1> QED
  BY <1>5, <1>6

Asked(ask) ==
  /\ ask.value \in Values \/ ask.mode = "other"
  /\ ask.mode \in {"additive", "replace_primary", "force", "other", "create"}

\* What is written is a note with frontmatter, and holds what was read.
LEMMA OutputHolds ==
  ASSUME NEW c \in Contents, NEW ask, Asked(ask)
  PROVE  /\ Output(c, ask) \in Contents /\ Output(c, ask).fm = "ok"
         /\ (ask.mode = "create" /\ Held(c) = {}) \/ (ask.mode \notin {"create", "force"} /\ Changes(c, ask))
              => Held(c) \subseteq Held(Output(c, ask))
<1> DEFINE v == ask.value
           out == Output(c, ask)
<1>1. ask.mode # "other" =>
        v \in Values /\ Quoted(v) \in Entries /\ StringField(Quoted(v)) = v /\ v # NoValue
  BY QuotedTyped, FieldWritten DEF Asked
<1>2. CASE ask.mode = "create"
  <2>1. out = [fm |-> "ok", primary |-> Quoted(v), history |-> {}, body |-> TRUE]
    BY <1>2 DEF Output
  <2> QED
    BY <1>1, <1>2, <2>1 DEF Contents
<1>3. CASE ask.mode = "replace_primary"
  <2>1. out = [Rotated(c, v) EXCEPT !.fm = "ok"]
    BY <1>3 DEF Output
  <2>2. /\ out \in Contents /\ out.fm = "ok" /\ out.primary = Quoted(v)
        /\ out.history = Rotated(c, v).history
    BY <1>1, <1>3, <2>1, RotationHolds DEF Contents
  <2>3. Held(c) \subseteq {v} \cup StringSliceField(out.history)
    BY <1>1, <1>3, <2>2, RotationHolds
  <2>4. NoValue \notin Held(c)
    BY DEF Held
  <2> HIDE DEF out, v
  <2>5. Held(c) \subseteq Held(out)
    BY <1>1, <1>3, <2>2, <2>3, <2>4 DEF Held
  <2> QED
    BY <1>3, <2>2, <2>5 DEF out
<1>4. CASE ask.mode \in {"additive", "force"}
  <2>1. out = [c EXCEPT !.fm = "ok", !.primary = Quoted(v)]
    BY <1>4 DEF Output
  <2>2. out \in Contents /\ out.fm = "ok" /\ out.primary = Quoted(v) /\ out.history = c.history
    BY <1>1, <1>4, <2>1 DEF Contents
  <2>3. CASE ask.mode = "additive" /\ Changes(c, ask)
    <3>1. StringField(c.primary) = NoValue
      BY <2>3 DEF Changes
    <3>2. Held(c) \subseteq Held(out)
      BY <2>2, <3>1 DEF Held
    <3> QED
      BY <1>4, <2>2, <3>2
  <2> QED
    BY <1>4, <2>2, <2>3
<1>5. CASE ask.mode = "other"
  <2>1. out = [c EXCEPT !.fm = "ok"]
    BY <1>5 DEF Output
  <2>2. out \in Contents /\ out.fm = "ok" /\ out.primary = c.primary /\ out.history = c.history
    BY <2>1 DEF Contents
  <2>3. Held(c) \subseteq Held(out)
    BY <2>2 DEF Held
  <2> QED
    BY <2>2, <2>3
<1> QED
  BY <1>2, <1>3, <1>4, <1>5 DEF Asked

-----------------------------------------------------------------------------
(* Type correctness.                                                       *)

Steps == {"idle", "read", "write", "finish", "finishOver"}
Asks == [value : Values \cup {NoValue}, mode : {"additive", "replace_primary", "force", "other", "create"}]

LEMMA SimpleTypes ==
  /\ Absent \in Contents /\ Torn \in Contents /\ NoCall \in Asks
  /\ Absent.fm = "absent" /\ Torn.fm = "none" /\ Held(Absent) = {} /\ Held(Torn) = {}
BY DEF Absent, Torn, NoCall, Contents, Asks, Held, StringField, StringSliceField

LEMMA KeptTyped ==
  ASSUME NEW c \in Contents, c.fm = "absent" => c = Absent
  PROVE  KeptIn(c) \in {"empty", "ok", "malformed", "none"}
<1> ~Absent.body
  BY DEF Absent
<1> QED
  BY DEF KeptIn, Contents

\* A file of the owner's.
LEMMA OwnerFile ==
  ASSUME NEW c \in OwnerContents
  PROVE  /\ c \in Contents /\ (c.fm = "absent" => c = Absent)
         /\ (c.fm = "none" => Held(c) = {})
BY CrmAssumption DEF Absent, Held, StringField, StringSliceField

LEMMA CrmInitial == CrmInit => TypeOK /\ CallInv /\ LastInv /\ NothingForgotten
<1> SUFFICES ASSUME CrmInit PROVE TypeOK /\ CallInv /\ LastInv /\ NothingForgotten
  OBVIOUS
<1>1. /\ file \in Contents /\ (file.fm = "absent" => file = Absent)
      /\ (file.fm = "none" => Held(file) = {})
  BY OwnerFile DEF CrmInit
<1>2. /\ kept \in {"empty", "ok", "malformed", "none"} /\ ever \subseteq Values
      /\ ever = Held(file) /\ events \in 0 .. MaxEvents
  BY <1>1, KeptTyped, HeldTyped, CrmAssumption DEF CrmInit
<1>3. /\ pc = [r \in Requests |-> "idle"] /\ call = [r \in Requests |-> NoCall]
      /\ seen = [r \in Requests |-> Absent]
  BY DEF CrmInit
<1>4. TypeOK
  BY <1>1, <1>2, <1>3, SimpleTypes DEF TypeOK, Asks
<1>5. CallInv
  BY <1>1, <1>3 DEF CallInv, Pending
<1>6. LastInv
  BY <1>3 DEF LastInv
<1>7. NothingForgotten
  BY <1>2 DEF NothingForgotten
<1> QED
  BY <1>4, <1>5, <1>6, <1>7

\* The facts about the tables of the requests that a step of r keeps.
Tables(p, a, n) ==
  p \in [Requests -> Steps] /\ a \in [Requests -> Asks] /\ n \in [Requests -> Contents]

\* What CallInv says of one request.
Ready(p, a, c) ==
  /\ p # "idle" => a.value \in Values \/ a.mode = "other"
  /\ p = "read" => a.mode # "create"
  /\ p \in {"write", "finish", "finishOver"} =>
       IF a.mode = "create" THEN c = Absent
       ELSE MayWrite(c) /\ Changes(ReadCRMFile(c), a)

LEMMA CallMeans ==
  CallInv <=> /\ file.fm = "absent" => file = Absent
              /\ file.fm = "none" => Held(file) = {}
              /\ \A r \in Requests : Ready(pc[r], call[r], seen[r])
BY DEF CallInv, Ready, Pending

LEMMA CallMeansThen ==
  CallInv' <=> /\ file'.fm = "absent" => file' = Absent
               /\ file'.fm = "none" => Held(file)' = {}
               /\ \A r \in Requests : Ready(pc'[r], call'[r], seen'[r])
BY DEF CallInv, Ready, Pending

\* One request moves.
LEMMA RequestMoves ==
  ASSUME TypeOK, CallInv, NEW r \in Requests, NEW p \in Steps, NEW a \in Asks, NEW c \in Contents,
         Ready(p, a, c), pc' = [pc EXCEPT ![r] = p],
         call' = [call EXCEPT ![r] = a], seen' = [seen EXCEPT ![r] = c]
  PROVE  /\ Tables(pc', call', seen')
         /\ \A q \in Requests : Ready(pc'[q], call'[q], seen'[q])
         /\ pc'[r] = p /\ \A q \in Requests \ {r} : pc'[q] = pc[q] /\ seen'[q] = seen[q]
<1>1. Tables(pc, call, seen)
  BY DEF TypeOK, Tables, Steps, Asks
<1>2. \A q \in Requests : Ready(pc[q], call[q], seen[q])
  BY CallMeans
<1>3. Tables(pc', call', seen')
  BY <1>1 DEF Tables
<1>4. \A q \in Requests : IF q = r THEN pc'[q] = p /\ call'[q] = a /\ seen'[q] = c
                          ELSE pc'[q] = pc[q] /\ call'[q] = call[q] /\ seen'[q] = seen[q]
  BY <1>1 DEF Tables
<1> QED
  BY <1>2, <1>3, <1>4

-----------------------------------------------------------------------------
(* The steps.                                                              *)

CrmInv == TypeOK /\ CallInv /\ LastInv /\ NothingForgotten

\* A step that does not touch the file.
LEMMA QuietMove ==
  ASSUME CrmInv, NEW r \in Requests, NEW p \in {"idle", "read", "write"},
         NEW a \in Asks, NEW c \in Contents, Ready(p, a, c), pc[r] \in {"idle", "read"},
         pc' = [pc EXCEPT ![r] = p],
         call' = [call EXCEPT ![r] = a], seen' = [seen EXCEPT ![r] = c],
         UNCHANGED <<file, events, ever, kept>>
  PROVE  CrmInv'
<1>1. /\ Tables(pc', call', seen')
      /\ \A q \in Requests : Ready(pc'[q], call'[q], seen'[q])
      /\ pc'[r] = p /\ \A q \in Requests \ {r} : pc'[q] = pc[q] /\ seen'[q] = seen[q]
  <2> p \in Steps /\ TypeOK /\ CallInv
    BY DEF CrmInv, Steps
  <2> QED
    BY RequestMoves
<1>2. TypeOK'
  BY <1>1 DEF CrmInv, TypeOK, Tables, Steps, Asks
<1>3. Held(file)' = Held(file)
  OBVIOUS
<1>4. CallInv'
  BY <1>1, <1>3, CallMeans, CallMeansThen DEF CrmInv
<1>5. \A q \in Requests : Writing(q)' <=> Writing(q)
  BY <1>1 DEF Writing
<1>6. LastInv'
  <2> SUFFICES ASSUME NEW q \in Requests, file' = Torn, pc'[q] = "finish",
                      \A o \in Requests \ {q} : ~Writing(o)'
               PROVE  ever' \subseteq Held(ReadCRMFile(seen'[q]))
    BY DEF LastInv
  <2>1. q # r /\ pc[q] = "finish" /\ seen'[q] = seen[q]
    BY <1>1
  <2> QED
    BY <1>5, <2>1 DEF CrmInv, LastInv
<1>7. NothingForgotten'
  BY <1>3, <1>5 DEF CrmInv, NothingForgotten, Settled, Writing
<1> QED
  BY <1>2, <1>4, <1>6, <1>7 DEF CrmInv

\* What a request holds.
LEMMA RequestHolds ==
  ASSUME CrmInv, NEW r \in Requests
  PROVE  /\ pc[r] \in Steps /\ call[r] \in Asks /\ seen[r] \in Contents
         /\ Ready(pc[r], call[r], seen[r])
         /\ call = [call EXCEPT ![r] = call[r]] /\ seen = [seen EXCEPT ![r] = seen[r]]
BY CallMeans DEF CrmInv, TypeOK, Steps, Asks

LEMMA AskStep ==
  ASSUME CrmInv, NEW r \in Requests, NEW v \in Values \cup {NoValue},
         NEW mode \in {"additive", "replace_primary", "force", "other"},
         v \in Values \/ mode = "other", Ask(r, v, mode)
  PROVE  CrmInv'
<1> DEFINE a == [value |-> v, mode |-> mode]
<1>1. a \in Asks /\ Ready("read", a, seen[r])
  BY DEF Asks, Ready
<1>2. /\ pc[r] = "idle" /\ pc' = [pc EXCEPT ![r] = "read"] /\ call' = [call EXCEPT ![r] = a]
      /\ UNCHANGED <<file, events, ever, kept, seen>>
  BY DEF Ask, Advance, crmObservers
<1> HIDE DEF a
<1> QED
  BY <1>1, <1>2, RequestHolds, QuietMove

LEMMA PlanBackfillStep ==
  ASSUME CrmInv, NEW r \in Requests, NEW phones \in SUBSET Values, PlanBackfill(r, phones)
  PROVE  CrmInv'
<1>1. PICK v \in phones : call' = [call EXCEPT ![r] = [value |-> v, mode |-> "additive"]]
  BY DEF PlanBackfill
<1> DEFINE a == [value |-> v, mode |-> "additive"]
<1>2. a \in Asks /\ Ready("read", a, seen[r])
  BY DEF Asks, Ready
<1>3. /\ pc[r] = "idle" /\ pc' = [pc EXCEPT ![r] = "read"] /\ call' = [call EXCEPT ![r] = a]
      /\ UNCHANGED <<file, events, ever, kept, seen>>
  BY <1>1 DEF PlanBackfill, Advance, crmObservers
<1> HIDE DEF a
<1> QED
  BY <1>2, <1>3, RequestHolds, QuietMove

LEMMA PlanCreateStep ==
  ASSUME CrmInv, NEW r \in Requests, NEW v \in Values, PlanCreate(r, v)
  PROVE  CrmInv'
<1> DEFINE a == [value |-> v, mode |-> "create"]
<1>1. a \in Asks /\ Ready("write", a, Absent)
  BY DEF Asks, Ready
<1>2. /\ pc[r] = "idle" /\ pc' = [pc EXCEPT ![r] = "write"] /\ call' = [call EXCEPT ![r] = a]
      /\ seen' = [seen EXCEPT ![r] = Absent] /\ UNCHANGED <<file, events, ever, kept>>
  BY DEF PlanCreate, Advance, crmObservers
<1> HIDE DEF a
<1> QED
  BY <1>1, <1>2, SimpleTypes, QuietMove

LEMMA ReadStep ==
  ASSUME CrmInv, NEW r \in Requests, Read(r)
  PROVE  CrmInv'
<1>1. pc[r] = "read" /\ UNCHANGED <<file, events, ever, kept>>
  BY DEF Read, crmObservers
<1>2. Ready("idle", NoCall, Absent)
  BY DEF Ready
<1>3. CASE Return(r)
  BY <1>1, <1>2, <1>3, SimpleTypes, QuietMove DEF Return, Advance
<1>4. CASE /\ MayWrite(file) /\ Changes(ReadCRMFile(file), call[r])
           /\ seen' = [seen EXCEPT ![r] = file] /\ Advance(r, "write") /\ UNCHANGED call
  <2>1. call[r] \in Asks /\ Ready("read", call[r], seen[r]) /\ call = [call EXCEPT ![r] = call[r]]
    BY <1>1, RequestHolds
  <2>2. Ready("write", call[r], file)
    BY <1>4, <2>1 DEF Ready
  <2>3. file \in Contents
    BY DEF CrmInv, TypeOK
  <2>4. PICK a \in Asks, c \in Contents : a = call[r] /\ c = file
    BY <2>1, <2>3
  <2> QED
    BY <1>1, <1>4, <2>1, <2>2, <2>4, QuietMove DEF Advance
<1> QED
  BY <1>3, <1>4 DEF Read

LEMMA TruncateStep ==
  ASSUME CrmInv, NEW r \in Requests, Truncate(r)
  PROVE  CrmInv'
<1> DEFINE p == IF file = seen[r] THEN "finish" ELSE "finishOver"
<1>1. /\ pc[r] = "write" /\ file' = Torn /\ pc' = [pc EXCEPT ![r] = p]
      /\ UNCHANGED <<call, seen, events, ever, kept>>
  BY DEF Truncate, Advance, crmObservers
<1>2. /\ call[r] \in Asks /\ seen[r] \in Contents /\ Ready("write", call[r], seen[r])
      /\ call = [call EXCEPT ![r] = call[r]] /\ seen = [seen EXCEPT ![r] = seen[r]]
  BY <1>1, RequestHolds
<1>3. p \in {"finish", "finishOver"} /\ Ready(p, call[r], seen[r])
  BY <1>2 DEF Ready
<1>4. PICK a \in Asks, c \in Contents, n \in Steps : a = call[r] /\ c = seen[r] /\ n = p
  BY <1>2, <1>3 DEF Steps
<1>5. (p = "finish") <=> (file = seen[r])
  OBVIOUS
<1> HIDE DEF p
<1>6. /\ Tables(pc', call', seen')
      /\ \A q \in Requests : Ready(pc'[q], call'[q], seen'[q])
      /\ pc'[r] = n /\ \A q \in Requests \ {r} : pc'[q] = pc[q] /\ seen'[q] = seen[q]
  BY <1>1, <1>2, <1>3, <1>4, RequestMoves DEF CrmInv
<1>7. TypeOK'
  BY <1>1, <1>6, SimpleTypes DEF CrmInv, TypeOK, Tables, Steps, Asks
<1>8. CallInv'
  <2> Torn.fm = "none" /\ Held(file)' = {}
    BY <1>1, SimpleTypes
  <2> QED
    BY <1>1, <1>6, CallMeansThen
<1>9. LastInv'
  <2> SUFFICES ASSUME NEW q \in Requests, file' = Torn, pc'[q] = "finish",
                      \A o \in Requests \ {q} : ~Writing(o)'
               PROVE  ever' \subseteq Held(ReadCRMFile(seen'[q]))
    BY DEF LastInv
  <2>1. q = r
    BY <1>3, <1>4, <1>6 DEF Writing
  <2>2. Settled
    BY <1>1, <1>6, <2>1 DEF Writing, Settled
  <2>3. ever \subseteq Held(file) /\ file = seen[r]
    BY <1>4, <1>5, <1>6, <2>1, <2>2 DEF CrmInv, NothingForgotten
  <2>4. Held(file) \subseteq Held(ReadCRMFile(file))
    <3>1. CASE call[r].mode = "create"
      <4> file = Absent
        BY <1>2, <2>3, <3>1 DEF Ready
      <4> QED
        BY SimpleTypes
    <3>2. CASE call[r].mode # "create"
      <4> file.fm \in {"none", "ok"} /\ file \in Contents
        BY <1>2, <2>3, <3>2 DEF Ready, MayWrite
      <4> file.fm = "none" => Held(file) = {}
        BY DEF CrmInv, CallInv
      <4> QED
        BY ReadHolds
    <3> QED
      BY <3>1, <3>2
  <2> QED
    BY <1>1, <2>1, <2>3, <2>4
<1>10. NothingForgotten'
  <2> ~Settled'
    BY <1>3, <1>4, <1>6 DEF Settled
  <2> QED
    BY DEF NothingForgotten
<1> QED
  BY <1>7, <1>8, <1>9, <1>10 DEF CrmInv

LEMMA FinishStep ==
  ASSUME CrmInv, NEW r \in Requests, Finish(r)
  PROVE  CrmInv'
<1>1. PICK a \in Asks, c \in Contents : a = call[r] /\ c = seen[r]
  BY RequestHolds
<1>2. PICK out \in Contents : out = Output(ReadCRMFile(c), a) /\ out.fm = "ok"
  <2> Asked(a)
    BY <1>1, RequestHolds DEF Finish, Ready, Asks, Asked
  <2> QED
    BY ReadTyped, OutputHolds
<1>3. /\ pc[r] \in {"finish", "finishOver"} /\ file' = out /\ UNCHANGED events
      /\ pc' = [pc EXCEPT ![r] = "idle"] /\ call' = [call EXCEPT ![r] = NoCall]
      /\ seen' = [seen EXCEPT ![r] = Absent]
  BY <1>1, <1>2 DEF Finish, Return, Advance
<1>4. /\ Tables(pc', call', seen')
      /\ \A q \in Requests : Ready(pc'[q], call'[q], seen'[q])
      /\ pc'[r] = "idle" /\ \A q \in Requests \ {r} : pc'[q] = pc[q] /\ seen'[q] = seen[q]
  <2> "idle" \in Steps /\ Ready("idle", NoCall, Absent) /\ TypeOK /\ CallInv
    BY DEF CrmInv, Steps, Ready
  <2> QED
    BY <1>3, SimpleTypes, RequestMoves
<1>5. Held(file)' = Held(out) /\ KeptIn(file)' = KeptIn(out)
  BY <1>3
<1>6. /\ ever' = Held(out) \/ ever' = ever \cup Held(out)
      /\ kept' = KeptIn(out) \/ kept' = kept
  BY <1>3 DEF Finish
<1>7. TypeOK'
  <2> ever' \subseteq Values /\ kept' \in {"empty", "ok", "malformed", "none"}
    BY <1>2, <1>6, HeldTyped, KeptTyped DEF CrmInv, TypeOK
  <2> events' \in 0 .. MaxEvents
    BY <1>3 DEF CrmInv, TypeOK
  <2> QED
    BY <1>3, <1>4 DEF TypeOK, Tables, Steps, Asks
<1>8. CallInv'
  BY <1>2, <1>3, <1>4, CallMeansThen
<1>9. LastInv'
  <2> file' # Torn
    BY <1>2, <1>3, SimpleTypes
  <2> QED
    BY DEF LastInv
<1>10. NothingForgotten'
  <2> SUFFICES ASSUME Settled' PROVE ever' \subseteq Held(out)
    BY <1>5 DEF NothingForgotten
  <2>1. CASE pc[r] = "finishOver" \/ file # Torn \/ a.mode = "force"
    BY <1>1, <1>3, <1>5, <2>1 DEF Finish
  <2>2. CASE pc[r] = "finish" /\ file = Torn /\ a.mode # "force"
    <3>1. \A q \in Requests \ {r} : ~Writing(q)
      BY <1>4 DEF Settled, Writing
    <3>2. ever \subseteq Held(ReadCRMFile(c))
      BY <1>1, <2>2, <3>1 DEF CrmInv, LastInv
    <3>3. Ready("finish", a, c) /\ Asked(a)
      BY <1>1, <2>2, RequestHolds DEF Ready, Asks, Asked
    <3>4. \/ a.mode = "create" /\ Held(ReadCRMFile(c)) = {}
          \/ a.mode \notin {"create", "force"} /\ Changes(ReadCRMFile(c), a)
      <4>1. CASE a.mode = "create"
        <5> c = Absent
          BY <3>3, <4>1 DEF Ready
        <5> ReadCRMFile(Absent) = Absent
          BY DEF ReadCRMFile, Absent
        <5> QED
          BY <4>1, SimpleTypes
      <4>2. CASE a.mode # "create"
        BY <2>2, <3>3, <4>2 DEF Ready
      <4> QED
        BY <4>1, <4>2
    <3>5. Held(ReadCRMFile(c)) \subseteq Held(out)
      BY <1>2, <3>3, <3>4, ReadTyped, OutputHolds
    <3> QED
      BY <1>6, <3>2, <3>5
  <2> QED
    BY <1>3, <2>1, <2>2
<1> QED
  BY <1>7, <1>8, <1>9, <1>10 DEF CrmInv

LEMMA OwnerStep ==
  ASSUME CrmInv, NEW c \in OwnerContents, OwnerEdits(c)
  PROVE  CrmInv'
<1>1. /\ file' = c /\ ever' = Held(c) /\ kept' = KeptIn(c) /\ UNCHANGED <<pc, call, seen>>
      /\ events < MaxEvents /\ events' = events + 1
  BY DEF OwnerEdits, requests
<1>2. /\ c \in Contents /\ (c.fm = "absent" => c = Absent)
      /\ (c.fm = "none" => Held(c) = {})
  BY OwnerFile
<1>3. Held(file)' = Held(c)
  BY <1>1
<1>4. TypeOK'
  <2>1. events' \in 0 .. MaxEvents
    BY <1>1, CrmAssumption DEF CrmInv, TypeOK
  <2>2. ever' \subseteq Values /\ kept' \in {"empty", "ok", "malformed", "none"}
    BY <1>1, <1>2, HeldTyped, KeptTyped
  <2> QED
    BY <1>1, <1>2, <2>1, <2>2 DEF CrmInv, TypeOK
<1>5. CallInv'
  <2> \A r \in Requests : Ready(pc'[r], call'[r], seen'[r])
    BY <1>1, CallMeans DEF CrmInv
  <2> QED
    BY <1>1, <1>2, <1>3, CallMeansThen
<1>6. LastInv'
  <2> file' = Torn => ever' = {}
    BY <1>1, SimpleTypes
  <2> QED
    BY DEF LastInv
<1>7. NothingForgotten'
  BY <1>1, <1>3 DEF NothingForgotten
<1> QED
  BY <1>4, <1>5, <1>6, <1>7 DEF CrmInv

LEMMA CrashStep ==
  ASSUME CrmInv, ProcessStops
  PROVE  CrmInv'
<1>1. /\ pc' = [r \in Requests |-> "idle"] /\ call' = [r \in Requests |-> NoCall]
      /\ seen' = [r \in Requests |-> Absent] /\ file' = file
      /\ events < MaxEvents /\ events' = events + 1
  BY DEF ProcessStops
<1>2. /\ ever' = Held(file) \/ (Settled /\ ever' = ever)
      /\ kept' = KeptIn(file) \/ kept' = kept
  BY DEF ProcessStops, crmObservers
<1>3. Held(file)' = Held(file) /\ file \in Contents /\ (file.fm = "absent" => file = Absent)
      /\ (file.fm = "none" => Held(file) = {})
  BY <1>1 DEF CrmInv, TypeOK, CallInv
<1>4. TypeOK'
  <2>1. events' \in 0 .. MaxEvents
    BY <1>1, CrmAssumption DEF CrmInv, TypeOK
  <2>2. ever' \subseteq Values /\ kept' \in {"empty", "ok", "malformed", "none"}
    BY <1>2, <1>3, HeldTyped, KeptTyped DEF CrmInv, TypeOK
  <2>3. Tables(pc', call', seen')
    BY <1>1, SimpleTypes DEF Tables, Steps
  <2> QED
    BY <1>1, <1>3, <2>1, <2>2, <2>3 DEF TypeOK, Tables, Steps, Asks
<1>5. CallInv'
  <2> \A r \in Requests : Ready(pc'[r], call'[r], seen'[r])
    BY <1>1 DEF Ready
  <2> QED
    BY <1>1, <1>3, CallMeansThen
<1>6. LastInv'
  BY <1>1 DEF LastInv
<1>7. NothingForgotten'
  BY <1>2, <1>3 DEF CrmInv, NothingForgotten
<1> QED
  BY <1>4, <1>5, <1>6, <1>7 DEF CrmInv

LEMMA CrmStep == CrmInv /\ [CrmNext]_crmVars => CrmInv'
<1> SUFFICES ASSUME CrmInv, [CrmNext]_crmVars PROVE CrmInv'
  OBVIOUS
<1>1. CASE UNCHANGED crmVars
  BY <1>1 DEF crmVars, CrmInv, TypeOK, CallInv, LastInv, NothingForgotten, Settled, Pending,
              Writing, Held
<1>2. CASE CrmNext
  BY <1>2, AskStep, PlanBackfillStep, PlanCreateStep, ReadStep, TruncateStep, FinishStep,
     OwnerStep, CrashStep DEF CrmNext
<1> QED
  BY <1>1, <1>2

LEMMA AlwaysCrmInv == CrmSpec => []CrmInv
<1>1. CrmInit => CrmInv
  BY CrmInitial DEF CrmInv
<1> QED
  BY <1>1, CrmStep, PTL DEF CrmSpec

-----------------------------------------------------------------------------
(* The theorems.                                                           *)

\* The state keeps its type through every edit, update and stop.
THEOREM CrmTypeCorrect == CrmSpec => []TypeOK
<1>1. CrmInv => TypeOK
  BY DEF CrmInv
<1> QED
  BY <1>1, AlwaysCrmInv, PTL

\* Whatever calls run at once, a value that the note held is held still once
\* nobody is half way through a write, except where a forced, an overtaken or an
\* interrupted write let go of it.
THEOREM ValuesAreNotForgotten == CrmSpec => []NothingForgotten
<1>1. CrmInv => NothingForgotten
  BY DEF CrmInv
<1> QED
  BY <1>1, AlwaysCrmInv, PTL
=============================================================================
