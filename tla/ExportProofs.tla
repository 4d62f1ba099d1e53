----------------------------- MODULE ExportProofs -----------------------------
(***************************************************************************)
(* Proofs about Export, for any chats, names, directories, file systems    *)
(* and flags, any number of exports, changes, failures and kills: an       *)
(* export that reports no error is complete, it harms no foreign file, and *)
(* it refuses a plan only when nothing could separate its names.           *)
(***************************************************************************)
EXTENDS Export, FiniteSetTheorems, WellFoundedInduction, TLAPS

-----------------------------------------------------------------------------
(* Helpers.                                                                *)

\* Induction over the natural numbers, for a set.
LEMMA NatSet ==
  ASSUME NEW S, 0 \in S, \A n \in Nat : n \in S => n + 1 \in S
  PROVE  Nat \subseteq S
<1> SUFFICES ASSUME Nat \ S # {} PROVE FALSE
  OBVIOUS
<1>1. PICK x \in Nat \ S : \A y \in Nat \ S : ~(<<y, x>> \in OpToRel(<, Nat))
  BY NatLessThanWellFounded, WFMin
<1>2. \A y \in Nat \ S : ~(y < x)
  BY <1>1 DEF OpToRel
<1>3. x \in Nat /\ x \notin S /\ x # 0
  BY <1>1
<1>4. PICK n \in Nat : x = n + 1
  <2>1. x - 1 \in Nat /\ x = (x - 1) + 1
    BY <1>3
  <2> QED
    BY <2>1
<1>5. n < x
  BY <1>4
<1>6. n \in S
  BY <1>2, <1>4, <1>5
<1> QED
  BY <1>3, <1>4, <1>6

\* Some element of a set has the least rank.
LEMMA LeastRank ==
  ASSUME NEW S, S # {}, NEW rank, \A x \in S : rank[x] \in Nat
  PROVE  \E x \in S : \A y \in S : rank[x] <= rank[y]
<1> DEFINE ranks == {rank[x] : x \in S}
<1>1. ranks \subseteq Nat /\ ranks # {}
  OBVIOUS
<1>2. PICK n \in ranks : \A m \in ranks : ~(<<m, n>> \in OpToRel(<, Nat))
  <2> HIDE DEF ranks
  <2> QED
    BY <1>1, NatLessThanWellFounded, WFMin
<1>3. \A m \in ranks : ~(m < n)
  BY <1>1, <1>2 DEF OpToRel
<1>4. PICK x \in S : n = rank[x]
  BY <1>2
<1>5. ASSUME NEW y \in S PROVE rank[x] <= rank[y]
  <2>1. rank[y] \in ranks /\ rank[y] \in Nat /\ rank[x] \in Nat
    OBVIOUS
  <2> HIDE DEF ranks
  <2> QED
    BY <1>3, <1>4, <2>1
<1> QED
  BY <1>4, <1>5

\* A set of JIDs has a first one.
LEMMA FirstIsThere ==
  ASSUME NEW S, S \subseteq Jids, S # {}
  PROVE  First(S) \in S
<1>1. \A j \in S : Order[j] \in Nat
  BY ExportAssumption
<1>2. \E j \in S : \A k \in S : Order[j] <= Order[k]
  BY <1>1, LeastRank, Zenon
<1> QED
  BY <1>2 DEF First

\* The primary of a unit is one of its rows, and none is fresher.
LEMMA FreshestIsFreshest ==
  ASSUME TypeOK, ChatsInv, NEW members, members \subseteq Jids, members # {}
  PROVE  /\ Freshest(members) \in members
         /\ \A k \in members : last[k] <= last[Freshest(members)]
<1> DEFINE age == [j \in members |-> clock - last[j]]
<1>1. \A j \in members : last[j] \in Nat /\ clock \in Nat /\ last[j] <= clock
  BY DEF TypeOK, ChatsInv
<1>2. \A j \in members : age[j] \in Nat
  BY <1>1
<1>3. PICK j \in members : \A k \in members : age[j] <= age[k]
  <2> HIDE DEF age
  <2> QED
    BY <1>2, LeastRank, Zenon
<1>4. \A k \in members : last[k] <= last[j]
  BY <1>1, <1>3
<1> DEFINE newest == {i \in members : \A k \in members : last[k] <= last[i]}
<1>5. newest # {} /\ newest \subseteq Jids
  BY <1>4
<1>6. First(newest) \in newest
  <2> HIDE DEF newest
  <2> QED
    BY <1>5, FirstIsThere
<1> QED
  BY <1>6 DEF Freshest

\* Closures are classes: each JID is in its own, and two that meet are one.
LEMMA ClosuresAreClasses ==
  ASSUME NEW j \in Jids
  PROVE  /\ j \in Closure(j) /\ Closure(j) \subseteq Jids
         /\ \A k \in Jids : Closure(j) \cap Closure(k) # {} => Closure(j) = Closure(k)
<1> DEFINE Closed(S) == \A e \in edges : e \subseteq Direct /\ e \cap S # {} => e \subseteq S
           Within(a, b) == \A S \in SUBSET Direct : a \in S /\ Closed(S) => b \in S
<1>1. \A a \in Jids : Component(a) = {b \in Direct : Within(a, b)}
  BY DEF Component
<1>2. ASSUME NEW a \in Direct, NEW b \in Direct, Within(a, b) PROVE Within(b, a)
  <2> SUFFICES ASSUME NEW S \in SUBSET Direct, b \in S, Closed(S), a \notin S
               PROVE  FALSE
    OBVIOUS
  <2> DEFINE R == Direct \ S
  <2>1. Closed(R)
    OBVIOUS
  <2>2. R \in SUBSET Direct /\ a \in R /\ b \notin R
    OBVIOUS
  <2> QED
    BY <1>2, <2>1, <2>2
<1>3. \A a, b, c \in Direct : Within(a, b) /\ Within(b, c) => Within(a, c)
  OBVIOUS
<1>4. \A a \in Direct : Within(a, a)
  OBVIOUS
<1> HIDE DEF Within
<1>5. \A a \in Direct : /\ a \in Component(a)
                        /\ Component(a) \subseteq Direct
                        /\ \A b \in Component(a) : Component(b) = Component(a)
  BY <1>1, <1>2, <1>3, <1>4 DEF Jids
<1>6. Direct \cap Groups = {} /\ Jids = Direct \cup Groups
  BY ExportAssumption DEF Jids
<1>7. \A a \in Jids : Closure(a) = IF a \in Groups THEN {a} ELSE Component(a)
  BY DEF Closure
<1>8. \A a \in Jids : a \in Closure(a) /\ Closure(a) \subseteq Jids
  BY <1>5, <1>6, <1>7
<1>9. ASSUME NEW k \in Jids, NEW i, i \in Closure(j), i \in Closure(k)
      PROVE  Closure(j) = Closure(k)
  <2>1. CASE j \in Groups \/ k \in Groups
    BY <1>5, <1>6, <1>7, <1>9, <2>1
  <2>2. CASE j \in Direct /\ k \in Direct
    <3>1. i \in Component(j) /\ i \in Component(k)
      BY <1>6, <1>7, <1>9, <2>2
    <3>2. Component(i) = Component(j) /\ Component(i) = Component(k)
      BY <1>5, <2>2, <3>1
    <3> QED
      BY <1>6, <1>7, <2>2, <3>2
  <2> QED
    BY <1>6, <2>1, <2>2
<1> QED
  BY <1>8, <1>9

-----------------------------------------------------------------------------
(* The units of a plan.                                                    *)

\* What buildExportUnits makes of one chat.
LEMMA UnitShape ==
  ASSUME TypeOK, ChatsInv, NEW j \in chats
  PROVE  LET u == Unit(Closure(j)) IN
         /\ u.closure = Closure(j) /\ u.members = u.closure \cap chats
         /\ u.primary \in u.members
         /\ u.last \in Nat /\ u.last <= clock
         /\ u.late = [k \in u.closure |-> late[k]]
         /\ \A k \in u.members : u.counts[k] = count[k] /\ last[k] <= u.last
<1> DEFINE u == Unit(Closure(j))
           members == Closure(j) \cap chats
           primary == Freshest(members)
<1>1. j \in Jids /\ chats \subseteq Jids
  BY DEF TypeOK
<1>2. members \subseteq Jids /\ members # {}
  BY <1>1, ClosuresAreClasses
<1>3. primary \in members /\ \A k \in members : last[k] <= last[primary]
  BY <1>2, FreshestIsFreshest
<1>4. /\ u.closure = Closure(j) /\ u.members = members /\ u.primary = primary
      /\ u.last = last[primary] /\ u.counts = [k \in members |-> count[k]]
      /\ u.late = [k \in Closure(j) |-> late[k]]
  BY DEF Unit
<1>5. last[primary] \in Nat /\ last[primary] <= clock
  BY <1>2, <1>3 DEF TypeOK, ChatsInv
<1> HIDE DEF u, members, primary
<1>6. /\ u.closure = Closure(j) /\ u.members = u.closure \cap chats
      /\ u.primary \in u.members
      /\ u.last \in Nat /\ u.last <= clock
      /\ u.late = [k \in u.closure |-> late[k]]
      /\ \A k \in u.members : u.counts[k] = count[k] /\ last[k] <= u.last
  BY <1>3, <1>4, <1>5 DEF members
<1> QED
  BY <1>6 DEF u

\* What a plan is made of: units as UnitsInv wants them, whose rows are those the
\* chats have and no newer than the unit.
LEMMA PlannedUnits ==
  ASSUME TypeOK, ChatsInv, NEW flags
  PROVE  LET us == Eligible(flags) IN
         /\ IsFiniteSet(us)
         /\ \A u \in us :
              /\ u.primary \in u.members /\ u.members = u.closure \cap chats
              /\ u.closure \subseteq Jids
              /\ u.last \in Nat /\ u.last <= clock
              /\ u.late = [k \in u.closure |-> late[k]]
              /\ \A k \in u.members : u.counts[k] = count[k] /\ last[k] <= u.last
         /\ \A u, v \in us : u # v => u.closure \cap v.closure = {}
<1> DEFINE us == Eligible(flags)
           All == {Unit(Closure(j)) : j \in chats}
           unit == [j \in chats |-> Unit(Closure(j))]
<1>1. us \subseteq All
  BY DEF Eligible
<1>2. chats \subseteq Jids /\ IsFiniteSet(chats)
  BY ExportAssumption, FS_Subset DEF TypeOK
<1>3. unit \in Surjection(chats, All)
  BY DEF Surjection
<1>4. IsFiniteSet(us)
  <2> HIDE DEF us, All, unit
  <2>1. IsFiniteSet(All)
    BY <1>2, <1>3, FS_Surjection
  <2> QED
    BY <1>1, <2>1, FS_Subset
<1>5. ASSUME NEW u \in us
      PROVE  \E j \in chats : u = Unit(Closure(j))
  BY <1>1
<1>6. ASSUME NEW u \in us
      PROVE  /\ u.primary \in u.members /\ u.members = u.closure \cap chats
             /\ u.closure \subseteq Jids
             /\ u.last \in Nat /\ u.last <= clock
             /\ u.late = [k \in u.closure |-> late[k]]
             /\ \A k \in u.members : u.counts[k] = count[k] /\ last[k] <= u.last
  <2>1. PICK j \in chats : u = Unit(Closure(j))
    BY <1>5
  <2>2. Closure(j) \subseteq Jids
    BY <1>2, ClosuresAreClasses
  <2> HIDE DEF us, All, unit
  <2> QED
    BY <2>1, <2>2, UnitShape
<1>7. ASSUME NEW u \in us, NEW v \in us, u.closure \cap v.closure # {}
      PROVE  u = v
  <2>1. PICK j \in chats : u = Unit(Closure(j))
    BY <1>5
  <2>2. PICK k \in chats : v = Unit(Closure(k))
    BY <1>5
  <2>3. u.closure = Closure(j) /\ v.closure = Closure(k)
    BY <2>1, <2>2, UnitShape
  <2>4. Closure(j) = Closure(k)
    BY <1>2, <1>7, <2>3, ClosuresAreClasses
  <2> QED
    BY <2>1, <2>2, <2>4
<1> HIDE DEF us, All, unit
<1>8. /\ IsFiniteSet(us)
      /\ \A u \in us :
           /\ u.primary \in u.members /\ u.members = u.closure \cap chats
           /\ u.closure \subseteq Jids
           /\ u.last \in Nat /\ u.last <= clock
           /\ u.late = [k \in u.closure |-> late[k]]
           /\ \A k \in u.members : u.counts[k] = count[k] /\ last[k] <= u.last
      /\ \A u, v \in us : u # v => u.closure \cap v.closure = {}
  BY <1>4, <1>6, <1>7
<1> QED
  BY <1>8 DEF us

-----------------------------------------------------------------------------
(* The levels of names.                                                    *)

Ups(us) == [tagged : SUBSET us, full : SUBSET us]

\* The rounds of assignFilenames, as a function of where they start.
IsClimb(climb, us, taken) ==
  climb = [up \in Ups(us) |->
             LET next == Raised(us, taken, up)
             IN IF next = up THEN up ELSE climb[next]]

LEMMA LevelsClimb ==
  ASSUME NEW us, NEW taken
  PROVE  Levels(us, taken) = (CHOOSE climb : IsClimb(climb, us, taken))[Plain]
BY DEF Levels, IsClimb, Ups

\* A round only adds, so what is left to add shrinks unless nothing changes.
Left(us, up) ==
  (Cardinality(us) - Cardinality(up.tagged)) + (Cardinality(us) - Cardinality(up.full))

LEMMA CardLess ==
  ASSUME NEW us, IsFiniteSet(us), NEW S \in SUBSET us, NEW T \in SUBSET us, S \subseteq T
  PROVE  /\ Cardinality(S) \in Nat /\ Cardinality(us) \in Nat
         /\ Cardinality(S) <= Cardinality(T) /\ Cardinality(S) <= Cardinality(us)
         /\ S # T => Cardinality(S) < Cardinality(T)
<1>1. IsFiniteSet(T) /\ IsFiniteSet(S)
  BY FS_Subset
<1>2. /\ Cardinality(S) <= Cardinality(T) /\ Cardinality(S) <= Cardinality(us)
      /\ Cardinality(S) = Cardinality(T) => S = T
  BY <1>1, FS_Subset
<1>3. Cardinality(S) \in Nat /\ Cardinality(us) \in Nat /\ Cardinality(T) \in Nat
  BY <1>1, FS_CardinalityType
<1> QED
  BY <1>2, <1>3

LEMMA RoundsEnd ==
  ASSUME NEW us, IsFiniteSet(us), NEW taken, NEW up \in Ups(us)
  PROVE  /\ Raised(us, taken, up) \in Ups(us)
         /\ Left(us, up) \in Nat /\ Left(us, up) <= 2 * Cardinality(us)
         /\ Raised(us, taken, up) # up =>
              Left(us, Raised(us, taken, up)) < Left(us, up)
<1> DEFINE clashing == Clashing(us, taken, up)
           next == Raised(us, taken, up)
<1>1. clashing \subseteq us
  BY DEF Clashing
<1>2. up.tagged \in SUBSET us /\ up.full \in SUBSET us
      /\ up = [tagged |-> up.tagged, full |-> up.full]
  BY DEF Ups
<1>3. next = [tagged |-> up.tagged \cup clashing,
              full |-> up.full \cup (clashing \cap up.tagged)]
  BY DEF Raised
<1> HIDE DEF clashing
<1>4. next \in Ups(us)
  BY <1>1, <1>2, <1>3 DEF Ups
<1>5. /\ next.tagged \in SUBSET us /\ next.full \in SUBSET us
      /\ up.tagged \subseteq next.tagged /\ up.full \subseteq next.full
      /\ next # up => next.tagged # up.tagged \/ next.full # up.full
  BY <1>1, <1>2, <1>3
<1> HIDE DEF next
<1> DEFINE a == Cardinality(up.tagged)
           b == Cardinality(up.full)
           c == Cardinality(next.tagged)
           d == Cardinality(next.full)
           n == Cardinality(us)
<1>6. /\ a \in Nat /\ n \in Nat /\ a <= c /\ a <= n
      /\ next.tagged # up.tagged => a < c
  BY <1>2, <1>5, CardLess
<1>7. /\ b \in Nat /\ b <= d /\ b <= n
      /\ next.full # up.full => b < d
  BY <1>2, <1>5, CardLess
<1>8. c \in Nat /\ c <= n /\ d \in Nat /\ d <= n
  BY <1>5, CardLess
<1>9. Left(us, up) = (n - a) + (n - b) /\ Left(us, next) = (n - c) + (n - d)
  BY DEF Left
<1> HIDE DEF a, b, c, d, n
<1>10. Left(us, up) \in Nat /\ Left(us, up) <= 2 * n
  BY <1>6, <1>7, <1>9
<1>11. next # up => Left(us, next) < Left(us, up)
  BY <1>5, <1>6, <1>7, <1>8, <1>9
<1> QED
  BY <1>4, <1>10, <1>11 DEF n, next

\* There is such a function, built up from where less is left to add.
LEMMA ClimbExists ==
  ASSUME NEW us, IsFiniteSet(us), NEW taken
  PROVE  \E climb : IsClimb(climb, us, taken)
<1> DEFINE D(m) == {up \in Ups(us) : Left(us, up) <= m}
           next == [up \in Ups(us) |-> Raised(us, taken, up)]
           Good(m) == \E c : c = [up \in D(m) |-> IF next[up] = up THEN up ELSE c[next[up]]]
           S == {m \in Nat : Good(m)}
<1>1. \A up \in Ups(us) : /\ next[up] \in Ups(us) /\ next[up] = Raised(us, taken, up)
                          /\ Left(us, up) \in Nat /\ Left(us, up) <= 2 * Cardinality(us)
                          /\ next[up] # up => Left(us, next[up]) < Left(us, up)
  BY RoundsEnd
<1> HIDE DEF next
<1>2. Good(0)
  <2> DEFINE c == [up \in D(0) |-> up]
  <2>1. \A up \in D(0) : next[up] = up
    BY <1>1
  <2>2. c = [up \in D(0) |-> IF next[up] = up THEN up ELSE c[next[up]]]
    BY <2>1
  <2> QED
    BY <2>2
<1>3. ASSUME NEW m \in Nat, Good(m) PROVE Good(m + 1)
  <2>1. PICK c : c = [up \in D(m) |-> IF next[up] = up THEN up ELSE c[next[up]]]
    BY <1>3
  <2> DEFINE e == [up \in D(m + 1) |->
                     IF next[up] = up THEN up ELSE c[next[up]]]
  <2>2. ASSUME NEW up \in D(m + 1), next[up] # up
        PROVE  next[up] \in D(m)
    BY <1>1, <2>2
  <2>3. \A up \in D(m) : up \in D(m + 1)
    BY <1>1
  <2> DEFINE Dm == D(m)
             Dn == D(m + 1)
  <2>4. \A up \in Dm : e[up] = c[up]
    <3>1. \A up \in Dm : up \in Dn
      BY <2>3
    <3>2. c = [up \in Dm |-> IF next[up] = up THEN up ELSE c[next[up]]]
      BY <2>1
    <3>3. e = [up \in Dn |-> IF next[up] = up THEN up ELSE c[next[up]]]
      OBVIOUS
    <3> HIDE DEF Dm, Dn, e
    <3>4. ASSUME NEW up \in Dm PROVE e[up] = c[up]
      <4>1. e[up] = IF next[up] = up THEN up ELSE c[next[up]]
        BY <3>1, <3>3, Zenon
      <4>2. c[up] = IF next[up] = up THEN up ELSE c[next[up]]
        BY <3>2, Zenon
      <4> QED
        BY <4>1, <4>2, Zenon
    <3> QED
      BY <3>4
  <2>5. \A up \in Dn : next[up] # up => next[up] \in Dm
    BY <2>2
  <2>6. e = [up \in Dn |-> IF next[up] = up THEN up ELSE c[next[up]]]
    OBVIOUS
  <2> HIDE DEF Dm, Dn, e
  <2>7. \A up \in Dn : (IF next[up] = up THEN up ELSE c[next[up]])
                         = (IF next[up] = up THEN up ELSE e[next[up]])
    BY <2>4, <2>5
  <2>8. e = [up \in Dn |-> IF next[up] = up THEN up ELSE e[next[up]]]
    BY <2>6, <2>7
  <2> QED
    BY <2>8 DEF Dn
<1>4. Nat \subseteq S
  <2> HIDE DEF Good
  <2>1. 0 \in S /\ \A m \in Nat : m \in S => m + 1 \in S
    BY <1>2, <1>3
  <2> HIDE DEF S
  <2> QED
    BY <2>1, NatSet
<1> DEFINE n == 2 * Cardinality(us)
<1>5. n \in Nat
  BY FS_CardinalityType
<1>6. Good(n)
  BY <1>4, <1>5
<1>7. D(n) = Ups(us)
  BY <1>1
<1> DEFINE Dn == D(n)
<1>8. PICK c : c = [up \in Dn |-> IF next[up] = up THEN up ELSE c[next[up]]]
  BY <1>6
<1>9. Dn = Ups(us)
  BY <1>7
<1> HIDE DEF Dn
<1>10. c = [up \in Ups(us) |-> IF next[up] = up THEN up ELSE c[next[up]]]
  BY <1>8, <1>9
<1>11. c = [up \in Ups(us) |-> IF Raised(us, taken, up) = up THEN up
                               ELSE c[Raised(us, taken, up)]]
  BY <1>1, <1>10
<1> QED
  BY <1>11 DEF IsClimb

\* assignFilenames stops, and another round would change nothing.
LEMMA LevelsAreSettled ==
  ASSUME NEW us, IsFiniteSet(us), NEW taken
  PROVE  /\ Levels(us, taken) \in Ups(us)
         /\ Raised(us, taken, Levels(us, taken)) = Levels(us, taken)
<1> DEFINE climb == CHOOSE c : IsClimb(c, us, taken)
<1>1. IsClimb(climb, us, taken)
  BY ClimbExists, Zenon
<1> HIDE DEF climb
<1> DEFINE Settled(up) == /\ climb[up] \in Ups(us)
                          /\ Raised(us, taken, climb[up]) = climb[up]
           S == {m \in Nat : \A up \in Ups(us) : Left(us, up) <= m => Settled(up)}
<1>2. \A up \in Ups(us) :
        climb[up] = IF Raised(us, taken, up) = up THEN up ELSE climb[Raised(us, taken, up)]
  BY <1>1, Zenon DEF IsClimb
<1>3. \A up \in Ups(us) :
        /\ Raised(us, taken, up) \in Ups(us)
        /\ Left(us, up) \in Nat /\ Left(us, up) <= 2 * Cardinality(us)
        /\ Raised(us, taken, up) # up =>
             Left(us, Raised(us, taken, up)) < Left(us, up)
  BY RoundsEnd
<1>4. \A up \in Ups(us) : Raised(us, taken, up) = up => Settled(up)
  BY <1>2
<1>5. \A up \in Ups(us) : Raised(us, taken, up) # up =>
        (Settled(Raised(us, taken, up)) => Settled(up))
  BY <1>2
<1> HIDE DEF Settled
<1>6. 0 \in S
  BY <1>3, <1>4
<1>7. \A m \in Nat : m \in S => m + 1 \in S
  <2> SUFFICES ASSUME NEW m \in Nat, m \in S, NEW up \in Ups(us), Left(us, up) <= m + 1
               PROVE  Settled(up)
    OBVIOUS
  <2>1. CASE Raised(us, taken, up) = up
    BY <1>4, <2>1
  <2>2. CASE Raised(us, taken, up) # up
    <3> DEFINE next == Raised(us, taken, up)
    <3>1. next \in Ups(us) /\ Left(us, next) \in Nat /\ Left(us, next) < Left(us, up)
      BY <1>3, <2>2
    <3>2. Left(us, up) \in Nat
      BY <1>3
    <3>3. Left(us, next) <= m
      <4> HIDE DEF next
      <4> QED
        BY <3>1, <3>2
    <3>4. Settled(next)
      BY <3>1, <3>3
    <3> QED
      BY <1>5, <2>2, <3>4
  <2> QED
    BY <2>1, <2>2
<1>8. Nat \subseteq S
  <2> HIDE DEF S
  <2> QED
    BY <1>6, <1>7, NatSet
<1>9. Plain \in Ups(us)
  BY DEF Plain, Ups
<1>10. Settled(Plain)
  <2>1. Left(us, Plain) \in Nat
    BY <1>3, <1>9
  <2>2. Left(us, Plain) \in S
    BY <1>8, <2>1
  <2> QED
    BY <1>9, <2>1, <2>2
<1> QED
  BY <1>10, LevelsClimb DEF Settled, climb

-----------------------------------------------------------------------------
(* The plan.                                                               *)

\* Units that the rounds leave clashing carry their whole JIDs.
LEMMA SettledClash ==
  ASSUME NEW us, NEW taken, NEW up \in Ups(us), Raised(us, taken, up) = up,
         NEW u \in Clashing(us, taken, up)
  PROVE  /\ u \in us
         /\ \/ FoldKey(NameAt(u, 2)) \in taken
            \/ \E v \in us \ {u} : FoldKey(NameAt(v, 2)) = FoldKey(NameAt(u, 2))
<1> DEFINE clashing == Clashing(us, taken, up)
           key == [w \in us |-> FoldKey(NameIn(w, up))]
<1>1. clashing = {w \in us : key[w] \in taken \/ \E v \in us \ {w} : key[v] = key[w]}
  BY DEF Clashing
<1>2. \A w \in us : key[w] = FoldKey(NameIn(w, up))
  OBVIOUS
<1> HIDE DEF clashing, key
<1>3. /\ up.tagged = up.tagged \cup clashing
      /\ up.full = up.full \cup (clashing \cap up.tagged)
  <2>1. Raised(us, taken, up) = [tagged |-> up.tagged \cup clashing,
                                 full |-> up.full \cup (clashing \cap up.tagged)]
    BY DEF Raised, clashing
  <2> QED
    BY <2>1
<1>4. clashing \subseteq up.full
  BY <1>3
<1>5. \A w \in clashing : w \in us /\ key[w] = FoldKey(NameAt(w, 2))
  BY <1>1, <1>2, <1>4 DEF NameIn
<1>6. u \in clashing
  BY DEF clashing
<1>7. CASE key[u] \in taken
  BY <1>5, <1>6, <1>7
<1>8. ASSUME NEW v \in us \ {u}, key[v] = key[u]
      PROVE  FoldKey(NameAt(v, 2)) = FoldKey(NameAt(u, 2))
  <2>1. v \in clashing
    BY <1>1, <1>5, <1>6, <1>8
  <2> QED
    BY <1>5, <1>6, <1>8, <2>1
<1> QED
  BY <1>1, <1>5, <1>6, <1>7, <1>8

\* What a plan promises: one name per unit; without a residue the names differ
\* from each other and from all that are taken, and a residue is deserved.
LEMMA PlanNames ==
  ASSUME NEW us, IsFiniteSet(us), NEW dir,
         \A u, v \in us : u.primary = v.primary => u = v
  PROVE  LET made == PlanFor(us, dir) IN
         /\ DOMAIN made.names = {u.primary : u \in us}
         /\ made.residue = {} => \A u \in us :
              /\ FoldKey(made.names[u.primary]) \notin Taken(us, dir)
              /\ \A v \in us : FoldKey(made.names[v.primary])
                                 = FoldKey(made.names[u.primary]) => v = u
         /\ made.residue # {} => \E u \in us :
              \/ FoldKey(NameAt(u, 2)) \in Taken(us, dir)
              \/ \E v \in us \ {u} : FoldKey(NameAt(v, 2)) = FoldKey(NameAt(u, 2))
<1> DEFINE taken == Taken(us, dir)
           up == Levels(us, taken)
           made == PlanFor(us, dir)
<1>1. /\ made.names = [p \in {u.primary : u \in us} |->
                         NameIn(CHOOSE u \in us : u.primary = p, up)]
      /\ made.residue = Clashing(us, taken, up)
  BY DEF PlanFor
<1>2. up \in Ups(us) /\ Raised(us, taken, up) = up
  BY LevelsAreSettled
<1> HIDE DEF up, made, taken
<1>3. \A u \in us : (CHOOSE v \in us : v.primary = u.primary) = u
  OBVIOUS
<1>4. \A u \in us : made.names[u.primary] = NameIn(u, up)
  <2> SUFFICES ASSUME NEW u \in us PROVE made.names[u.primary] = NameIn(u, up)
    OBVIOUS
  <2>1. u.primary \in {w.primary : w \in us}
    OBVIOUS
  <2>2. made.names[u.primary] = NameIn(CHOOSE v \in us : v.primary = u.primary, up)
    BY <1>1, <2>1
  <2> QED
    BY <1>3, <2>2
<1>5. ASSUME made.residue = {}, NEW u \in us
      PROVE  /\ FoldKey(made.names[u.primary]) \notin taken
             /\ \A v \in us : FoldKey(made.names[v.primary])
                                = FoldKey(made.names[u.primary]) => v = u
  <2>1. u \notin Clashing(us, taken, up)
    BY <1>1, <1>5
  <2>2. /\ FoldKey(NameIn(u, up)) \notin taken
        /\ \A v \in us \ {u} : FoldKey(NameIn(v, up)) # FoldKey(NameIn(u, up))
    BY <2>1 DEF Clashing
  <2> QED
    BY <1>4, <2>2
<1>6. ASSUME made.residue # {}
      PROVE  \E u \in us :
               \/ FoldKey(NameAt(u, 2)) \in taken
               \/ \E v \in us \ {u} : FoldKey(NameAt(v, 2)) = FoldKey(NameAt(u, 2))
  <2>1. PICK u \in Clashing(us, taken, up) : TRUE
    BY <1>1, <1>6
  <2> QED
    BY <1>2, <2>1, SettledClash
<1>7. DOMAIN made.names = {u.primary : u \in us}
  BY <1>1
<1> QED
  BY <1>5, <1>6, <1>7 DEF made, taken

\* A plan sees of a directory only the names that are taken.
LEMMA PlanSeesTaken ==
  ASSUME NEW us, NEW dir, NEW other, Taken(us, dir) = Taken(us, other)
  PROVE  PlanFor(us, dir) = PlanFor(us, other)
BY DEF PlanFor

\* Units that are apart have primaries of their own.
LEMMA Apart ==
  ASSUME UnitsInv
  PROVE  /\ IsFiniteSet(units)
         /\ \A u, v \in units : u.primary = v.primary => u = v
         /\ \A u, v \in units : u # v => u.members \cap v.members = {}
BY DEF UnitsInv

-----------------------------------------------------------------------------
(* The inductive invariant, one lemma per action.                          *)

\* While no export runs, only the data matter.
PlanParts == UnitsInv /\ PlanInv /\ SkipInv /\ WriteInv /\ OkInv /\ RefusalIsDeserved

LEMMA NoPlan ==
  ASSUME units = {}, before = {}, phase = "idle"
  PROVE  PlanParts
<1>1. IsFiniteSet(units)
  BY FS_EmptySet
<1> QED
  BY <1>1 DEF PlanParts, UnitsInv, PlanInv, SkipInv, WriteInv, OkInv, RefusalIsDeserved,
     Planned, Running

LEMMA NoPlanNext ==
  ASSUME units' = {}, before' = {}, phase' = "idle"
  PROVE  PlanParts'
<1>1. IsFiniteSet(units')
  BY FS_EmptySet
<1> QED
  BY <1>1 DEF PlanParts, UnitsInv, PlanInv, SkipInv, WriteInv, OkInv, RefusalIsDeserved,
     Planned, Running

LEMMA InitInv ==
  ASSUME Init PROVE ExportInv
<1>1. PlanParts
  BY NoPlan DEF Init
<1>2. TypeOK
  BY ExportAssumption DEF Init, TypeOK
<1>3. ChatsInv
  BY DEF Init, ChatsInv
<1>4. DiskInv
  <2>1. /\ \A f \in disk :
             /\ IsFile(f) /\ f.last <= 1 /\ f.late = [j \in Jids |-> 0]
             /\ f.jid # NoJid /\ f.last = 1 /\ ~f.cut => \A j \in f.closure : f.holds[j] >= 1
        /\ \A f, g \in disk : KeyOn(fs, f.name) = KeyOn(fs, g.name) => f = g
    BY ExportAssumption DEF Init
  <2>2. ASSUME NEW f \in disk, f.jid # NoJid, NEW j \in f.closure, last[j] <= f.last
        PROVE  ~Lacks(f, j, count[j])
    <3>1. j \in Jids /\ f.last \in Nat /\ f.holds[j] \in Nat
      BY <2>1 DEF IsFile
    <3>2. last[j] = 1 /\ count[j] = 1 /\ late[j] = 0 /\ f.late[j] = 0
      BY <2>1, <3>1 DEF Init
    <3>3. f.last = 1
      BY <2>1, <2>2, <3>1, <3>2
    <3>4. f.cut \/ f.holds[j] >= 1
      BY <2>1, <2>2, <3>3
    <3> QED
      BY <3>1, <3>2, <3>4 DEF Lacks
  <2>3. \A f \in disk : \A j \in Jids : f.late[j] <= late[j]
    BY <2>1 DEF Init
  <2>4. clock = 1
    BY DEF Init
  <2> QED
    BY <2>1, <2>2, <2>3, <2>4 DEF DiskInv, FsKey
<1>5. NewInv
  BY DEF Init, NewInv
<1> QED
  BY <1>1, <1>2, <1>3, <1>4, <1>5 DEF ExportInv, PlanParts

\* A note is a file that claims nothing.
LEMMA NotesAreFiles ==
  ASSUME NEW n
  PROVE  IsFile(Note(n)) /\ Note(n).jid = NoJid /\ Note(n).name = n
         /\ Note(n).last = 0 /\ Note(n).late = [j \in Jids |-> 0]
BY DEF IsFile, Note

\* What the data keep when the directory and the rows of a chat stay.
LEMMA DataStay ==
  ASSUME TypeOK, ChatsInv, DiskInv,
         UNCHANGED <<chats, last, count, clock, late, fs, disk>>,
         coming' \in [Jids -> {"no", "new", "late"}],
         \A j \in Jids : coming[j] = "no" => coming'[j] = "no",
         before' \subseteq disk \cup before,
         phase' \in {"idle", "heal", "write", "done"},
         outcome' \in {"none", "ok", "incomplete", "refused"}
  PROVE  TypeOK' /\ ChatsInv' /\ DiskInv'
<1>1. TypeOK'
  BY DEF TypeOK
<1>2. ChatsInv'
  BY DEF ChatsInv
<1>3. DiskInv'
  BY DEF DiskInv, Lacks, FsKey
<1> QED
  BY <1>1, <1>2, <1>3

\* ... and when only the directory changes, or a plan is forgotten.
LEMMA TypeStays ==
  ASSUME TypeOK, ChatsInv,
         UNCHANGED <<chats, last, count, clock, coming, late, fs>>,
         before' \subseteq before, \A f \in disk' : IsFile(f),
         phase' \in {"idle", "heal", "write", "done"},
         outcome' \in {"none", "ok", "incomplete", "refused"}
  PROVE  TypeOK' /\ ChatsInv'
<1>1. TypeOK'
  BY DEF TypeOK
<1>2. ChatsInv'
  BY DEF ChatsInv
<1> QED
  BY <1>1, <1>2

\* A file has the time of one before it, of a unit, or none.
LEMMA NewStays ==
  ASSUME NewInv, UNCHANGED <<last, coming>>, units' \subseteq units,
         \A g \in disk' : \/ g.last = 0
                          \/ \E r \in disk \cup units : g.last = r.last
  PROVE  NewInv'
<1> SUFFICES ASSUME NEW j \in Jids, coming[j] = "new"
             PROVE  last[j] > 0 /\ \A r \in disk' \cup units' : r.last < last[j]
  BY DEF NewInv
<1>1. last[j] > 0 /\ \A r \in disk \cup units : r.last < last[j]
  BY DEF NewInv
<1>2. ASSUME NEW g \in disk' PROVE g.last < last[j]
  <2>1. CASE g.last = 0
    BY <1>1, <2>1
  <2>2. ASSUME NEW r \in disk \cup units, g.last = r.last PROVE g.last < last[j]
    BY <1>1, <2>2
  <2> QED
    BY <2>1, <2>2
<1> QED
  BY <1>1, <1>2

\* Between two exports there is no plan, before and after a change.
LEMMA NoPlanBetween ==
  ASSUME ExportInv, BetweenRuns
  PROVE  /\ units = {} /\ before' = {} /\ units' = {}
         /\ UNCHANGED <<fs, phase, outcome>> /\ phase = "idle"
         /\ PlanParts'
<1>1. units = {} /\ before = {} /\ phase = "idle"
  BY DEF BetweenRuns, ExportInv, UnitsInv
<1>2. UNCHANGED <<fs, phase, outcome, units, before>>
  BY DEF BetweenRuns, plan
<1> QED
  BY <1>1, <1>2, NoPlanNext

LEMMA RenameInv ==
  ASSUME ExportInv, (\E k \in Jids : Rename(k)) \/ LearnAlias
  PROVE  ExportInv'
<1>1. /\ PlanParts' /\ before' = {} /\ units' = {}
      /\ UNCHANGED <<chats, last, count, clock, coming, late, fs, disk, phase, outcome>>
  BY NoPlanBetween DEF Rename, LearnAlias
<1>2. TypeOK /\ ChatsInv /\ DiskInv /\ NewInv
  BY DEF ExportInv
<1>3. TypeOK' /\ ChatsInv' /\ DiskInv'
  BY <1>1, <1>2, DataStay DEF TypeOK
<1>4. NewInv'
  BY <1>1, <1>2, NewStays
<1> QED
  BY <1>1, <1>3, <1>4 DEF ExportInv, PlanParts

\* Rows of history are late, so no file lacks more than before.
LEMMA HistoryInv ==
  ASSUME ExportInv, NEW k \in Jids, HistoryArrives(k)
  PROVE  ExportInv'
<1>1. /\ PlanParts' /\ before' = {} /\ units' = {}
      /\ UNCHANGED <<fs, phase, outcome, clock, coming, disk>>
      /\ chats' = chats \cup {k} /\ count' = [count EXCEPT ![k] = @ + 1]
      /\ last' = [last EXCEPT ![k] = IF @ = 0 THEN 1 ELSE @]
      /\ late' = [late EXCEPT ![k] = @ + 1]
  BY NoPlanBetween DEF HistoryArrives
<1>2. TypeOK /\ ChatsInv /\ DiskInv /\ NewInv
  BY DEF ExportInv
<1>3. /\ last \in [Jids -> Nat] /\ count \in [Jids -> Nat] /\ late \in [Jids -> Nat]
      /\ clock \in Nat \ {0} /\ chats \subseteq Jids /\ \A f \in disk : IsFile(f)
  BY <1>2 DEF TypeOK
<1>4. /\ count' \in [Jids -> Nat] /\ late' \in [Jids -> Nat] /\ last' \in [Jids -> Nat]
      /\ \A j \in Jids \ {k} : /\ late'[j] = late[j] /\ last'[j] = last[j]
                               /\ count'[j] = count[j]
      /\ late'[k] = late[k] + 1 /\ count'[k] = count[k] + 1
      /\ last'[k] = IF last[k] = 0 THEN 1 ELSE last[k]
  BY <1>1, <1>3
<1>5. TypeOK'
  <2>1. \A f \in disk' \cup before' : IsFile(f)
    BY <1>1, <1>3
  <2>2. chats' \subseteq Jids
    BY <1>1, <1>3
  <2> QED
    BY <1>1, <1>2, <1>4, <2>1, <2>2 DEF TypeOK
<1>6. ChatsInv'
  <2>1. \A j \in Jids \ chats' : count'[j] = 0 /\ last'[j] = 0 /\ coming'[j] = "no"
    BY <1>1, <1>2, <1>4 DEF ChatsInv
  <2>2. ASSUME NEW j \in Jids PROVE last'[j] <= clock
    BY <1>2, <1>3, <1>4 DEF ChatsInv
  <2> QED
    BY <1>1, <2>1, <2>2 DEF ChatsInv
<1>7. ASSUME NEW f \in disk, f.jid # NoJid, NEW j \in f.closure, last'[j] <= f.last
      PROVE  f.cut \/ ~(f.holds[j] + (late'[j] - f.late[j]) < count'[j])
  <2>1. /\ j \in Jids /\ f.holds[j] \in Nat /\ f.late[j] \in Nat /\ f.last \in Nat
        /\ late[j] \in Nat /\ count[j] \in Nat /\ last[j] \in Nat
    BY <1>3 DEF IsFile
  <2>2. last[j] <= f.last
    BY <1>4, <1>7, <2>1
  <2>3. f.cut \/ ~(f.holds[j] + (late[j] - f.late[j]) < count[j])
    BY <1>2, <1>7, <2>2 DEF DiskInv, Lacks
  <2>4. \/ late'[j] = late[j] /\ count'[j] = count[j]
        \/ late'[j] = late[j] + 1 /\ count'[j] = count[j] + 1
    BY <1>4, <2>1
  <2> QED
    BY <2>1, <2>3, <2>4
<1>8. ASSUME NEW f \in disk, NEW j \in Jids PROVE f.late[j] <= late'[j]
  <2>1. f.late[j] <= late[j] /\ f.late[j] \in Nat /\ late[j] \in Nat
    BY <1>2, <1>3 DEF DiskInv, IsFile
  <2> QED
    BY <1>4, <2>1
<1>9. DiskInv'
  <2>1. /\ \A f, g \in disk : KeyOn(fs, f.name) = KeyOn(fs, g.name) => f = g
        /\ \A f \in disk : f.last <= clock
    BY <1>2 DEF DiskInv, FsKey
  <2> QED
    BY <1>1, <1>7, <1>8, <2>1 DEF DiskInv, FsKey, Lacks
<1>10. NewInv'
  <2> SUFFICES ASSUME NEW j \in Jids, coming[j] = "new"
               PROVE  last'[j] > 0 /\ \A r \in disk : r.last < last'[j]
    BY <1>1 DEF NewInv
  <2>1. last[j] > 0 /\ \A r \in disk : r.last < last[j]
    BY <1>2 DEF NewInv
  <2>2. last'[j] = last[j]
    BY <1>3, <1>4, <2>1
  <2> QED
    BY <2>1, <2>2
<1> QED
  BY <1>1, <1>5, <1>6, <1>9, <1>10 DEF ExportInv, PlanParts

LEMMA RemoveChatInv ==
  ASSUME ExportInv, NEW k \in Jids, RemoveChat(k)
  PROVE  ExportInv'
<1>1. /\ PlanParts' /\ before' = {} /\ units' = {} /\ coming[k] = "no"
      /\ chats' = chats \ {k}
      /\ UNCHANGED <<fs, phase, outcome, clock, coming, late, disk>>
      /\ count' = [count EXCEPT ![k] = 0] /\ last' = [last EXCEPT ![k] = 0]
  BY NoPlanBetween DEF RemoveChat
<1>2. TypeOK /\ ChatsInv /\ DiskInv /\ NewInv
  BY DEF ExportInv
<1>3. /\ last \in [Jids -> Nat] /\ count \in [Jids -> Nat] /\ late \in [Jids -> Nat]
      /\ clock \in Nat \ {0} /\ chats \subseteq Jids /\ \A f \in disk : IsFile(f)
  BY <1>2 DEF TypeOK
<1>4. TypeOK'
  BY <1>1, <1>2, <1>3 DEF TypeOK
<1>5. ChatsInv'
  BY <1>1, <1>2, <1>3 DEF ChatsInv
<1>6. ASSUME NEW f \in disk, f.jid # NoJid, NEW j \in f.closure, last'[j] <= f.last
      PROVE  f.cut \/ ~(f.holds[j] + (late[j] - f.late[j]) < count'[j])
  <2>1. /\ j \in Jids /\ f.holds[j] \in Nat /\ f.late[j] \in Nat
        /\ f.late[j] <= late[j] /\ late[j] \in Nat
    BY <1>2, <1>3 DEF DiskInv, IsFile
  <2>2. CASE j = k
    BY <1>1, <1>3, <2>1, <2>2
  <2>3. CASE j # k
    <3>1. last'[j] = last[j] /\ count'[j] = count[j]
      BY <1>1, <1>3, <2>1, <2>3
    <3> QED
      BY <1>2, <1>6, <3>1 DEF DiskInv, Lacks
  <2> QED
    BY <2>2, <2>3
<1>7. /\ \A f, g \in disk : KeyOn(fs, f.name) = KeyOn(fs, g.name) => f = g
      /\ \A f \in disk : f.last <= clock /\ \A j \in Jids : f.late[j] <= late[j]
  BY <1>2 DEF DiskInv, FsKey
<1>8. DiskInv'
  BY <1>1, <1>6, <1>7 DEF DiskInv, FsKey, Lacks
<1>9. NewInv'
  BY <1>1, <1>2, <1>3 DEF NewInv
<1> QED
  BY <1>1, <1>4, <1>5, <1>8, <1>9 DEF ExportInv, PlanParts

\* A directory with one entry new or changed.
LEMMA OneFile ==
  ASSUME TypeOK, DiskInv, UNCHANGED <<last, count, clock, late, fs>>,
         NEW S \in SUBSET disk, NEW g, disk' = S \cup {g},
         IsFile(g), \A f \in S : FsKey(f.name) # FsKey(g.name),
         g.last <= clock, \A j \in Jids : g.late[j] <= late[j],
         g.jid # NoJid =>
           \A j \in g.closure : last[j] <= g.last => ~Lacks(g, j, count[j])
  PROVE  DiskInv' /\ \A f \in disk' : IsFile(f)
<1>1. \A f \in disk' : f \in disk \/ f = g
  OBVIOUS
<1>2. \A f \in disk' : IsFile(f)
  BY <1>1 DEF TypeOK
<1>3. \A f, h \in disk' : FsKey(f.name) = FsKey(h.name) => f = h
  BY DEF DiskInv
<1>4. \A f \in disk' :
        /\ f.last <= clock
        /\ \A j \in Jids : f.late[j] <= late[j]
        /\ f.jid # NoJid =>
             \A j \in f.closure : last[j] <= f.last => ~Lacks(f, j, count[j])
  BY <1>1 DEF DiskInv
<1>5. DiskInv'
  BY <1>3, <1>4 DEF DiskInv, FsKey, Lacks
<1> QED
  BY <1>2, <1>5

LEMMA OneNote ==
  ASSUME TypeOK, DiskInv, UNCHANGED <<last, count, clock, late, fs>>,
         NEW S \in SUBSET disk, NEW n, disk' = S \cup {Note(n)},
         \A f \in S : FsKey(f.name) # FsKey(n)
  PROVE  DiskInv' /\ \A f \in disk' : IsFile(f)
<1>1. /\ IsFile(Note(n)) /\ Note(n).jid = NoJid /\ Note(n).name = n
      /\ Note(n).last = 0 /\ Note(n).late = [j \in Jids |-> 0]
  BY NotesAreFiles
<1>2. clock \in Nat /\ late \in [Jids -> Nat]
  BY DEF TypeOK
<1> DEFINE g == Note(n)
<1>3. /\ IsFile(g) /\ g.jid = NoJid /\ g.name = n /\ g.last <= clock
      /\ \A j \in Jids : g.late[j] <= late[j]
  <2>1. \A j \in Jids : Note(n).late[j] = 0
    BY <1>1
  <2> QED
    BY <1>1, <1>2, <2>1
<1>4. disk' = S \cup {g}
  OBVIOUS
<1> HIDE DEF g
<1> QED
  BY <1>3, <1>4, OneFile

LEMMA OwnerInv ==
  ASSUME ExportInv, OwnerWrites
  PROVE  ExportInv'
<1>1. /\ PlanParts' /\ before' = {} /\ units' = {}
      /\ UNCHANGED <<chats, last, count, clock, coming, late, fs, phase, outcome>>
  BY NoPlanBetween DEF OwnerWrites
<1>2. TypeOK /\ ChatsInv /\ DiskInv /\ NewInv
  BY DEF ExportInv
<1>3. /\ DiskInv' /\ \A f \in disk' : IsFile(f)
      /\ \A g \in disk' : g.last = 0 \/ \E r \in disk : g.last = r.last
  <2>1. ASSUME NEW n \in NoteNames, Resolve(disk, n) = {}, disk' = disk \cup {Note(n)}
        PROVE  /\ DiskInv' /\ \A f \in disk' : IsFile(f)
               /\ \A g \in disk' : g.last = 0 \/ \E r \in disk : g.last = r.last
    <3>1. \A f \in disk : FsKey(f.name) # FsKey(n)
      BY <2>1 DEF Resolve
    <3>2. Note(n).last = 0
      BY NotesAreFiles
    <3>3. DiskInv' /\ \A f \in disk' : IsFile(f)
      BY <1>1, <1>2, <2>1, <3>1, OneNote
    <3>4. \A g \in disk' : g \in disk \/ g = Note(n)
      BY <2>1
    <3> QED
      BY <3>2, <3>3, <3>4
  <2>2. ASSUME NEW f \in disk, disk' = (disk \ {f}) \cup {[f EXCEPT !.jid = NoJid]}
        PROVE  /\ DiskInv' /\ \A h \in disk' : IsFile(h)
               /\ \A h \in disk' : h.last = 0 \/ \E r \in disk : h.last = r.last
    <3> DEFINE g == [f EXCEPT !.jid = NoJid]
    <3>1. IsFile(f) /\ f.last <= clock /\ \A j \in Jids : f.late[j] <= late[j]
      BY <1>2 DEF TypeOK, DiskInv
    <3>2. /\ IsFile(g) /\ g.jid = NoJid /\ g.name = f.name
          /\ g.last = f.last /\ g.late = f.late
      BY <3>1 DEF IsFile
    <3>3. \A h \in disk \ {f} : FsKey(h.name) # FsKey(f.name)
      BY <1>2 DEF DiskInv
    <3>4. disk' = (disk \ {f}) \cup {g}
      BY <2>2
    <3> HIDE DEF g
    <3>5. DiskInv' /\ \A h \in disk' : IsFile(h)
      BY <1>1, <1>2, <3>1, <3>2, <3>3, <3>4, OneFile
    <3> QED
      BY <3>2, <3>4, <3>5
  <2> QED
    BY <2>1, <2>2 DEF OwnerWrites
<1>4. TypeOK' /\ ChatsInv'
  BY <1>1, <1>2, <1>3, TypeStays DEF TypeOK
<1>5. NewInv'
  BY <1>1, <1>2, <1>3, NewStays
<1> QED
  BY <1>1, <1>3, <1>4, <1>5 DEF ExportInv, PlanParts

\* Where a write ends up: at an entry the path leads to.
LEMMA WriteLands ==
  ASSUME NEW u
  PROVE  /\ FsKey(Rewritten(u).name) = FsKey(Path(u))
         /\ \A f \in disk \ Target(u) : FsKey(f.name) # FsKey(Rewritten(u).name)
<1>1. \A f \in disk : f \in Target(u) <=> FsKey(f.name) = FsKey(Path(u))
  BY DEF Target, Resolve
<1>2. Target(u) \subseteq disk
  BY DEF Target, Resolve
<1>3. Rewritten(u).name
        = IF Target(u) = {} THEN Path(u) ELSE (CHOOSE f \in Target(u) : TRUE).name
  BY DEF Rewritten
<1>4. FsKey(Rewritten(u).name) = FsKey(Path(u))
  <2>1. CASE Target(u) = {}
    BY <1>3, <2>1
  <2>2. CASE Target(u) # {}
    <3>1. (CHOOSE f \in Target(u) : TRUE) \in Target(u)
      BY <2>2
    <3> QED
      BY <1>1, <1>2, <1>3, <2>2, <3>1
  <2> QED
    BY <2>1, <2>2
<1> QED
  BY <1>1, <1>4

\* What is written for a unit: its rows as they are, and nothing of a chat that
\* came to its closure since the plan, whose rows are late since then.
LEMMA RewrittenIs ==
  ASSUME TypeOK, ChatsInv, UnitsInv, NEW u \in units
  PROVE  LET g == Rewritten(u) IN
         /\ IsFile(g) /\ g.jid = u.primary /\ g.closure = u.closure
         /\ g.last = u.last /\ g.last <= clock /\ ~g.cut
         /\ g.jid \in u.members /\ g.jid \in MembersOf(units) /\ g.jid # NoJid
         /\ \A j \in Jids : g.late[j] <= late[j]
         /\ \A j \in u.members : g.holds[j] = count[j] /\ g.late[j] = late[j]
         /\ \A j \in u.closure \ u.members : g.holds[j] = 0 /\ g.late[j] = u.late[j]
<1> DEFINE g == Rewritten(u)
<1>1. /\ g = [name |-> g.name, jid |-> g.jid, closure |-> g.closure, last |-> g.last,
              holds |-> g.holds, late |-> g.late, cut |-> g.cut]
      /\ g.jid = u.primary /\ g.closure = u.closure /\ g.last = u.last /\ g.cut = FALSE
      /\ g.holds = [j \in Jids |-> IF j \in u.members THEN count[j] ELSE 0]
      /\ g.late = [j \in Jids |-> IF j \in u.closure \ u.members THEN u.late[j]
                                  ELSE late[j]]
  BY DEF Rewritten
<1>2. /\ u.primary \in u.members /\ u.members \subseteq u.closure
      /\ u.closure \subseteq Jids /\ u.last \in Nat /\ u.last <= clock
      /\ u.late \in [u.closure -> Nat] /\ \A j \in u.closure : u.late[j] <= late[j]
      /\ u.primary \in MembersOf(units)
  BY DEF UnitsInv, MembersOf
<1>3. count \in [Jids -> Nat] /\ late \in [Jids -> Nat] /\ NoJid \notin Jids
  BY ExportAssumption DEF TypeOK
<1> HIDE DEF g
<1>4. g.holds \in [Jids -> Nat]
  BY <1>1, <1>2, <1>3
<1>5. g.late \in [Jids -> Nat] /\ \A j \in Jids : g.late[j] <= late[j]
  BY <1>1, <1>2, <1>3
<1>6. IsFile(g)
  <2>1. g.cut \in BOOLEAN /\ g.closure \subseteq Jids /\ g.last \in Nat
    BY <1>1, <1>2
  <2>2. g = [name |-> g.name, jid |-> g.jid, closure |-> g.closure, last |-> g.last,
             holds |-> g.holds, late |-> g.late, cut |-> g.cut]
    BY <1>1
  <2> QED
    BY <1>4, <1>5, <2>1, <2>2 DEF IsFile
<1>7. \A j \in u.members : g.holds[j] = count[j] /\ g.late[j] = late[j]
  BY <1>1, <1>2
<1>8. \A j \in u.closure \ u.members : g.holds[j] = 0 /\ g.late[j] = u.late[j]
  BY <1>1, <1>2
<1>9. g.jid \in Jids /\ g.jid # NoJid
  BY <1>1, <1>2, <1>3
<1> QED
  BY <1>1, <1>2, <1>5, <1>6, <1>7, <1>8, <1>9 DEF g

\* A write that ended too early: a file without a jid, or one that is excused.
LEMMA TornInv ==
  ASSUME TypeOK, ChatsInv, DiskInv, UnitsInv,
         UNCHANGED <<last, count, clock, late, fs>>,
         NEW u \in units, NEW t \in Torn(u), disk' = (disk \ Target(u)) \cup {t}
  PROVE  /\ DiskInv' /\ \A f \in disk' : IsFile(f)
         /\ t.jid = NoJid \/ t.cut
         /\ t.last = 0 \/ t.last = u.last
<1> DEFINE g == Rewritten(u)
<1>1. /\ IsFile(g) /\ g.jid = u.primary /\ g.closure = u.closure
      /\ g.last = u.last /\ g.last <= clock
      /\ \A j \in Jids : g.late[j] <= late[j]
  BY RewrittenIs
<1>2. \A f \in disk \ Target(u) : FsKey(f.name) # FsKey(g.name)
  BY WriteLands
<1>3. \/ t = Note(g.name)
      \/ t = [g EXCEPT !.holds = [j \in Jids |-> 0], !.cut = TRUE]
  BY DEF Torn
<1> HIDE DEF g
<1>4. CASE t = Note(g.name)
  <2>1. t.jid = NoJid /\ t.last = 0
    BY <1>4, NotesAreFiles
  <2> QED
    BY <1>2, <1>4, <2>1, OneNote
<1>5. CASE t = [g EXCEPT !.holds = [j \in Jids |-> 0], !.cut = TRUE]
  <2>1. /\ IsFile(t) /\ t.cut = TRUE /\ t.name = g.name /\ t.last = u.last
        /\ t.late = g.late
    BY <1>1, <1>5 DEF IsFile
  <2>2. \A j, n : ~Lacks(t, j, n)
    BY <2>1 DEF Lacks
  <2>3. t.last <= clock /\ \A j \in Jids : t.late[j] <= late[j]
    BY <1>1, <2>1
  <2>4. \A f \in disk \ Target(u) : FsKey(f.name) # FsKey(t.name)
    BY <1>2, <2>1
  <2>5. disk \ Target(u) \in SUBSET disk
    OBVIOUS
  <2>6. DiskInv' /\ \A f \in disk' : IsFile(f)
    BY <2>1, <2>2, <2>3, <2>4, <2>5, OneFile
  <2> QED
    BY <2>1, <2>6
<1> QED
  BY <1>3, <1>4, <1>5

LEMMA KillInv ==
  ASSUME ExportInv, Kill \/ Exit
  PROVE  ExportInv'
<1>1. /\ units' = {} /\ phase' = "idle" /\ before' = {}
      /\ outcome' \in {outcome, "none"}
      /\ UNCHANGED <<chats, last, count, clock, coming, late, fs>>
  BY DEF Kill, Exit, Forgotten, db
<1>2. TypeOK /\ ChatsInv /\ DiskInv /\ UnitsInv /\ NewInv
  BY DEF ExportInv
<1>3. /\ DiskInv' /\ \A f \in disk' : IsFile(f)
      /\ \A g \in disk' : g.last = 0 \/ \E r \in disk \cup units : g.last = r.last
  <2>1. CASE disk' = disk
    <3>1. \A f \in disk : IsFile(f)
      BY <1>2 DEF TypeOK
    <3>2. DiskInv'
      BY <1>1, <1>2, <2>1 DEF DiskInv, FsKey, Lacks
    <3> QED
      BY <2>1, <3>1, <3>2
  <2>2. ASSUME NEW u \in units, NEW t \in Torn(u), disk' = (disk \ Target(u)) \cup {t}
        PROVE  /\ DiskInv' /\ \A f \in disk' : IsFile(f)
               /\ \A g \in disk' : g.last = 0 \/ \E r \in disk \cup units : g.last = r.last
    <3>1. /\ DiskInv' /\ \A f \in disk' : IsFile(f)
          /\ t.last = 0 \/ t.last = u.last
      BY <1>1, <1>2, <2>2, TornInv
    <3>2. \A g \in disk' : g \in disk \/ g = t
      BY <2>2
    <3> QED
      BY <3>1, <3>2
  <2> QED
    BY <2>1, <2>2 DEF Kill, Exit
<1>4. TypeOK' /\ ChatsInv'
  BY <1>1, <1>2, <1>3, TypeStays DEF TypeOK
<1>5. NewInv'
  BY <1>1, <1>2, <1>3, NewStays
<1>6. PlanParts'
  BY <1>1, NoPlanNext
<1> QED
  BY <1>3, <1>4, <1>5, <1>6 DEF ExportInv, PlanParts

\* What is late grows, so what was exported stays so.
LEMMA LateGrows ==
  ASSUME TypeOK, NEW f \in disk, NEW j \in Jids, NEW n \in Nat, ~Lacks(f, j, n),
         late'[j] \in Nat, late[j] <= late'[j]
  PROVE  ~Lacks(f, j, n)'
<1>1. f.holds[j] \in Nat /\ f.late[j] \in Nat /\ late[j] \in Nat
  BY DEF TypeOK, IsFile
<1>2. f.cut \/ ~(f.holds[j] + (late[j] - f.late[j]) < n)
  BY DEF Lacks
<1>3. f.cut \/ ~(f.holds[j] + (late'[j] - f.late[j]) < n)
  BY <1>1, <1>2
<1> QED
  BY <1>3 DEF Lacks

\* While nothing but chats and their rows change, and no more than UnitsInv and
\* DiskInv say, the plan and what was done of it stay as they are.
LEMMA MessagesStay ==
  ASSUME ExportInv, UNCHANGED <<disk, fs, phase, outcome, plan, progress>>,
         phase # "done", late' \in [Jids -> Nat], \A j \in Jids : late[j] <= late'[j]
  PROVE  PlanInv' /\ SkipInv' /\ WriteInv' /\ OkInv' /\ RefusalIsDeserved'
<1>1. UNCHANGED <<disk, fs, phase, outcome, before, units, file, result>>
  BY DEF plan, progress
<1>2. TypeOK /\ UnitsInv
  BY DEF ExportInv
<1>3. ASSUME NEW u \in units, NEW j \in u.members
      PROVE  j \in Jids /\ u.counts[j] \in Nat /\ late'[j] \in Nat /\ late[j] <= late'[j]
  BY <1>2 DEF UnitsInv
<1>4. ASSUME NEW u \in units, NEW f \in disk, NEW j \in u.members,
             ~Lacks(f, j, u.counts[j])
      PROVE  ~Lacks(f, j, u.counts[j])'
  <2>1. /\ j \in Jids /\ u.counts[j] \in Nat /\ late'[j] \in Nat /\ late[j] <= late'[j]
    BY <1>3
  <2> DEFINE n == u.counts[j]
  <2>2. n \in Nat /\ ~Lacks(f, j, n)
    BY <1>4, <2>1
  <2> HIDE DEF n
  <2>3. ~(~f.cut /\ f.holds[j] + (late'[j] - f.late[j]) < n)
    BY <1>2, <2>1, <2>2, LateGrows DEF Lacks
  <2> QED
    BY <2>3 DEF Lacks, n
<1>5. PlanInv'
  BY <1>1 DEF ExportInv, PlanInv, Planned, Running, Foreign
<1>6. SkipInv'
  <2>1. ASSUME Running, NEW u \in units, NEW f \in disk, NEW j \in u.members \cap f.closure,
               f.jid # NoJid, f.last >= u.last
        PROVE  ~Lacks(f, j, u.counts[j])'
    <3>1. ~Lacks(f, j, u.counts[j])
      BY <2>1 DEF ExportInv, SkipInv
    <3> QED
      BY <1>4, <3>1
  <2> QED
    BY <1>1, <2>1 DEF SkipInv, Running, Lacks
<1>7. ASSUME NEW u \in units, IsExported(u) PROVE IsExported(u)'
  <2>1. PICK f \in Target(u) :
          /\ f.jid \in u.members /\ f.closure = u.closure /\ f.last >= u.last
          /\ \A j \in u.members : ~Lacks(f, j, u.counts[j])
    BY <1>7 DEF IsExported
  <2>2. f \in disk /\ f \in Target(u)'
    BY <1>1 DEF Target, Resolve, FsKey, Path
  <2>3. \A j \in u.members : ~Lacks(f, j, u.counts[j])'
    BY <1>4, <2>1, <2>2
  <2> QED
    BY <2>1, <2>2, <2>3 DEF IsExported, Lacks
<1>8. WriteInv'
  <2>1. /\ \A u : FsKey(Path(u))' = FsKey(Path(u))
        /\ \A f : FsKey(f.name)' = FsKey(f.name)
        /\ Foreign' = Foreign /\ Running' = Running
    BY <1>1 DEF FsKey, Path, Foreign, Running
  <2>2. ASSUME phase = "write", NEW u \in units
        PROVE  /\ result[u.primary] = "todo" =>
                    \A f \in Foreign : FsKey(f.name) # FsKey(Path(u))
               /\ result[u.primary] \in Landing =>
                    \/ IsExported(u)'
                    \/ \E v \in units \ {u} : /\ FsKey(Path(v)) = FsKey(Path(u))
                                              /\ result[v.primary] \notin {"todo", "empty"}
    BY <1>7, <2>2 DEF ExportInv, WriteInv
  <2>3. /\ phase = "heal" => \A u \in units : result[u.primary] = "todo"
        /\ Running =>
             /\ \A u \in units :
                  /\ result[u.primary] \in {"todo", "dropped", "empty"} \cup Landing
                  /\ result[u.primary] = "empty" => ~HasRows(u)
             /\ (\A u \in units : result[u.primary] # "dropped") =>
                  \A f \in disk : f.jid \notin MembersOf(units) => f \in before
    BY DEF ExportInv, WriteInv
  <2> HIDE DEF Landing
  <2> QED
    BY <1>1, <2>1, <2>2, <2>3 DEF WriteInv
<1>9. OkInv' /\ RefusalIsDeserved'
  BY <1>1 DEF OkInv, RefusalIsDeserved
<1> QED
  BY <1>5, <1>6, <1>8, <1>9

\* A time comes: newer than all, or the chat's rows may be late from now on.
LEMMA MessageTimeInv ==
  ASSUME ExportInv, NEW k \in Jids, MessageTime(k)
  PROVE  ExportInv'
<1>1. /\ UNCHANGED <<disk, fs, phase, outcome, plan, progress, count>>
      /\ phase \in {"idle", "write"} /\ chats' = chats \cup {k}
  BY DEF MessageTime
<1>2. PICK t \in {1, clock, clock + 1} :
        /\ last' = [last EXCEPT ![k] = t]
        /\ coming' = [coming EXCEPT ![k] = IF t > clock THEN "new" ELSE "late"]
        /\ clock' = IF t > clock THEN t ELSE clock
        /\ late' = [late EXCEPT ![k] = IF t < last[k] THEN @ + count[k] ELSE @]
  BY DEF MessageTime
<1>3. TypeOK /\ ChatsInv /\ DiskInv /\ NewInv /\ UnitsInv
  BY DEF ExportInv
<1>4. /\ last \in [Jids -> Nat] /\ count \in [Jids -> Nat] /\ late \in [Jids -> Nat]
      /\ coming \in [Jids -> {"no", "new", "late"}]
      /\ clock \in Nat \ {0} /\ chats \subseteq Jids /\ \A f \in disk : IsFile(f)
      /\ units' = units /\ before' = before
  BY <1>1, <1>3 DEF TypeOK, plan
<1>5. /\ t \in Nat \ {0} /\ clock' \in Nat \ {0} /\ clock <= clock' /\ t <= clock'
  BY <1>2, <1>4
<1>6. /\ last' \in [Jids -> Nat] /\ late' \in [Jids -> Nat]
      /\ coming' \in [Jids -> {"no", "new", "late"}]
      /\ \A j \in Jids \ {k} : /\ last'[j] = last[j] /\ late'[j] = late[j]
                               /\ coming'[j] = coming[j]
      /\ last'[k] = t /\ coming'[k] = IF t > clock THEN "new" ELSE "late"
      /\ late'[k] = IF t < last[k] THEN late[k] + count[k] ELSE late[k]
  BY <1>2, <1>4, <1>5
<1>7. \A j \in Jids : late[j] <= late'[j]
  <2> SUFFICES ASSUME NEW j \in Jids PROVE late[j] <= late'[j]
    OBVIOUS
  <2>1. late[j] \in Nat /\ count[j] \in Nat
    BY <1>4
  <2> QED
    BY <1>6, <2>1
<1>8. TypeOK'
  <2>1. chats' \subseteq Jids
    BY <1>1, <1>4
  <2> QED
    BY <1>1, <1>3, <1>4, <1>5, <1>6, <2>1 DEF TypeOK
<1>9. ChatsInv'
  <2>1. \A j \in Jids \ chats' : count'[j] = 0 /\ last'[j] = 0 /\ coming'[j] = "no"
    BY <1>1, <1>3, <1>6 DEF ChatsInv
  <2>2. ASSUME NEW j \in Jids PROVE last'[j] <= clock'
    <3>1. last[j] <= clock /\ last[j] \in Nat
      BY <1>3, <1>4 DEF ChatsInv
    <3> QED
      BY <1>4, <1>5, <1>6, <3>1
  <2> QED
    BY <2>1, <2>2 DEF ChatsInv
<1>10. NewInv'
  <2> SUFFICES ASSUME NEW j \in Jids, coming'[j] = "new"
               PROVE  last'[j] > 0 /\ \A r \in disk \cup units : r.last < last'[j]
    BY <1>1, <1>4 DEF NewInv
  <2>1. CASE j = k
    <3>1. \A r \in disk \cup units : r.last <= clock /\ r.last \in Nat
      BY <1>3, <1>4 DEF DiskInv, UnitsInv, IsFile
    <3>2. t > clock /\ last'[j] = t
      BY <1>6, <2>1
    <3>3. ASSUME NEW r \in disk \cup units PROVE r.last < t
      <4>1. r.last <= clock /\ r.last \in Nat /\ clock \in Nat /\ t \in Nat
        BY <1>4, <1>5, <3>1
      <4> QED
        BY <3>2, <4>1
    <3> QED
      BY <1>5, <3>2, <3>3
  <2>2. CASE j # k
    BY <1>3, <1>6, <2>2 DEF NewInv
  <2> QED
    BY <2>1, <2>2
<1>11. DiskInv'
  <2>1. ASSUME NEW f \in disk, f.jid # NoJid, NEW j \in f.closure, last'[j] <= f.last
        PROVE  f.cut \/ ~(f.holds[j] + (late'[j] - f.late[j]) < count[j])
    <3>1. /\ j \in Jids /\ f.holds[j] \in Nat /\ f.late[j] \in Nat /\ f.last \in Nat
          /\ late[j] \in Nat /\ count[j] \in Nat /\ last[j] \in Nat
          /\ f.late[j] <= late[j] /\ f.last <= clock /\ clock \in Nat
          /\ late'[j] \in Nat /\ late[j] <= late'[j]
      BY <1>3, <1>4, <1>6, <1>7 DEF DiskInv, IsFile
    <3>2. CASE last[j] <= f.last
      <4>1. f.cut \/ ~(f.holds[j] + (late[j] - f.late[j]) < count[j])
        BY <1>3, <2>1, <3>2 DEF DiskInv, Lacks
      <4> QED
        BY <3>1, <4>1
    <3>3. CASE ~(last[j] <= f.last)
      <4>1. j = k
        BY <1>6, <2>1, <3>1, <3>3
      <4>2. t < last[k]
        BY <1>5, <1>6, <2>1, <3>1, <3>3, <4>1
      <4>3. late'[j] = late[j] + count[j]
        BY <1>6, <4>1, <4>2
      <4> QED
        BY <3>1, <4>3
    <3> QED
      BY <3>2, <3>3
  <2>2. ASSUME NEW f \in disk
        PROVE  f.last <= clock' /\ \A j \in Jids : f.late[j] <= late'[j]
    <3>1. /\ f.last <= clock /\ f.last \in Nat
          /\ \A j \in Jids : f.late[j] <= late[j] /\ f.late[j] \in Nat
      BY <1>3, <1>4 DEF DiskInv, IsFile
    <3>2. f.last <= clock'
      BY <1>4, <1>5, <3>1
    <3>3. ASSUME NEW j \in Jids PROVE f.late[j] <= late'[j]
      <4>1. /\ f.late[j] <= late[j] /\ late[j] <= late'[j]
            /\ f.late[j] \in Nat /\ late[j] \in Nat /\ late'[j] \in Nat
        BY <1>4, <1>6, <1>7, <3>1
      <4> QED
        BY <4>1
    <3> QED
      BY <3>2, <3>3
  <2>3. \A f, g \in disk : KeyOn(fs, f.name) = KeyOn(fs, g.name) => f = g
    BY <1>3 DEF DiskInv, FsKey
  <2> QED
    BY <1>1, <2>1, <2>2, <2>3 DEF DiskInv, FsKey, Lacks
<1>12. UnitsInv'
  <2>1. ASSUME NEW u \in units
        PROVE  /\ u.last <= clock' /\ \A j \in u.closure : u.late[j] <= late'[j]
               /\ \A j \in u.closure \ u.members :
                    last'[j] > u.last \/ u.late[j] + count[j] <= late'[j]
    <3>1. /\ u.closure \subseteq Jids /\ u.last \in Nat /\ u.last <= clock
          /\ u.late \in [u.closure -> Nat] /\ \A j \in u.closure : u.late[j] <= late[j]
          /\ \A j \in u.closure \ u.members :
               last[j] > u.last \/ u.late[j] + count[j] <= late[j]
      BY <1>3 DEF UnitsInv
    <3>2. u.last <= clock'
      BY <1>4, <1>5, <3>1
    <3>3. ASSUME NEW j \in u.closure
          PROVE  /\ j \in Jids /\ u.late[j] \in Nat /\ late[j] \in Nat /\ late'[j] \in Nat
                 /\ count[j] \in Nat /\ last[j] \in Nat
                 /\ u.late[j] <= late[j] /\ late[j] <= late'[j]
      BY <1>4, <1>6, <1>7, <3>1
    <3>4. \A j \in u.closure : u.late[j] <= late'[j]
      <4> SUFFICES ASSUME NEW j \in u.closure PROVE u.late[j] <= late'[j]
        OBVIOUS
      <4> QED
        BY <3>3
    <3>5. ASSUME NEW j \in u.closure \ u.members
          PROVE  last'[j] > u.last \/ u.late[j] + count[j] <= late'[j]
      <4>1. /\ j \in Jids /\ u.late[j] \in Nat /\ late[j] \in Nat /\ late'[j] \in Nat
            /\ count[j] \in Nat /\ last[j] \in Nat
            /\ u.late[j] <= late[j] /\ late[j] <= late'[j]
            /\ last[j] > u.last \/ u.late[j] + count[j] <= late[j]
        BY <3>1, <3>3
      <4>2. CASE j # k
        BY <1>6, <4>1, <4>2
      <4>3. CASE j = k /\ t < last[k]
        <5>1. late'[j] = late[j] + count[j]
          BY <1>6, <4>3
        <5> QED
          BY <4>1, <5>1
      <4>4. CASE j = k /\ ~(t < last[k])
        <5>1. last'[j] = t /\ last[j] <= t /\ late'[j] = late[j]
          BY <1>5, <1>6, <4>1, <4>4
        <5> QED
          BY <1>5, <3>1, <4>1, <5>1
      <4> QED
        BY <4>2, <4>3, <4>4
    <3> QED
      BY <3>2, <3>4, <3>5
  <2>2. \A u \in units : u.members \subseteq chats'
    BY <1>1, <1>3 DEF UnitsInv
  <2> QED
    BY <1>1, <1>3, <1>4, <2>1, <2>2 DEF UnitsInv
<1>13. PlanInv' /\ SkipInv' /\ WriteInv' /\ OkInv' /\ RefusalIsDeserved'
  BY <1>1, <1>6, <1>7, MessagesStay
<1> QED
  BY <1>8, <1>9, <1>10, <1>11, <1>12, <1>13 DEF ExportInv

\* A row comes: it is late, or its chat is newer than all there is.
LEMMA MessageRowInv ==
  ASSUME ExportInv, NEW k \in Jids, MessageRow(k)
  PROVE  ExportInv'
<1>1. /\ UNCHANGED <<disk, fs, phase, outcome, plan, progress, chats, last, clock>>
      /\ phase \in {"idle", "write"} /\ coming[k] # "no"
      /\ count' = [count EXCEPT ![k] = @ + 1]
      /\ late' = [late EXCEPT ![k] = IF coming[k] = "late" THEN @ + 1 ELSE @]
      /\ coming' = [coming EXCEPT ![k] = "no"]
  BY DEF MessageRow
<1>2. TypeOK /\ ChatsInv /\ DiskInv /\ NewInv /\ UnitsInv
  BY DEF ExportInv
<1>3. /\ last \in [Jids -> Nat] /\ count \in [Jids -> Nat] /\ late \in [Jids -> Nat]
      /\ coming \in [Jids -> {"no", "new", "late"}]
      /\ clock \in Nat \ {0} /\ \A f \in disk : IsFile(f)
      /\ units' = units /\ before' = before
  BY <1>1, <1>2 DEF TypeOK, plan
<1>4. /\ count' \in [Jids -> Nat] /\ late' \in [Jids -> Nat]
      /\ coming' \in [Jids -> {"no", "new", "late"}]
      /\ \A j \in Jids \ {k} : /\ count'[j] = count[j] /\ late'[j] = late[j]
                               /\ coming'[j] = coming[j]
      /\ count'[k] = count[k] + 1 /\ coming'[k] = "no"
      /\ \/ late'[k] = late[k] + 1
         \/ late'[k] = late[k] /\ coming[k] = "new"
  BY <1>1, <1>3
<1>5. \A j \in Jids : late[j] <= late'[j] /\ count[j] <= count'[j]
  <2> SUFFICES ASSUME NEW j \in Jids PROVE late[j] <= late'[j] /\ count[j] <= count'[j]
    OBVIOUS
  <2>1. late[j] \in Nat /\ count[j] \in Nat
    BY <1>3
  <2> QED
    BY <1>4, <2>1
<1>6. TypeOK'
  BY <1>1, <1>2, <1>3, <1>4 DEF TypeOK
<1>7. ChatsInv'
  <2>1. k \in chats
    BY <1>1, <1>2 DEF ChatsInv
  <2> QED
    BY <1>1, <1>2, <1>4, <2>1 DEF ChatsInv
<1>8. NewInv'
  BY <1>1, <1>2, <1>3, <1>4 DEF NewInv
<1>9. coming[k] = "new" => \A r \in disk \cup units : r.last < last[k]
  BY <1>2 DEF NewInv
<1>10. DiskInv'
  <2>1. ASSUME NEW f \in disk, f.jid # NoJid, NEW j \in f.closure, last[j] <= f.last
        PROVE  f.cut \/ ~(f.holds[j] + (late'[j] - f.late[j]) < count'[j])
    <3>1. /\ j \in Jids /\ f.holds[j] \in Nat /\ f.late[j] \in Nat /\ f.last \in Nat
          /\ late[j] \in Nat /\ count[j] \in Nat /\ last[j] \in Nat
      BY <1>2, <1>3 DEF DiskInv, IsFile
    <3>2. f.cut \/ ~(f.holds[j] + (late[j] - f.late[j]) < count[j])
      BY <1>2, <2>1 DEF DiskInv, Lacks
    <3>3. \/ late'[j] = late[j] /\ count'[j] = count[j]
          \/ late'[j] = late[j] + 1 /\ count'[j] = count[j] + 1
      <4>1. CASE j # k
        BY <1>4, <3>1, <4>1
      <4>2. CASE j = k
        <5>1. coming[k] # "new"
          BY <1>9, <2>1, <3>1, <4>2
        <5> QED
          BY <1>4, <4>2, <5>1
      <4> QED
        BY <4>1, <4>2
    <3> QED
      BY <3>1, <3>2, <3>3
  <2>2. ASSUME NEW f \in disk, NEW j \in Jids PROVE f.late[j] <= late'[j]
    <3>1. /\ f.late[j] <= late[j] /\ late[j] <= late'[j]
          /\ f.late[j] \in Nat /\ late[j] \in Nat /\ late'[j] \in Nat
      BY <1>2, <1>3, <1>4, <1>5 DEF DiskInv, IsFile
    <3> QED
      BY <3>1
  <2>3. /\ \A f, g \in disk : KeyOn(fs, f.name) = KeyOn(fs, g.name) => f = g
        /\ \A f \in disk : f.last <= clock
    BY <1>2 DEF DiskInv, FsKey
  <2> QED
    BY <1>1, <2>1, <2>2, <2>3 DEF DiskInv, FsKey, Lacks
<1>11. UnitsInv'
  <2>1. ASSUME NEW u \in units
        PROVE  /\ \A j \in u.members : u.counts[j] <= count'[j]
               /\ \A j \in u.closure : u.late[j] <= late'[j]
               /\ \A j \in u.closure \ u.members :
                    last[j] > u.last \/ u.late[j] + count'[j] <= late'[j]
    <3>1. /\ u.members \subseteq u.closure /\ u.closure \subseteq Jids /\ u.last \in Nat
          /\ u.late \in [u.closure -> Nat] /\ \A j \in u.closure : u.late[j] <= late[j]
          /\ \A j \in u.members : u.counts[j] \in Nat /\ u.counts[j] <= count[j]
          /\ \A j \in u.closure \ u.members :
               last[j] > u.last \/ u.late[j] + count[j] <= late[j]
      BY <1>2 DEF UnitsInv
    <3>2. ASSUME NEW j \in u.closure
          PROVE  /\ j \in Jids /\ u.late[j] \in Nat /\ late[j] \in Nat /\ late'[j] \in Nat
                 /\ count[j] \in Nat /\ count'[j] \in Nat /\ last[j] \in Nat
                 /\ u.late[j] <= late[j] /\ late[j] <= late'[j] /\ count[j] <= count'[j]
      BY <1>3, <1>4, <1>5, <3>1
    <3>3. ASSUME NEW j \in u.members PROVE u.counts[j] <= count'[j]
      <4>1. /\ u.counts[j] \in Nat /\ u.counts[j] <= count[j] /\ count[j] <= count'[j]
            /\ count[j] \in Nat /\ count'[j] \in Nat
        BY <3>1, <3>2
      <4> QED
        BY <4>1
    <3>4. ASSUME NEW j \in u.closure PROVE u.late[j] <= late'[j]
      BY <3>2
    <3>5. ASSUME NEW j \in u.closure \ u.members
          PROVE  last[j] > u.last \/ u.late[j] + count'[j] <= late'[j]
      <4>1. /\ j \in Jids /\ u.late[j] \in Nat /\ late[j] \in Nat /\ count[j] \in Nat
            /\ last[j] > u.last \/ u.late[j] + count[j] <= late[j]
        BY <3>1, <3>2
      <4>2. CASE j # k
        BY <1>4, <4>1, <4>2
      <4>3. CASE j = k /\ coming[k] = "new"
        <5>1. u.last < last[j]
          BY <1>9, <4>3
        <5>2. last[j] \in Nat
          BY <3>2
        <5> QED
          BY <3>1, <5>1, <5>2
      <4>4. CASE j = k /\ coming[k] # "new"
        <5>1. late'[j] = late[j] + 1 /\ count'[j] = count[j] + 1
          BY <1>4, <4>4
        <5> QED
          BY <4>1, <5>1
      <4> QED
        BY <4>2, <4>3, <4>4
    <3> QED
      BY <3>3, <3>4, <3>5
  <2> QED
    BY <1>1, <1>2, <1>3, <2>1 DEF UnitsInv
<1>12. PlanInv' /\ SkipInv' /\ WriteInv' /\ OkInv' /\ RefusalIsDeserved'
  BY <1>1, <1>4, <1>5, MessagesStay
<1> QED
  BY <1>6, <1>7, <1>8, <1>10, <1>11, <1>12 DEF ExportInv

LEMMA StartInv ==
  ASSUME ExportInv, NEW flags, StartExport(flags)
  PROVE  ExportInv'
<1> DEFINE us == Eligible(flags)
           made == PlanFor(us, disk)
<1>1. /\ UNCHANGED <<chats, last, count, clock, late, disk, fs>>
      /\ before' = disk /\ units' = us /\ file' = made.names
      /\ made.residue # {} => phase' = "done" /\ outcome' = "refused"
      /\ made.residue = {} => phase' = "heal" /\ outcome' = "none"
      /\ result' = [p \in DOMAIN made.names |-> "todo"]
      /\ coming' = [j \in Jids |-> IF coming[j] = "new" THEN "late" ELSE coming[j]]
  BY DEF StartExport
<1>2. TypeOK /\ ChatsInv /\ DiskInv
  BY DEF ExportInv
<1>3. TypeOK' /\ ChatsInv' /\ DiskInv'
  <2>1. /\ coming' \in [Jids -> {"no", "new", "late"}]
        /\ \A j \in Jids : coming[j] = "no" => coming'[j] = "no"
    BY <1>1, <1>2 DEF TypeOK
  <2>2. /\ phase' \in {"idle", "heal", "write", "done"}
        /\ outcome' \in {"none", "ok", "incomplete", "refused"}
    BY <1>1
  <2> QED
    BY <1>1, <1>2, <2>1, <2>2, DataStay
<1>4. /\ IsFiniteSet(us)
      /\ \A u \in us :
           /\ u.primary \in u.members /\ u.members = u.closure \cap chats
           /\ u.closure \subseteq Jids
           /\ u.last \in Nat /\ u.last <= clock
           /\ u.late = [k \in u.closure |-> late[k]]
           /\ \A k \in u.members : u.counts[k] = count[k] /\ last[k] <= u.last
      /\ \A u, v \in us : u # v => u.closure \cap v.closure = {}
  BY <1>2, PlannedUnits
<1> HIDE DEF us, made
<1>5. \A u, v \in us : u.primary = v.primary => u = v
  BY <1>4
<1>6. /\ DOMAIN made.names = {u.primary : u \in us}
      /\ made.residue # {} => \E u \in us :
           \/ FoldKey(NameAt(u, 2)) \in Taken(us, disk)
           \/ \E v \in us \ {u} : FoldKey(NameAt(v, 2)) = FoldKey(NameAt(u, 2))
  BY <1>4, <1>5, PlanNames DEF made
<1>7. /\ chats \subseteq Jids /\ count \in [Jids -> Nat] /\ last \in [Jids -> Nat]
      /\ late \in [Jids -> Nat] /\ \A f \in disk : IsFile(f)
  BY <1>2 DEF TypeOK
<1>8. UnitsInv'
  <2>1. ASSUME NEW u \in us
        PROVE  /\ u.primary \in u.members /\ u.members \subseteq u.closure
               /\ u.closure \subseteq Jids /\ u.members \subseteq chats
               /\ u.last \in Nat /\ u.last <= clock
               /\ \A j \in u.members : u.counts[j] \in Nat /\ u.counts[j] <= count[j]
               /\ u.late \in [u.closure -> Nat] /\ \A j \in u.closure : u.late[j] <= late[j]
               /\ \A j \in u.closure \ u.members :
                    last[j] > u.last \/ u.late[j] + count[j] <= late[j]
    <3>1. /\ u.primary \in u.members /\ u.members = u.closure \cap chats
          /\ u.closure \subseteq Jids
          /\ u.last \in Nat /\ u.last <= clock
          /\ u.late = [k \in u.closure |-> late[k]]
          /\ \A k \in u.members : u.counts[k] = count[k]
      BY <1>4
    <3>2. \A j \in u.members : count[j] \in Nat
      BY <1>7, <3>1
    <3>3. \A j \in u.members : u.counts[j] \in Nat /\ u.counts[j] <= count[j]
      BY <3>1, <3>2
    <3>4. ASSUME NEW j \in u.closure
          PROVE  u.late[j] = late[j] /\ late[j] \in Nat
      BY <1>7, <3>1
    <3>5. u.late \in [u.closure -> Nat]
      BY <1>7, <3>1
    <3>6. ASSUME NEW j \in u.closure PROVE u.late[j] <= late[j]
      BY <3>4
    <3>7. ASSUME NEW j \in u.closure \ u.members PROVE u.late[j] + count[j] <= late[j]
      <4>1. count[j] = 0
        BY <1>2, <3>1 DEF ChatsInv
      <4> QED
        BY <3>4, <4>1
    <3> QED
      BY <3>1, <3>3, <3>5, <3>6, <3>7
  <2>2. phase' # "idle"
    BY <1>1
  <2> QED
    BY <1>1, <1>4, <2>1, <2>2 DEF UnitsInv
<1>9. PlanInv'
  <2>1. DOMAIN result' = {u.primary : u \in us}
    BY <1>1, <1>6
  <2>2. /\ made.residue # {} => outcome' = "refused" /\ phase' = "done"
        /\ made.residue = {} => outcome' = "none" /\ phase' = "heal"
    BY <1>1
  <2>3. Foreign' \subseteq disk'
    BY <1>1 DEF Foreign
  <2>4. PlanFor(units', before') = made
    BY <1>1 DEF made
  <2> QED
    BY <1>1, <2>1, <2>2, <2>3, <2>4 DEF PlanInv, Planned, Running
<1>10. SkipInv'
  <2>1. ASSUME NEW u \in us, NEW f \in disk, NEW j \in u.members \cap f.closure,
               f.jid # NoJid, f.last >= u.last
        PROVE  ~Lacks(f, j, u.counts[j])
    <3>1. u.counts[j] = count[j] /\ last[j] <= u.last /\ u.last \in Nat /\ j \in Jids
      <4>1. /\ u.members = u.closure \cap chats /\ u.closure \subseteq Jids
            /\ u.last \in Nat
        BY <1>4, Zenon
      <4>2. \A k \in u.members : u.counts[k] = count[k] /\ last[k] <= u.last
        BY <1>4, Zenon
      <4>3. j \in u.members
        OBVIOUS
      <4> QED
        BY <4>1, <4>2, <4>3
    <3>2. last[j] \in Nat /\ f.last \in Nat
      BY <1>7, <3>1 DEF IsFile
    <3>3. last[j] <= f.last
      BY <2>1, <3>1, <3>2
    <3> QED
      BY <1>2, <2>1, <3>1, <3>3 DEF DiskInv
  <2> QED
    BY <1>1, <2>1 DEF SkipInv, Lacks
<1>11. WriteInv'
  <2>1. \A u \in us : result'[u.primary] = "todo"
    BY <1>1, <1>6
  <2>2. phase' # "write"
    BY <1>1
  <2> QED
    BY <1>1, <2>1, <2>2 DEF WriteInv, Running
<1>12. OkInv'
  BY <1>1 DEF OkInv
<1>13. RefusalIsDeserved'
  BY <1>1, <1>6 DEF RefusalIsDeserved
<1>14. NewInv'
  <2>1. \A j \in Jids : coming'[j] # "new"
    BY <1>1, <1>2 DEF TypeOK
  <2> QED
    BY <2>1 DEF NewInv
<1> QED
  BY <1>3, <1>8, <1>9, <1>10, <1>11, <1>12, <1>13, <1>14 DEF ExportInv

LEMMA HealInv ==
  ASSUME ExportInv, NEW u \in units, Heal(u)
  PROVE  ExportInv'
<1>1. /\ UNCHANGED <<chats, last, count, clock, coming, late, fs, phase, outcome, units, file,
                     before, result>>
      /\ phase = "heal"
      /\ \/ disk' = disk
         \/ /\ Target(u) = {}
            /\ \E failed : \E f \in OldFiles(u, failed) :
                 disk' = (disk \ {f}) \cup {[f EXCEPT !.name = Path(u)]}
  BY DEF Heal, db, plan
<1>2. TypeOK /\ ChatsInv /\ DiskInv /\ NewInv /\ UnitsInv /\ PlanInv /\ SkipInv /\ WriteInv
  BY DEF ExportInv
<1>3. \A f \in disk : IsFile(f) /\ f.last <= clock /\ \A j \in Jids : f.late[j] <= late[j]
  BY <1>2 DEF TypeOK, DiskInv
\* The directory after the step: one of the unit's own files may have moved.
<1>4. /\ DiskInv' /\ \A f \in disk' : IsFile(f)
      /\ \A f \in disk' : \/ f \in disk
                          \/ /\ f.jid \in MembersOf(units)
                             /\ \E g \in disk : /\ g.jid = f.jid /\ g.closure = f.closure
                                                /\ g.last = f.last /\ g.holds = f.holds
                                                /\ g.late = f.late /\ g.cut = f.cut
      /\ \A f \in disk : f.jid \notin MembersOf(units) => f \in disk'
  <2>1. CASE disk' = disk
    BY <1>1, <1>2, <1>3, <2>1 DEF DiskInv, FsKey, Lacks
  <2>2. ASSUME Target(u) = {}, NEW failed, NEW f \in OldFiles(u, failed),
               disk' = (disk \ {f}) \cup {[f EXCEPT !.name = Path(u)]}
        PROVE  /\ DiskInv' /\ \A h \in disk' : IsFile(h)
               /\ \A h \in disk' :
                    \/ h \in disk
                    \/ /\ h.jid \in MembersOf(units)
                       /\ \E g \in disk : /\ g.jid = h.jid /\ g.closure = h.closure
                                          /\ g.last = h.last /\ g.holds = h.holds
                                          /\ g.late = h.late /\ g.cut = h.cut
               /\ \A h \in disk : h.jid \notin MembersOf(units) => h \in disk'
    <3> DEFINE g == [f EXCEPT !.name = Path(u)]
    <3>1. f \in disk /\ f.jid \in u.members /\ f.jid \in MembersOf(units)
      BY DEF OldFiles, MembersOf
    <3>2. /\ IsFile(g) /\ g.name = Path(u) /\ g.jid = f.jid /\ g.closure = f.closure
          /\ g.last = f.last /\ g.holds = f.holds /\ g.late = f.late /\ g.cut = f.cut
      BY <1>3, <3>1 DEF IsFile
    <3>3. disk' = (disk \ {f}) \cup {g}
      BY <2>2
    <3> HIDE DEF g
    <3>4. \A h \in disk : FsKey(h.name) # FsKey(Path(u))
      BY <2>2 DEF Target, Resolve
    <3>5. g.jid # NoJid => \A j \in g.closure : last[j] <= g.last => ~Lacks(g, j, count[j])
      BY <1>2, <3>1, <3>2 DEF DiskInv, Lacks
    <3>6. DiskInv' /\ \A h \in disk' : IsFile(h)
      <4>1. /\ disk \ {f} \in SUBSET disk
            /\ \A h \in disk \ {f} : FsKey(h.name) # FsKey(g.name)
            /\ g.last <= clock /\ \A j \in Jids : g.late[j] <= late[j]
        BY <1>3, <3>1, <3>2, <3>4
      <4>2. UNCHANGED <<last, count, clock, late, fs>> /\ TypeOK /\ DiskInv /\ IsFile(g)
        BY <1>1, <1>2, <3>2
      <4> QED
        BY <3>3, <3>5, <4>1, <4>2, OneFile
    <3> QED
      BY <3>1, <3>2, <3>3, <3>6
  <2> QED
    BY <1>1, <2>1, <2>2
<1>5. TypeOK' /\ ChatsInv'
  BY <1>1, <1>2, <1>4, TypeStays DEF TypeOK
<1>6. UnitsInv'
  BY <1>1, <1>2 DEF UnitsInv
<1>7. PlanInv'
  <2>1. Foreign' = Foreign
    BY <1>1 DEF Foreign
  <2>2. Foreign \subseteq disk
    BY <1>1, <1>2 DEF PlanInv, Planned, Running
  <2>3. Foreign' \subseteq disk'
    BY <1>4, <2>1, <2>2 DEF Foreign
  <2> QED
    BY <1>1, <1>2, <2>3 DEF PlanInv, Planned, Running
<1>8. SkipInv'
  <2>1. Running
    BY <1>1 DEF Running
  <2>2. ASSUME NEW v \in units, NEW f \in disk', NEW j \in v.members \cap f.closure,
               f.jid # NoJid, f.last >= v.last
        PROVE  ~Lacks(f, j, v.counts[j])
    <3>1. PICK g \in disk : /\ g.jid = f.jid /\ g.closure = f.closure
                            /\ g.last = f.last /\ g.holds = f.holds /\ g.late = f.late
                            /\ g.cut = f.cut
      BY <1>4
    <3>2. ~Lacks(g, j, v.counts[j])
      BY <1>2, <2>1, <2>2, <3>1 DEF SkipInv
    <3> QED
      BY <3>1, <3>2 DEF Lacks
  <2> QED
    BY <1>1, <2>2 DEF SkipInv, Lacks
<1>9. WriteInv'
  <2>1. /\ \A v \in units : result[v.primary] = "todo"
        /\ \A f \in disk : f.jid \notin MembersOf(units) => f \in before
    BY <1>1, <1>2 DEF WriteInv, Running
  <2>2. \A f \in disk' : f.jid \notin MembersOf(units) => f \in before
    BY <1>4, <2>1
  <2> QED
    BY <1>1, <2>1, <2>2 DEF WriteInv, Running
<1>10. OkInv' /\ RefusalIsDeserved'
  BY <1>1 DEF OkInv, RefusalIsDeserved
<1>11. NewInv'
  BY <1>1, <1>2, <1>4, NewStays
<1> QED
  BY <1>4, <1>5, <1>6, <1>7, <1>8, <1>9, <1>10, <1>11 DEF ExportInv

\* What the guard lets through does not lead to a foreign file.
LEMMA GuardInv ==
  ASSUME ExportInv, GuardAliases
  PROVE  ExportInv'
<1>1. /\ UNCHANGED <<chats, last, count, clock, coming, late, disk, fs, outcome, units, file, before>>
      /\ phase = "heal" /\ phase' = "write"
      /\ result' = [p \in DOMAIN result |->
                      IF \E u \in units : u.primary = p /\ WouldDestroy(u)
                      THEN "dropped" ELSE "todo"]
  BY DEF GuardAliases, db, plan
<1>2. TypeOK /\ ChatsInv /\ DiskInv /\ NewInv /\ UnitsInv /\ PlanInv /\ SkipInv /\ WriteInv
  BY DEF ExportInv
<1>3. TypeOK' /\ ChatsInv' /\ DiskInv'
  BY <1>1, <1>2, DataStay DEF TypeOK
<1>4. UnitsInv'
  BY <1>1, <1>2 DEF UnitsInv
<1>5. /\ file = PlanFor(units, before).names
      /\ DOMAIN result = {u.primary : u \in units}
      /\ Foreign \subseteq disk
      /\ PlanFor(units, before).residue = {}
      /\ outcome = "none"
  BY <1>1, <1>2 DEF PlanInv, Planned, Running
<1>6. PlanInv'
  <2>1. DOMAIN result' = {u.primary : u \in units}
    BY <1>1, <1>5
  <2>2. Foreign' \subseteq disk'
    BY <1>1, <1>5 DEF Foreign
  <2> QED
    BY <1>1, <1>5, <2>1, <2>2 DEF PlanInv, Planned, Running
<1>7. SkipInv'
  BY <1>1, <1>2 DEF SkipInv, Running, Lacks
<1>8. ASSUME NEW u \in units
      PROVE  /\ result'[u.primary] \in {"todo", "dropped"}
             /\ result'[u.primary] = "todo" =>
                  \A f \in Foreign : FsKey(f.name) # FsKey(Path(u))
  <2>1. result'[u.primary] = IF \E v \in units : v.primary = u.primary /\ WouldDestroy(v)
                             THEN "dropped" ELSE "todo"
    BY <1>1, <1>5
  <2>2. ASSUME ~WouldDestroy(u), NEW f \in Foreign, FsKey(f.name) = FsKey(Path(u))
        PROVE  FALSE
    <3>1. f \in disk /\ f \in before /\ f.jid \notin MembersOf(units) /\ f \in Target(u)
      BY <1>5, <2>2 DEF Foreign, Target, Resolve
    <3>2. f.jid \notin u.members
      BY <3>1 DEF MembersOf
    <3>3. PICK g \in disk : g.name = Path(u)
      BY <2>2, <3>1, <3>2 DEF WouldDestroy
    <3>4. f.name = Path(u)
      BY <1>2, <2>2, <3>1, <3>3 DEF DiskInv
    <3>5. FoldKey(Path(u)) \in Taken(units, before)
      BY <3>1, <3>4 DEF Taken
    <3>6. FoldKey(Path(u)) \notin Taken(units, before)
      <4>1. IsFiniteSet(units) /\ \A v, w \in units : v.primary = w.primary => v = w
        BY <1>2, Apart
      <4>2. FoldKey(PlanFor(units, before).names[u.primary]) \notin Taken(units, before)
        BY <1>5, <4>1, PlanNames
      <4> QED
        BY <1>5, <4>2 DEF Path
    <3> QED
      BY <3>5, <3>6
  <2> QED
    BY <2>1, <2>2
<1>9. WriteInv'
  <2>1. /\ \A u \in units : result[u.primary] = "todo"
        /\ \A f \in disk : f.jid \notin MembersOf(units) => f \in before
    BY <1>1, <1>2 DEF WriteInv, Running
  <2>2. Foreign' = Foreign /\ \A u : FsKey(Path(u))' = FsKey(Path(u))
    BY <1>1 DEF Foreign, FsKey, Path
  <2>3. \A f \in Foreign : FsKey(f.name)' = FsKey(f.name)
    BY <1>1 DEF FsKey
  <2> QED
    <3>1. \A u \in units : /\ result'[u.primary] \in {"todo", "dropped", "empty"} \cup Landing
                           /\ result'[u.primary] # "empty"
                           /\ result'[u.primary] \notin Landing
      BY <1>8 DEF Landing
    <3>2. \A u \in units : result'[u.primary] = "todo" =>
            \A f \in Foreign' : FsKey(f.name)' # FsKey(Path(u))'
      BY <1>8, <2>2, <2>3
    <3>3. Running' /\ phase' = "write" /\ units' = units /\ before' = before /\ disk' = disk
      BY <1>1 DEF Running
    <3> HIDE DEF Landing
    <3> QED
      BY <2>1, <3>1, <3>2, <3>3 DEF WriteInv
<1>10. OkInv' /\ RefusalIsDeserved'
  BY <1>1 DEF OkInv, RefusalIsDeserved
<1>11. NewInv'
  BY <1>1, <1>2, NewStays
<1> QED
  BY <1>3, <1>4, <1>6, <1>7, <1>9, <1>10, <1>11 DEF ExportInv

\* What a write may do to the others: it replaces only the entry its path leads
\* to, and makes a foreign file of it only if it is dropped.
LEMMA WriteStays ==
  ASSUME UnitsInv, PlanInv, WriteInv, phase = "write",
         NEW u \in units, result[u.primary] = "todo",
         UNCHANGED <<late, fs, phase, outcome, units, file, before>>,
         NEW r \in {"unchanged", "wrote", "dropped", "empty"},
         result' = [result EXCEPT ![u.primary] = r],
         disk \ Target(u) \subseteq disk',
         r # "dropped" => \A f \in disk' \ disk : f.jid \in MembersOf(units),
         r = "empty" => disk' = disk /\ ~HasRows(u),
         r \in Landing => IsExported(u)'
  PROVE  PlanInv' /\ WriteInv'
<1>1. /\ Running /\ Planned /\ file = PlanFor(units, before).names
      /\ DOMAIN result = {v.primary : v \in units}
      /\ Foreign \subseteq disk
      /\ PlanFor(units, before).residue = {} /\ outcome = "none"
  BY DEF PlanInv, Planned, Running
<1>2. /\ result'[u.primary] = r
      /\ \A v \in units : v # u => result'[v.primary] = result[v.primary]
  <2>1. \A v \in units : v # u => v.primary # u.primary
    BY Apart
  <2> QED
    BY <1>1, <2>1
<1>3. /\ \A v \in units :
           /\ result[v.primary] \in {"todo", "dropped", "empty"} \cup Landing
           /\ result[v.primary] = "empty" => ~HasRows(v)
      /\ (\A v \in units : result[v.primary] # "dropped") =>
           \A f \in disk : f.jid \notin MembersOf(units) => f \in before
      /\ \A v \in units : result[v.primary] = "todo" =>
           \A f \in Foreign : FsKey(f.name) # FsKey(Path(v))
      /\ \A v \in units : result[v.primary] \in Landing =>
           \/ IsExported(v)
           \/ \E w \in units \ {v} : /\ FsKey(Path(w)) = FsKey(Path(v))
                                     /\ result[w.primary] \notin {"todo", "empty"}
  BY <1>1 DEF WriteInv
<1>4. Foreign' = Foreign /\ Foreign \subseteq disk'
  <2>1. Foreign' = Foreign
    BY DEF Foreign
  <2>2. Foreign \cap Target(u) = {}
    BY <1>3 DEF Target, Resolve
  <2> QED
    BY <1>1, <2>1, <2>2
<1>5. PlanInv'
  <2>1. DOMAIN result' = {v.primary : v \in units}
    BY <1>1
  <2> QED
    BY <1>1, <1>4, <2>1 DEF PlanInv, Planned, Running
<1>6. /\ \A v : FsKey(Path(v))' = FsKey(Path(v))
      /\ \A f : FsKey(f.name)' = FsKey(f.name)
  BY DEF FsKey, Path
<1>7. \A v \in units :
        /\ result'[v.primary] \in {"todo", "dropped", "empty"} \cup Landing
        /\ result'[v.primary] = "empty" => ~HasRows(v)
  BY <1>2, <1>3 DEF Landing
<1>8. ASSUME \A v \in units : result'[v.primary] # "dropped",
             NEW f \in disk', f.jid \notin MembersOf(units)
      PROVE  f \in before
  <2>1. r # "dropped"
    BY <1>2, <1>8
  <2>2. f \in disk
    BY <1>8, <2>1
  <2>3. \A v \in units : result[v.primary] # "dropped"
    BY <1>2, <1>8
  <2> QED
    BY <1>3, <1>8, <2>2, <2>3
<1>9. \A v \in units : result'[v.primary] = "todo" =>
        \A f \in Foreign : FsKey(f.name) # FsKey(Path(v))
  BY <1>2, <1>3
<1>10. ASSUME NEW v \in units, result'[v.primary] \in Landing
       PROVE  \/ IsExported(v)'
              \/ \E w \in units \ {v} : /\ FsKey(Path(w)) = FsKey(Path(v))
                                        /\ result'[w.primary] \notin {"todo", "empty"}
  <2>1. CASE v = u
    BY <1>2, <1>10, <2>1
  <2>2. CASE v # u
    <3>1. CASE IsExported(v)
      <4>1. PICK f \in Target(v) :
              /\ f.jid \in v.members /\ f.closure = v.closure /\ f.last >= v.last
              /\ \A j \in v.members : ~Lacks(f, j, v.counts[j])
        BY <3>1 DEF IsExported
      <4>2. f \in disk /\ FsKey(f.name) = FsKey(Path(v))
        BY DEF Target, Resolve
      <4>3. CASE f \in Target(u) /\ r # "empty"
        <5>1. FsKey(Path(u)) = FsKey(Path(v))
          BY <4>2, <4>3 DEF Target, Resolve
        <5>2. result'[u.primary] \notin {"todo", "empty"}
          BY <1>2, <4>3
        <5> QED
          BY <2>2, <5>1, <5>2
      <4>4. CASE f \notin Target(u) \/ r = "empty"
        <5>1. f \in disk'
          BY <4>2, <4>4
        <5>2. f \in Target(v)'
          BY <1>6, <4>2, <5>1 DEF Target, Resolve
        <5> QED
          BY <4>1, <5>2 DEF IsExported, Lacks
      <4> QED
        BY <4>3, <4>4
    <3>2. ASSUME NEW w \in units \ {v}, FsKey(Path(w)) = FsKey(Path(v)),
                 result[w.primary] \notin {"todo", "empty"}
          PROVE  result'[w.primary] \notin {"todo", "empty"}
      BY <1>2, <3>2
    <3>3. result[v.primary] \in Landing
      BY <1>2, <1>10, <2>2
    <3> QED
      BY <1>3, <3>1, <3>2, <3>3
  <2> QED
    BY <2>1, <2>2
<1>11. WriteInv'
  <2>1. phase' = "write" /\ units' = units /\ before' = before /\ Foreign' = Foreign
    BY <1>4
  <2>2. \A v \in units : result'[v.primary] = "todo" =>
          \A f \in Foreign' : FsKey(f.name)' # FsKey(Path(v))'
    BY <1>4, <1>6, <1>9
  <2>3. \A v \in units : result'[v.primary] \in Landing =>
          \/ IsExported(v)'
          \/ \E w \in units \ {v} : /\ FsKey(Path(w))' = FsKey(Path(v))'
                                    /\ result'[w.primary] \notin {"todo", "empty"}
    BY <1>6, <1>10
  <2> QED
    BY <1>7, <1>8, <2>1, <2>2, <2>3 DEF WriteInv
<1> QED
  BY <1>5, <1>11

LEMMA WriteStepInv ==
  ASSUME ExportInv, NEW u \in units, Write(u)
  PROVE  ExportInv'
<1>1. /\ UNCHANGED <<chats, last, count, clock, coming, late, fs, phase, outcome, units,
                     file, before>>
      /\ phase = "write" /\ result[u.primary] = "todo"
  BY DEF Write, db, plan
<1>2. /\ TypeOK /\ ChatsInv /\ DiskInv /\ NewInv /\ UnitsInv /\ PlanInv /\ SkipInv
      /\ WriteInv
  BY DEF ExportInv
<1>3. /\ count \in [Jids -> Nat] /\ last \in [Jids -> Nat] /\ late \in [Jids -> Nat]
      /\ clock \in Nat /\ chats \subseteq Jids /\ \A f \in disk : IsFile(f)
  BY <1>2 DEF TypeOK
<1>4. /\ u.primary \in u.members /\ u.members \subseteq u.closure
      /\ u.closure \subseteq Jids /\ u.members \subseteq chats
      /\ u.last \in Nat /\ u.last <= clock
      /\ \A j \in u.members : u.counts[j] \in Nat /\ u.counts[j] <= count[j]
      /\ \A j \in u.closure \ u.members :
           last[j] > u.last \/ u.late[j] + count[j] <= late[j]
      /\ u.late \in [u.closure -> Nat]
  BY <1>2 DEF UnitsInv
<1>5. /\ Running
      /\ \A v \in units : \A f \in disk : \A j \in v.members \cap f.closure :
           f.jid # NoJid /\ f.last >= v.last => ~Lacks(f, j, v.counts[j])
  BY <1>1, <1>2 DEF Running, SkipInv
<1>6. NoJid \notin Jids
  BY ExportAssumption
<1>7. UnitsInv' /\ OkInv' /\ RefusalIsDeserved'
  BY <1>1, <1>2 DEF UnitsInv, OkInv, RefusalIsDeserved
\* Where the directory stays as it is.
<1>8. ASSUME disk' = disk
      PROVE  TypeOK' /\ ChatsInv' /\ DiskInv' /\ NewInv' /\ SkipInv'
  <2>1. TypeOK' /\ ChatsInv' /\ DiskInv'
    BY <1>1, <1>2, <1>8, DataStay DEF TypeOK
  <2>2. NewInv'
    BY <1>1, <1>2, <1>8, NewStays
  <2>3. SkipInv'
    BY <1>1, <1>2, <1>8 DEF SkipInv, Running, Lacks
  <2> QED
    BY <2>1, <2>2, <2>3
<1>9. ASSUME Unchanged(u), disk' = disk,
             result' = [result EXCEPT ![u.primary] = "unchanged"]
      PROVE  ExportInv'
  <2>1. PICK f \in Target(u) :
          f.jid \in u.members /\ f.closure = u.closure /\ f.last >= u.last
    BY <1>9 DEF Unchanged
  <2>2. f \in disk /\ f.jid # NoJid
    BY <1>4, <1>6, <2>1 DEF Target, Resolve
  <2>3. \A j \in u.members : ~Lacks(f, j, u.counts[j])
    BY <1>4, <1>5, <2>1, <2>2
  <2>4. IsExported(u)
    BY <2>1, <2>3 DEF IsExported
  <2>5. IsExported(u)'
    BY <1>1, <1>9, <2>4 DEF IsExported, Lacks, Target, Resolve, FsKey, Path
  <2>6. PlanInv' /\ WriteInv'
    BY <1>1, <1>2, <1>9, <2>5, WriteStays
  <2> QED
    BY <1>7, <1>8, <1>9, <2>6 DEF ExportInv
<1>10. ASSUME \A j \in u.members : count[j] = 0, disk' = disk,
              result' = [result EXCEPT ![u.primary] = "empty"]
       PROVE  ExportInv'
  <2>1. ~HasRows(u)
    <3>1. ASSUME NEW j \in u.members PROVE ~(u.counts[j] > 0)
      <4>1. u.counts[j] \in Nat /\ u.counts[j] <= count[j] /\ count[j] = 0
        BY <1>4, <1>10
      <4> QED
        BY <4>1
    <3> QED
      BY <3>1 DEF HasRows
  <2>2. "empty" \notin Landing
    BY DEF Landing
  <2>3. PlanInv' /\ WriteInv'
    BY <1>1, <1>2, <1>10, <2>1, <2>2, WriteStays
  <2> QED
    BY <1>7, <1>8, <1>10, <2>3 DEF ExportInv
<1>11. ASSUME disk' = (disk \ Target(u)) \cup {Rewritten(u)},
              result' = [result EXCEPT ![u.primary] = "wrote"]
       PROVE  ExportInv'
  <2> DEFINE g == Rewritten(u)
  <2>1. /\ IsFile(g) /\ g.jid = u.primary /\ g.closure = u.closure
        /\ g.last = u.last /\ g.last <= clock /\ ~g.cut
        /\ g.jid \in u.members /\ g.jid \in MembersOf(units) /\ g.jid # NoJid
        /\ \A j \in Jids : g.late[j] <= late[j]
        /\ \A j \in u.members : g.holds[j] = count[j] /\ g.late[j] = late[j]
        /\ \A j \in u.closure \ u.members : g.holds[j] = 0 /\ g.late[j] = u.late[j]
    BY <1>2, RewrittenIs
  <2>2. /\ FsKey(g.name) = FsKey(Path(u))
        /\ \A f \in disk \ Target(u) : FsKey(f.name) # FsKey(g.name)
    BY WriteLands
  <2>3. disk' = (disk \ Target(u)) \cup {g}
    BY <1>11
  <2> HIDE DEF g
  <2>4. ASSUME NEW j \in u.members, NEW n \in Nat, n <= count[j]
        PROVE  ~Lacks(g, j, n)
    <3>1. g.holds[j] = count[j] /\ g.late[j] = late[j] /\ count[j] \in Nat /\ late[j] \in Nat
      BY <1>3, <1>4, <2>1
    <3> QED
      BY <2>4, <3>1 DEF Lacks
  <2>5. ASSUME NEW j \in g.closure, last[j] <= g.last PROVE ~Lacks(g, j, count[j])
    <3>1. j \in u.closure /\ j \in Jids /\ count[j] \in Nat /\ last[j] \in Nat /\ late[j] \in Nat
      BY <1>3, <1>4, <2>1
    <3>2. CASE j \in u.members
      BY <2>4, <3>1, <3>2
    <3>3. CASE j \notin u.members
      <4>1. ~(last[j] > u.last)
        BY <1>4, <2>1, <2>5, <3>1
      <4>2. /\ g.holds[j] = 0 /\ g.late[j] = u.late[j] /\ u.late[j] \in Nat
            /\ u.late[j] + count[j] <= late[j]
        BY <1>4, <2>1, <3>1, <3>3, <4>1
      <4> QED
        BY <3>1, <4>2 DEF Lacks
    <3> QED
      BY <3>2, <3>3
  <2>6. DiskInv' /\ \A f \in disk' : IsFile(f)
    <3>1. disk \ Target(u) \in SUBSET disk
      OBVIOUS
    <3>2. UNCHANGED <<last, count, clock, late, fs>> /\ TypeOK /\ DiskInv
      BY <1>1, <1>2
    <3> QED
      BY <2>1, <2>2, <2>3, <2>5, <3>1, <3>2, OneFile
  <2>7. TypeOK' /\ ChatsInv'
    BY <1>1, <1>2, <2>6, TypeStays DEF TypeOK
  <2>8. NewInv'
    <3>1. \A f \in disk' : \E r \in disk \cup units : f.last = r.last
      BY <2>1, <2>3
    <3> QED
      BY <1>1, <1>2, <3>1, NewStays
  <2>9. SkipInv'
    <3>1. ASSUME NEW v \in units, NEW j \in v.members \cap g.closure
          PROVE  ~Lacks(g, j, v.counts[j])
      <4>1. v.members \subseteq v.closure /\ (v # u => v.closure \cap u.closure = {})
        BY <1>2 DEF UnitsInv
      <4>2. v = u
        BY <2>1, <4>1
      <4>3. u.counts[j] \in Nat /\ u.counts[j] <= count[j]
        BY <1>4, <4>2
      <4> QED
        BY <2>4, <4>2, <4>3
    <3>2. \A v \in units : \A f \in disk' : \A j \in v.members \cap f.closure :
            f.jid # NoJid /\ f.last >= v.last => ~Lacks(f, j, v.counts[j])
      BY <1>5, <2>3, <3>1
    <3> QED
      BY <1>1, <3>2 DEF SkipInv, Running, Lacks
  <2>10. IsExported(u)'
    <3>1. g \in Target(u)'
      BY <1>1, <2>2, <2>3 DEF Target, Resolve, FsKey, Path
    <3>2. g.jid \in u.members /\ g.closure = u.closure /\ g.last >= u.last
      BY <1>4, <2>1
    <3>3. \A j \in u.members : ~Lacks(g, j, u.counts[j])
      BY <1>4, <2>4
    <3> QED
      BY <1>1, <3>1, <3>2, <3>3 DEF IsExported, Lacks
  <2>11. PlanInv' /\ WriteInv'
    <3>1. /\ disk \ Target(u) \subseteq disk'
          /\ \A f \in disk' \ disk : f.jid \in MembersOf(units)
      BY <2>1, <2>3
    <3> QED
      BY <1>1, <1>2, <1>11, <2>10, <3>1, WriteStays
  <2> QED
    BY <1>7, <2>6, <2>7, <2>8, <2>9, <2>11 DEF ExportInv
<1>12. ASSUME \/ disk' = disk
              \/ \E t \in Torn(u) : disk' = (disk \ Target(u)) \cup {t},
              result' = [result EXCEPT ![u.primary] = "dropped"]
       PROVE  ExportInv'
  <2>1. disk \ Target(u) \subseteq disk' /\ "dropped" \notin Landing
    BY <1>12 DEF Landing
  <2>2. PlanInv' /\ WriteInv'
    BY <1>1, <1>2, <1>12, <2>1, WriteStays
  <2>3. CASE disk' = disk
    BY <1>7, <1>8, <2>2, <2>3 DEF ExportInv
  <2>4. ASSUME NEW t \in Torn(u), disk' = (disk \ Target(u)) \cup {t}
        PROVE  ExportInv'
    <3>1. /\ DiskInv' /\ \A f \in disk' : IsFile(f)
          /\ t.jid = NoJid \/ t.cut
          /\ t.last = 0 \/ t.last = u.last
      BY <1>1, <1>2, <2>4, TornInv
    <3>2. TypeOK' /\ ChatsInv'
      BY <1>1, <1>2, <3>1, TypeStays DEF TypeOK
    <3>3. NewInv'
      <4>1. \A f \in disk' : f.last = 0 \/ \E r \in disk \cup units : f.last = r.last
        BY <2>4, <3>1
      <4> QED
        BY <1>1, <1>2, <4>1, NewStays
    <3>4. SkipInv'
      <4>1. \A f \in disk' : f \in disk \/ f.jid = NoJid \/ f.cut
        BY <2>4, <3>1
      <4>2. \A v \in units : \A f \in disk' : \A j \in v.members \cap f.closure :
              f.jid # NoJid /\ f.last >= v.last => ~Lacks(f, j, v.counts[j])
        BY <1>5, <4>1 DEF Lacks
      <4> QED
        BY <1>1, <4>2 DEF SkipInv, Running, Lacks
    <3> QED
      BY <1>7, <2>2, <3>1, <3>2, <3>3, <3>4 DEF ExportInv
  <2> QED
    BY <1>12, <2>3, <2>4
<1> QED
  BY <1>9, <1>10, <1>11, <1>12 DEF Write

\* The sweep: units that landed, and of which none shares a file, have theirs.
LEMMA FinishInv ==
  ASSUME ExportInv, Finish
  PROVE  ExportInv'
<1>1. /\ UNCHANGED <<chats, last, count, clock, coming, late, disk, fs, units, file, before,
                     result>>
      /\ phase = "write" /\ phase' = "done"
      /\ \A p \in DOMAIN result : result[p] # "todo"
      /\ outcome' \in {"ok", "incomplete"}
      /\ outcome' = "ok" => /\ \A p \in DOMAIN result : result[p] # "dropped"
                            /\ \A u \in Landed : Target(u) # {}
                            /\ Aliased = {}
  BY DEF Finish, db, plan, progress
<1>2. TypeOK /\ ChatsInv /\ DiskInv /\ NewInv /\ UnitsInv /\ PlanInv /\ SkipInv /\ WriteInv
  BY DEF ExportInv
<1>3. TypeOK' /\ ChatsInv' /\ DiskInv'
  BY <1>1, <1>2, DataStay DEF TypeOK
<1>4. UnitsInv'
  BY <1>1, <1>2 DEF UnitsInv
<1>5. /\ file = PlanFor(units, before).names
      /\ DOMAIN result = {u.primary : u \in units}
      /\ Foreign \subseteq disk
      /\ PlanFor(units, before).residue = {}
  BY <1>1, <1>2 DEF PlanInv, Planned, Running
<1>6. PlanInv'
  <2>1. Foreign' \subseteq disk'
    BY <1>1, <1>5 DEF Foreign
  <2> QED
    BY <1>1, <1>5, <2>1 DEF PlanInv, Planned, Running
<1>7. SkipInv' /\ WriteInv' /\ RefusalIsDeserved'
  BY <1>1 DEF SkipInv, WriteInv, RefusalIsDeserved, Running
<1>8. ASSUME outcome' = "ok"
      PROVE  /\ \A u \in units : HasRows(u) => IsExported(u)
             /\ \A u, v \in units :
                  u # v /\ HasRows(u) /\ HasRows(v) => Target(u) # Target(v)
             /\ Taken(units, disk) = Taken(units, before)
  <2>1. /\ \A u \in units :
             /\ result[u.primary] \in {"todo", "dropped", "empty"} \cup Landing
             /\ result[u.primary] = "empty" => ~HasRows(u)
        /\ (\A u \in units : result[u.primary] # "dropped") =>
             \A f \in disk : f.jid \notin MembersOf(units) => f \in before
        /\ \A u \in units : result[u.primary] \in Landing =>
             \/ IsExported(u)
             \/ \E v \in units \ {u} : /\ FsKey(Path(v)) = FsKey(Path(u))
                                       /\ result[v.primary] \notin {"todo", "empty"}
    BY <1>1, <1>2 DEF WriteInv, Running
  <2>2. \A u \in units : result[u.primary] # "dropped" /\ result[u.primary] # "todo"
    BY <1>1, <1>5, <1>8
  <2>3. \A u \in units : result[u.primary] # "empty" => u \in Landed
    BY <2>1, <2>2 DEF Landed, Landing
  <2>4. \A u, v \in Landed : u # v => Target(u) # Target(v)
    <3>1. Aliased = {}
      BY <1>1, <1>8
    <3> SUFFICES ASSUME NEW u \in Landed, NEW v \in Landed, u # v, Target(u) = Target(v)
                 PROVE  u \in Aliased
      BY <3>1
    <3> QED
      BY DEF Aliased
  <2>5. \A u \in units : HasRows(u) => u \in Landed /\ result[u.primary] \in Landing
    BY <2>1, <2>2, <2>3
  <2>6. ASSUME NEW u \in units, HasRows(u), ~IsExported(u) PROVE FALSE
    <3>1. PICK v \in units \ {u} : /\ FsKey(Path(v)) = FsKey(Path(u))
                                   /\ result[v.primary] \notin {"todo", "empty"}
      BY <2>1, <2>5, <2>6
    <3>2. Target(v) = Target(u)
      BY <3>1 DEF Target, Resolve
    <3>3. v \in Landed /\ u \in Landed
      BY <2>3, <2>5, <2>6, <3>1
    <3> QED
      BY <2>4, <3>1, <3>2, <3>3
  <2>7. \A f \in disk : f.jid \notin MembersOf(units) => f \in before
    BY <2>1, <2>2
  <2>8. Taken(units, disk) = Taken(units, before)
    BY <1>5, <2>7 DEF Taken, Foreign
  <2> QED
    BY <2>4, <2>5, <2>6, <2>8
<1>9. OkInv'
  BY <1>1, <1>8 DEF OkInv, IsExported, Lacks, Target, Resolve, FsKey, Path
<1>10. NewInv'
  BY <1>1, <1>2, NewStays
<1> QED
  BY <1>3, <1>4, <1>6, <1>7, <1>9, <1>10 DEF ExportInv

LEMMA StutterInv ==
  ASSUME ExportInv, UNCHANGED vars
  PROVE  ExportInv'
<1>1. UNCHANGED <<chats, name, last, count, clock, edges, coming, disk, fs, phase,
                  outcome, filters, units, file, unhealed, healed, result, before, late>>
  BY DEF vars
<1>2. TypeOK' /\ ChatsInv' /\ NewInv' /\ UnitsInv'
  BY <1>1 DEF ExportInv, TypeOK, ChatsInv, NewInv, UnitsInv
<1>3. DiskInv' /\ SkipInv'
  BY <1>1 DEF ExportInv, DiskInv, SkipInv, Lacks, FsKey, Running
<1>4. PlanInv'
  BY <1>1 DEF ExportInv, PlanInv, Planned, Running, Foreign
<1>5. WriteInv'
  BY <1>1 DEF ExportInv, WriteInv, Running, Foreign, IsExported, Lacks, Target, Resolve, FsKey, Path
<1>6. OkInv' /\ RefusalIsDeserved'
  BY <1>1 DEF ExportInv, OkInv, RefusalIsDeserved, IsExported, Lacks, Target, Resolve, FsKey, Path
<1> QED
  BY <1>2, <1>3, <1>4, <1>5, <1>6 DEF ExportInv

-----------------------------------------------------------------------------
(* The theorems.                                                           *)

\* The inductive invariant of the export holds, whatever the database and the
\* directory: ExportVault, its renames, its guard, its writes and its sweep,
\* with messages, notes, renames, aliases, failures and kills in between.
THEOREM ExportInvariant == Spec => []ExportInv
<1>1. Init => ExportInv
  BY InitInv
<1>2. ExportInv /\ [Next]_vars => ExportInv'
  <2> SUFFICES ASSUME ExportInv, [Next]_vars PROVE ExportInv'
    OBVIOUS
  <2>1. ASSUME NEW f \in Flags, StartExport(f) PROVE ExportInv'
    BY <2>1, StartInv
  <2>2. ASSUME NEW u \in units, Heal(u) PROVE ExportInv'
    BY <2>2, HealInv
  <2>3. ASSUME NEW u \in units, Write(u) PROVE ExportInv'
    BY <2>3, WriteStepInv
  <2>4. CASE GuardAliases
    BY <2>4, GuardInv
  <2>5. CASE Finish
    BY <2>5, FinishInv
  <2>6. CASE Kill \/ Exit
    BY <2>6, KillInv
  <2>7. ASSUME NEW j \in Jids, MessageTime(j) \/ MessageRow(j) PROVE ExportInv'
    BY <2>7, MessageTimeInv, MessageRowInv
  <2>8. ASSUME NEW j \in Jids, HistoryArrives(j) PROVE ExportInv'
    BY <2>8, HistoryInv
  <2>9. CASE (\E j \in Jids : Rename(j)) \/ LearnAlias
    BY <2>9, RenameInv
  <2>10. ASSUME NEW j \in Jids, RemoveChat(j) PROVE ExportInv'
    BY <2>10, RemoveChatInv
  <2>11. CASE OwnerWrites
    BY <2>11, OwnerInv
  <2>12. CASE UNCHANGED vars
    BY <2>12, StutterInv
  <2> QED
    BY <2>1, <2>2, <2>3, <2>4, <2>5, <2>6, <2>7, <2>8, <2>9, <2>10, <2>11, <2>12 DEF Next
<1> QED
  BY <1>1, <1>2, PTL DEF Spec

\* An export that reports no error left a file for every chat of its plan, with
\* all that the plan counted, no two in one file, and the audit plans the same
\* names and finds none missing: rc=0 means complete (export_vault.go).
THEOREM ExportsComplete == Spec => []RunIsComplete
<1>1. ExportInv => RunIsComplete
  <2> SUFFICES ASSUME ExportInv, phase = "done", outcome = "ok"
               PROVE  /\ \A u \in units : HasRows(u) => IsExported(u)
                      /\ \A u, v \in units :
                           u # v /\ HasRows(u) /\ HasRows(v) => Target(u) # Target(v)
                      /\ AuditAgrees
    BY DEF RunIsComplete
  <2>1. /\ \A u \in units : HasRows(u) => IsExported(u)
        /\ \A u, v \in units :
             u # v /\ HasRows(u) /\ HasRows(v) => Target(u) # Target(v)
        /\ Taken(units, disk) = Taken(units, before)
    BY DEF ExportInv, OkInv
  <2>2. PlanFor(units, disk).names = file
    <3>1. PlanFor(units, disk) = PlanFor(units, before)
      BY <2>1, PlanSeesTaken
    <3> QED
      BY <3>1 DEF ExportInv, PlanInv, Planned
  <2>3. ASSUME NEW u \in units, HasRows(u) PROVE ~Missing(u) /\ ~WouldDestroy(u)
    <3>1. PICK f \in Target(u) : f.jid \in u.members
      BY <2>1, <2>3 DEF IsExported
    <3>2. f \in disk /\ \A g \in Target(u) : g = f
      BY DEF Target, Resolve, ExportInv, DiskInv
    <3>3. f.jid # NoJid
      BY <3>1, ExportAssumption DEF ExportInv, UnitsInv
    <3>4. f \in Claims(f.jid)
      BY <3>2, <3>3 DEF Claims
    <3> QED
      BY <3>1, <3>2, <3>4 DEF Missing, WouldDestroy
  <2> QED
    BY <2>1, <2>2, <2>3 DEF AuditAgrees
<1> QED
  BY <1>1, ExportInvariant, PTL

\* While an export runs and when it has ended, every file it does not manage -
\* of a chat it left out, of one that is gone, the owner's own - is as it was
\* when the plan was made (healLegacyFilenames, the alias guard, writeUnit).
THEOREM ForeignFilesStay == Spec => []ForeignFilesSurvive
<1>1. ExportInv => ForeignFilesSurvive
  BY DEF ExportInv, PlanInv, Planned, Foreign, ForeignFilesSurvive
<1> QED
  BY <1>1, ExportInvariant, PTL

\* assignFilenames gives up only on names that clash with the whole JID in them.
THEOREM RefusalsDeserved == Spec => []RefusalIsDeserved
<1>1. ExportInv => RefusalIsDeserved
  BY DEF ExportInv
<1> QED
  BY <1>1, ExportInvariant, PTL
=============================================================================
