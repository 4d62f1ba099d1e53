---------------------------- MODULE StoreProofs -----------------------------
(***************************************************************************)
(* Proofs about Store, for any number of processes, accounts, keys and     *)
(* starts: a recorded migration is whole wherever processes may overlap;   *)
(* no key is lost and none minted beside a store, if processes overlap     *)
(* only where the write of a key is create-only.  And about Backup, which  *)
(* takes snapshots of the store, for every interval, delay and retention:  *)
(* what is published is whole, the newest snapshot is kept, and a run that *)
(* has not failed has a fresh one.                                         *)
(***************************************************************************)
EXTENDS Store, Backup, FiniteSetTheorems, TLAPS

\* How many columns each migration adds.
LEMMA AltersAre ==
  /\ \A v \in Versions : Alters[v] \in 0 .. 7
  /\ \A v \in Wrapped : Alters[v] = 1
  /\ \A v \in Versions : Alters[v] = 0 => v \notin Bare
  /\ Bare \cap Wrapped = {} /\ Bare \subseteq Versions /\ Wrapped \subseteq Versions
BY DEF Alters, Versions, Bare, Wrapped

\* A process that is off may be put anywhere.
LEMMA OffIsProcess == Off \in Process
BY DEF Off, Process, Versions

\* Moving a process on leaves it one.
LEMMA Moves ==
  ASSUME NEW x \in Process
  PROVE  /\ \A k \in Keys \cup {OperatorKey} :
              /\ [x EXCEPT !.pc = "open", !.held = k] \in Process
              /\ [x EXCEPT !.pc = "write", !.held = k] \in Process
         /\ \A V \in SUBSET Versions : [x EXCEPT !.pc = "migrate", !.applied = V] \in Process
         /\ x.version \in Versions => [x EXCEPT !.version = x.version + 1, !.ran = 0] \in Process
         /\ \A n \in 0 .. 6 : [x EXCEPT !.ran = n + 1] \in Process
         /\ \A e \in Accounts \cup {Override} :
              /\ [Off EXCEPT !.pc = "open", !.env = e, !.held = OperatorKey] \in Process
              /\ [Off EXCEPT !.pc = "read", !.env = e] \in Process
<1>1. \A k \in Keys \cup {OperatorKey} :
         /\ [x EXCEPT !.pc = "open", !.held = k] \in Process
         /\ [x EXCEPT !.pc = "write", !.held = k] \in Process
  BY DEF Process
<1>2. \A V \in SUBSET Versions : [x EXCEPT !.pc = "migrate", !.applied = V] \in Process
  BY DEF Process
<1>3. x.version \in Versions => [x EXCEPT !.version = x.version + 1, !.ran = 0] \in Process
  <2>1. x.version \in Versions => x.version + 1 \in 1 .. 8
    BY DEF Versions
  <2>2. \A n \in 1 .. 8 : [x EXCEPT !.version = n, !.ran = 0] \in Process
    <3> SUFFICES ASSUME NEW n \in 1 .. 8 PROVE [x EXCEPT !.version = n, !.ran = 0] \in Process
      OBVIOUS
    <3> 0 \in 0 .. 7
      OBVIOUS
    <3> QED
      BY DEF Process
  <2> QED
    BY <2>1, <2>2
<1>4. \A n \in 0 .. 6 : [x EXCEPT !.ran = n + 1] \in Process
  BY DEF Process
<1>5. \A e \in Accounts \cup {Override} :
         /\ [Off EXCEPT !.pc = "open", !.env = e, !.held = OperatorKey] \in Process
         /\ [Off EXCEPT !.pc = "read", !.env = e] \in Process
  <2> SUFFICES ASSUME NEW e \in Accounts \cup {Override}
               PROVE  /\ [Off EXCEPT !.pc = "open", !.env = e, !.held = OperatorKey] \in Process
                      /\ [Off EXCEPT !.pc = "read", !.env = e] \in Process
    OBVIOUS
  <2>1. [Off EXCEPT !.pc = "open", !.env = e, !.held = OperatorKey] \in Process
    BY OffIsProcess DEF Process
  <2>2. [Off EXCEPT !.pc = "read", !.env = e] \in Process
    BY OffIsProcess DEF Process
  <2> QED
    BY <2>1, <2>2
<1> QED
  BY <1>1, <1>2, <1>3, <1>4, <1>5

-----------------------------------------------------------------------------
(* The inductive invariant of the file and its schema.                     *)

\* It holds of a fresh install and of an existing one.
LEMMA StoreInitial == Init => StoreInv
<1> SUFFICES ASSUME Init PROVE StoreInv
  OBVIOUS
<1>1. TypeOK
  <2>1. recorded \subseteq Versions /\ columns \in [Versions -> 0 .. 7]
    <3>1. [v \in Versions |-> 0] \in [Versions -> 0 .. 7]
      OBVIOUS
    <3>2. Alters \in [Versions -> 0 .. 7]
      BY AltersAre DEF Alters
    <3> QED
      BY <3>1, <3>2 DEF Init
  <2>2. secret \in [Accounts -> Keys \cup {NoKey, Malformed}]
    BY DEF Init
  <2>3. /\ file \in Keys \cup {OperatorKey, "absent", "empty"}
        /\ platform \in {"create_only", "overwrite"}
    BY DEF Init
  <2>4. launches \in 0 .. MaxLaunches
    BY StoreAssumption DEF Init
  <2> QED
    BY <2>1, <2>2, <2>3, <2>4, OffIsProcess DEF Init, TypeOK
<1>2. ProcShape
  BY DEF Init, ProcShape, Off, At, Version
<1>3. SchemaShape
  BY AltersAre DEF Init, SchemaShape
<1>4. PassedShape
  BY DEF Init, PassedShape, Off, At
<1> QED
  BY <1>1, <1>2, <1>3, <1>4 DEF StoreInv

\* A process that ends, whatever it did to the secret store, keeps it.
LEMMA StoreStop ==
  ASSUME StoreInv, NEW p \in Procs, Stop(p), UNCHANGED <<file, schema>>,
         platform' = platform, launches' = launches,
         secret' \in [Accounts -> Keys \cup {NoKey, Malformed}]
  PROVE  StoreInv'
<1>1. TypeOK'
  BY OffIsProcess DEF StoreInv, TypeOK, Stop, schema
<1>2. ProcShape'
  BY DEF StoreInv, TypeOK, ProcShape, Stop, At, Off, Version
<1>3. SchemaShape'
  BY DEF StoreInv, TypeOK, SchemaShape, PassedShape, Stop, schema, At, Off, Version
<1>4. PassedShape'
  BY DEF StoreInv, TypeOK, SchemaShape, PassedShape, Stop, schema, At, Off, Version
<1> QED
  BY <1>1, <1>2, <1>3, <1>4 DEF StoreInv

\* Resolving the key.
LEMMA StoreKeySteps ==
  ASSUME StoreInv, NEW p \in Procs,
         \/ \E e \in Accounts \cup {Override} : Launch(p, e)
         \/ ReadFound(p) \/ ReadNotFound(p) \/ ReadRefused(p)
         \/ GuardMint(p) \/ WriteSecret(p)
  PROVE  StoreInv'
<1> USE StoreAssumption
    DEF StoreInv, TypeOK, ProcShape, SchemaShape, PassedShape, At, Off, Version, Process, Versions,
        secrets, schema, Running, Goto
<1>1. ASSUME NEW e \in Accounts \cup {Override}, Launch(p, e) PROVE StoreInv'
  <2>1. TypeOK'
    <3> HIDE DEF Process, Off
    <3>1. proc' \in [Procs -> Process]
      BY <1>1, Moves, OffIsProcess DEF Launch
    <3>2. launches' \in 0 .. MaxLaunches
      <4>1. launches < MaxLaunches /\ launches' = launches + 1
        BY <1>1 DEF Launch
      <4> QED
        BY <4>1
    <3> QED
      BY <1>1, <3>1, <3>2 DEF Launch
  <2>2. ProcShape'
    BY <1>1 DEF Launch
  <2>3. SchemaShape'
    BY <1>1 DEF Launch
  <2>4. PassedShape'
    BY <1>1 DEF Launch
  <2> QED
    BY <2>1, <2>2, <2>3, <2>4 DEF StoreInv
<1>2. CASE ReadFound(p)
  <2>1. TypeOK'
    <3> HIDE DEF Process, Off
    <3> QED
      BY <1>2, Moves DEF ReadFound
  <2>2. ProcShape'
    BY <1>2 DEF ReadFound
  <2>3. SchemaShape'
    BY <1>2 DEF ReadFound
  <2>4. PassedShape'
    BY <1>2 DEF ReadFound
  <2> QED
    BY <2>1, <2>2, <2>3, <2>4 DEF StoreInv
<1>3. CASE ReadNotFound(p)
  BY <1>3 DEF ReadNotFound
<1>4. CASE ReadRefused(p)
  BY <1>4, StoreStop DEF ReadRefused
<1>5. CASE GuardMint(p)
  <2>1. CASE Stop(p)
    BY <1>5, <2>1, StoreStop DEF GuardMint
  <2>2. ASSUME NEW k \in Keys, proc' = [proc EXCEPT ![p].pc = "write", ![p].held = k]
        PROVE  StoreInv'
    <3> proc[p].pc = "guard" /\ UNCHANGED <<secrets, file, schema, launches>>
      BY <1>5 DEF GuardMint
    <3>1. TypeOK'
      <4> HIDE DEF Process
      <4> QED
        BY <2>2, Moves
    <3>2. ProcShape'
      <4>1. \A q \in Procs \ {p} : proc'[q] = proc[q]
        BY <2>2
      <4>2. /\ proc'[p].pc = "write" /\ proc'[p].held = k /\ proc'[p].env = proc[p].env
            /\ proc'[p].version = proc[p].version /\ proc'[p].ran = proc[p].ran
        BY <2>2
      <4> QED
        BY <4>1, <4>2
    <3>3. SchemaShape'
      BY <2>2
    <3>4. PassedShape'
      BY <2>2
    <3> QED
      BY <3>1, <3>2, <3>3, <3>4 DEF StoreInv
  <2> QED
    BY <1>5, <2>1, <2>2 DEF GuardMint, FreshKeys
<1>6. CASE WriteSecret(p)
  <2>1. secret' \in [Accounts -> Keys \cup {NoKey, Malformed}]
    BY <1>6 DEF WriteSecret
  <2>2. CASE Stop(p)
    BY <1>6, <2>1, <2>2, StoreStop DEF WriteSecret
  <2>3. CASE Goto(p, "open")
    BY <1>6, <2>1, <2>3 DEF WriteSecret
  <2> QED
    BY <1>6, <2>2, <2>3 DEF WriteSecret
<1> QED
  BY <1>1, <1>2, <1>3, <1>4, <1>5, <1>6

\* Opening and keying the file: the key that reads it stays the one that
\* every process past this point holds.
LEMMA StoreFileSteps ==
  ASSUME StoreInv, NEW p \in Procs, OpenFile(p) \/ KeyFile(p)
  PROVE  StoreInv'
<1> USE StoreAssumption
    DEF StoreInv, TypeOK, ProcShape, SchemaShape, PassedShape, At, Off, Version, Process, Versions,
        secrets, schema, Running, Goto
<1>1. CASE OpenFile(p)
  BY <1>1 DEF OpenFile
<1>2. CASE KeyFile(p)
  <2>1. CASE Stop(p) /\ UNCHANGED file
    BY <1>2, <2>1, StoreStop DEF KeyFile
  <2>2. CASE /\ file \in {"empty", proc[p].held} /\ file' = proc[p].held
             /\ proc' = [proc EXCEPT ![p].pc = "migrate", ![p].applied = recorded]
    <3> /\ proc[p].pc = "key"
        /\ UNCHANGED <<secrets, schema, launches>>
      BY <1>2 DEF KeyFile
    <3>1. TypeOK'
      <4> HIDE DEF Process
      <4> QED
        BY <2>2, Moves
    <3>2. ProcShape'
      BY <2>2
    <3>3. SchemaShape'
      BY <2>2
    <3>4. PassedShape'
      <4>1. \A q \in Procs \ {p} : proc'[q] = proc[q]
        BY <2>2
      <4>2. /\ proc'[p].pc = "migrate" /\ proc'[p].held = proc[p].held
            /\ proc'[p].applied = recorded /\ proc'[p].version = 1
        BY <2>2
      <4> QED
        BY <2>2, <4>1, <4>2
    <3> QED
      BY <3>1, <3>2, <3>3, <3>4 DEF StoreInv
  <2> QED
    BY <1>2, <2>1, <2>2 DEF KeyFile
<1> QED
  BY <1>1, <1>2

\* The migrations.
LEMMA StoreMigrationSteps ==
  ASSUME StoreInv, NEW p \in Procs,
         \/ SkipMigration(p) \/ RunIdempotent(p) \/ RunWrapped(p)
         \/ AddColumn(p) \/ RecordVersion(p) \/ Serve(p)
  PROVE  StoreInv'
<1> USE StoreAssumption, AltersAre
    DEF StoreInv, TypeOK, ProcShape, SchemaShape, PassedShape, At, Off, Version, Process, Versions,
        secrets, schema, Running, Goto, Migrating, NextVersion, Skipped, Due
<1>1. CASE SkipMigration(p)
  <2>1. TypeOK'
    <3> HIDE DEF Process
    <3> QED
      BY <1>1, Moves DEF SkipMigration
  <2>2. ProcShape'
    BY <1>1 DEF SkipMigration
  <2>3. SchemaShape'
    BY <1>1 DEF SkipMigration
  <2>4. PassedShape'
    BY <1>1 DEF SkipMigration
  <2> QED
    BY <2>1, <2>2, <2>3, <2>4 DEF StoreInv
<1>2. CASE RunIdempotent(p)
  <2>1. TypeOK'
    <3> HIDE DEF Process
    <3> QED
      BY <1>2, Moves DEF RunIdempotent
  <2>2. ProcShape'
    BY <1>2 DEF RunIdempotent
  <2>3. SchemaShape'
    BY <1>2 DEF RunIdempotent
  <2>4. PassedShape'
    BY <1>2 DEF RunIdempotent
  <2> QED
    BY <2>1, <2>2, <2>3, <2>4 DEF StoreInv
<1>3. CASE RunWrapped(p)
  <2>1. CASE Stop(p) /\ UNCHANGED schema
    BY <1>3, <2>1, StoreStop DEF RunWrapped
  <2>2. CASE /\ columns' = [columns EXCEPT ![Version(p)] = Alters[Version(p)]]
             /\ recorded' = recorded \cup {Version(p)}
             /\ NextVersion(p)
    <3> /\ Migrating(p) /\ Version(p) \in Wrapped
        /\ UNCHANGED <<secrets, file, launches>>
      BY <1>3 DEF RunWrapped
    <3>1. TypeOK'
      <4> HIDE DEF Process
      <4>1. proc' \in [Procs -> Process]
        BY <2>2, Moves
      <4>2. columns' \in [Versions -> 0 .. 7] /\ recorded' \subseteq Versions
        BY <2>2
      <4> QED
        BY <4>1, <4>2
    <3>2. ProcShape'
      BY <2>2
    <3>3. SchemaShape'
      BY <2>2
    <3>4. PassedShape'
      BY <2>2
    <3> QED
      BY <3>1, <3>2, <3>3, <3>4 DEF StoreInv
  <2> QED
    BY <1>3, <2>1, <2>2 DEF RunWrapped
<1>4. CASE AddColumn(p)
  <2>1. CASE Stop(p) /\ UNCHANGED columns
    BY <1>4, <2>1, StoreStop DEF AddColumn
  <2>2. CASE /\ columns[Version(p)] = proc[p].ran
             /\ columns' = [columns EXCEPT ![Version(p)] = proc[p].ran + 1]
             /\ proc' = [proc EXCEPT ![p].ran = proc[p].ran + 1]
    <3> /\ Migrating(p) /\ Version(p) \in Bare /\ proc[p].ran < Alters[Version(p)]
        /\ UNCHANGED <<secrets, file, recorded, launches>>
      BY <1>4 DEF AddColumn
    <3> proc[p].ran \in 0 .. 6
      BY <1>4
    <3>1. TypeOK'
      <4> HIDE DEF Process
      <4>1. proc' \in [Procs -> Process]
        BY <2>2, Moves
      <4>2. columns' \in [Versions -> 0 .. 7]
        BY <2>2
      <4> QED
        BY <4>1, <4>2
    <3>2. ProcShape'
      BY <2>2
    <3>3. SchemaShape'
      BY <2>2
    <3>4. PassedShape'
      BY <2>2
    <3> QED
      BY <3>1, <3>2, <3>3, <3>4 DEF StoreInv
  <2> QED
    BY <1>4, <2>1, <2>2 DEF AddColumn
<1>5. CASE RecordVersion(p)
  BY <1>5 DEF RecordVersion, MayRecord
<1>6. CASE Serve(p)
  BY <1>6 DEF Serve
<1> QED
  BY <1>1, <1>2, <1>3, <1>4, <1>5, <1>6

\* Every step keeps it.
LEMMA StoreStep == StoreInv /\ [Next]_vars => StoreInv'
<1> SUFFICES ASSUME StoreInv, [Next]_vars PROVE StoreInv'
  OBVIOUS
<1>1. CASE UNCHANGED vars
  BY <1>1 DEF vars, StoreInv, TypeOK, ProcShape, SchemaShape, PassedShape, At, Version
<1>2. ASSUME NEW p \in Procs, Crash(p) PROVE StoreInv'
  BY <1>2, StoreStop DEF Crash, StoreInv, TypeOK, secrets
<1>3. CASE MoveAside
  BY <1>3, AltersAre
  DEF MoveAside, StoreInv, TypeOK, ProcShape, SchemaShape, PassedShape, At, Version, Running, Process,
      Versions, secrets
<1> QED
  BY <1>1, <1>2, <1>3, StoreKeySteps, StoreFileSteps, StoreMigrationSteps DEF Next

\* Type correctness of the store's start-up.
THEOREM StoreTypeCorrect == Spec => []TypeOK
<1>1. StoreInv => TypeOK
  BY DEF StoreInv
<1> QED
  BY <1>1, StoreInitial, StoreStep, PTL DEF Spec

\* A recorded migration has all of its columns, through crashes between its
\* statements and through any number of processes that migrate at once, and a
\* process that serves has every migration (db.go:136-184).
THEOREM RecordedMigrationsAreWhole == Spec => []RecordedIsWhole
<1>1. StoreInv => RecordedIsWhole
  <2> SUFFICES ASSUME StoreInv PROVE RecordedIsWhole
    OBVIOUS
  <2>1. \A v \in Versions : v < 8
    BY DEF Versions
  <2> QED
    BY <2>1 DEF StoreInv, TypeOK, SchemaShape, PassedShape, RecordedIsWhole, At, Version
<1> QED
  BY <1>1, StoreInitial, StoreStep, PTL DEF Spec

-----------------------------------------------------------------------------
(* The key.                                                                *)

\* What holds of processes and keys at first.
LEMMA KeyInitial == Init => KeyInv
<1> SUFFICES ASSUME Init PROVE KeyInv
  OBVIOUS
<1>1. KeyShape
  BY DEF Init, KeyShape, Running, At, Off
<1>2. KeyNotLost
  BY StoreAssumption DEF Init, KeyNotLost, Range
<1> QED
  BY <1>1, <1>2 DEF KeyInv

\* A process that ends while secrets and file stay as they are.
LEMMA KeyStop ==
  ASSUME StoreInv, KeyInv, NEW p \in Procs, Stop(p), UNCHANGED <<platform, secret, file>>
  PROVE  KeyInv'
BY DEF StoreInv, TypeOK, KeyInv, KeyShape, KeyNotLost, Range, Running, At, Stop, Off

\* The write of a key: only where nothing is lost by it.
LEMMA KeyWrite ==
  ASSUME StoreInv, KeyInv, NEW p \in Procs, WriteSecret(p)
  PROVE  /\ KeyInv'
         /\ \A a \in Accounts : secret'[a] # secret[a] => file \in {"absent", "empty"}
<1> USE StoreAssumption
    DEF StoreInv, TypeOK, ProcShape, KeyInv, KeyShape, Process, Running, At, Goto, Off
<1>1. CASE UNCHANGED secret
  <2>1. Stop(p) => KeyInv'
    BY <1>1, KeyStop DEF WriteSecret
  <2>2. ASSUME Goto(p, "open"), MayWrite(p), secret'[proc[p].env] = proc[p].held
        PROVE  KeyInv'
    BY <1>1, <2>2 DEF WriteSecret, KeyNotLost, Range
  <2> QED
    BY <1>1, <2>1, <2>2 DEF WriteSecret
<1>2. CASE /\ MayWrite(p)
           /\ secret' = [secret EXCEPT ![proc[p].env] = proc[p].held]
           /\ Goto(p, "open") \/ Stop(p)
  <2>1. file \in {"absent", "empty"}
    BY <1>2 DEF WriteSecret, MayWrite
  <2>2. KeyNotLost'
    BY <2>1 DEF WriteSecret, KeyNotLost
  <2>3. KeyShape'
    BY <1>2, <2>1 DEF WriteSecret, MayWrite, Stop
  <2> QED
    BY <2>1, <2>2, <2>3
<1> QED
  BY <1>1, <1>2 DEF WriteSecret

\* The other steps.
LEMMA KeySteps ==
  ASSUME OverlapEverywhere = FALSE, StoreInv, KeyInv, NEW p \in Procs,
         \/ \E e \in Accounts \cup {Override} : Launch(p, e)
         \/ ReadFound(p) \/ ReadNotFound(p) \/ ReadRefused(p)
         \/ GuardMint(p) \/ OpenFile(p) \/ KeyFile(p)
         \/ SkipMigration(p) \/ RunIdempotent(p) \/ RunWrapped(p)
         \/ AddColumn(p) \/ RecordVersion(p) \/ Serve(p) \/ Crash(p)
  PROVE  KeyInv'
<1> USE StoreAssumption
    DEF StoreInv, TypeOK, ProcShape, KeyInv, KeyShape, KeyNotLost, Range, Process, Running, At,
        Goto, Off, secrets
<1>1. ASSUME NEW e \in Accounts \cup {Override}, Launch(p, e) PROVE KeyInv'
  <2>1. \A q \in Procs : Running(q) => platform = "create_only" /\ proc[q].env = e
    BY <1>1 DEF Launch, MayLaunch
  <2>2. /\ \A q \in Procs \ {p} : proc'[q] = proc[q]
        /\ proc'[p].env = e
        /\ \/ e = Override /\ proc'[p].pc = "open" /\ proc'[p].held = OperatorKey
           \/ e # Override /\ proc'[p].pc = "read"
        /\ UNCHANGED <<platform, secret, file>>
    BY <1>1 DEF Launch
  <2>3. \A q, r \in Procs : Running(q)' /\ Running(r)' =>
          proc'[q].env = proc'[r].env /\ (q # r => platform' = "create_only")
    <3> SUFFICES ASSUME NEW q \in Procs, NEW r \in Procs, Running(q)', Running(r)'
                 PROVE  proc'[q].env = proc'[r].env /\ (q # r => platform' = "create_only")
      OBVIOUS
    <3>1. CASE q = p
      BY <2>1, <2>2, <3>1
    <3>2. CASE r = p
      BY <2>1, <2>2, <3>2
    <3>3. CASE q # p /\ r # p
      BY <2>2, <3>3
    <3> QED
      BY <3>1, <3>2, <3>3
  <2>4. \A q \in Procs : proc'[q].pc \in {"open", "key", "migrate", "serving"} =>
          IF proc'[q].env \in Accounts
          THEN proc'[q].held \in Keys /\ secret'[proc'[q].env] = proc'[q].held
          ELSE proc'[q].held = OperatorKey
    BY <2>2
  <2>5. \A q \in Procs : At(q, "write")' =>
          \/ file' \in {"absent", "empty"}
          \/ platform' = "create_only" /\ secret'[proc'[q].env] # NoKey
    BY <2>2
  <2>6. KeyNotLost'
    BY <2>2
  <2> QED
    BY <2>3, <2>4, <2>5, <2>6
<1>2. CASE ReadFound(p)
  BY <1>2 DEF ReadFound
<1>3. CASE ReadNotFound(p)
  BY <1>3 DEF ReadNotFound
<1>4. CASE GuardMint(p)
  <2>1. CASE Stop(p)
    BY <1>4, <2>1, KeyStop DEF GuardMint
  <2>2. ASSUME MintIsSafe, NEW k \in Keys, proc' = [proc EXCEPT ![p].pc = "write", ![p].held = k]
        PROVE  KeyInv'
    <3> /\ proc[p].pc = "guard"
        /\ UNCHANGED <<secrets, file, schema, launches>>
      BY <1>4 DEF GuardMint
    <3> QED
      BY <2>2 DEF MintIsSafe
  <2> QED
    BY <1>4, <2>1, <2>2 DEF GuardMint, FreshKeys
<1>5. CASE OpenFile(p)
  BY <1>5 DEF OpenFile
<1>6. CASE KeyFile(p)
  <2>1. CASE Stop(p) /\ UNCHANGED file
    BY <1>6, <2>1, KeyStop DEF KeyFile
  <2>2. CASE /\ file \in {"empty", proc[p].held} /\ file' = proc[p].held
             /\ proc' = [proc EXCEPT ![p].pc = "migrate", ![p].applied = recorded]
    BY <1>6, <2>2 DEF KeyFile
  <2> QED
    BY <1>6, <2>1, <2>2 DEF KeyFile
<1>7. CASE ReadRefused(p) \/ Crash(p)
  BY <1>7, KeyStop DEF ReadRefused, Crash
<1>8. CASE SkipMigration(p) \/ RunIdempotent(p) \/ RecordVersion(p)
  BY <1>8 DEF SkipMigration, RunIdempotent, RecordVersion, NextVersion, Version
<1>9. CASE RunWrapped(p) \/ AddColumn(p)
  <2>1. CASE Stop(p)
    BY <1>9, <2>1, KeyStop DEF RunWrapped, AddColumn
  <2>2. CASE /\ NextVersion(p) \/ proc' = [proc EXCEPT ![p].ran = proc[p].ran + 1]
             /\ UNCHANGED <<secrets, file>>
    BY <2>2 DEF NextVersion, Version
  <2> QED
    BY <1>9, <2>1, <2>2 DEF RunWrapped, AddColumn
<1>10. CASE Serve(p)
  BY <1>10 DEF Serve
<1> QED
  BY <1>1, <1>2, <1>3, <1>4, <1>5, <1>6, <1>7, <1>8, <1>9, <1>10

\* Every step keeps the key.
LEMMA KeyStep ==
  ASSUME OverlapEverywhere = FALSE, StoreInv, KeyInv, [Next]_vars
  PROVE  KeyInv'
<1>1. CASE UNCHANGED vars
  BY <1>1 DEF vars, KeyInv, KeyShape, KeyNotLost, Range, Running, At
<1>2. CASE MoveAside
  BY <1>2, StoreAssumption DEF MoveAside, KeyInv, KeyShape, KeyNotLost, Running, At, secrets
<1> QED
  BY <1>1, <1>2, KeyWrite, KeySteps DEF Next

\* Only WriteSecret changes the secret store.
LEMMA MintStep ==
  ASSUME OverlapEverywhere = FALSE, StoreInv, KeyInv, [Next]_vars
  PROVE  \A a \in Accounts : secret'[a] # secret[a] => file \in {"absent", "empty"}
<1>1. CASE \E p \in Procs : WriteSecret(p)
  BY <1>1, KeyWrite
<1>2. CASE ~ \E p \in Procs : WriteSecret(p)
  <2>1. UNCHANGED secret
    BY <1>2
    DEF Next, vars, secrets, Launch, ReadFound, ReadNotFound, ReadRefused, GuardMint, OpenFile,
        KeyFile, SkipMigration, RunIdempotent, RunWrapped, AddColumn, RecordVersion, Serve,
        Crash, MoveAside
  <2> QED
    BY <2>1
<1> QED
  BY <1>1, <1>2

\* Where processes overlap only on a platform with a create-only write, the key
\* of the store can always be had again (keychain.go:53-57, 157-162).
THEOREM KeysAreNotLost == ASSUME OverlapEverywhere = FALSE PROVE Spec => []KeyNotLost
<1>1. KeyInv => KeyNotLost
  BY DEF KeyInv
<1>2. StoreInv /\ KeyInv /\ [Next]_vars => KeyInv'
  BY KeyStep
<1> QED
  BY <1>1, <1>2, StoreInitial, StoreStep, KeyInitial, PTL DEF Spec

\* There too, no key is written while the store holds data, however long ago
\* the file was looked at (keychain.go:101-118).
THEOREM MintingNeedsNoStore == ASSUME OverlapEverywhere = FALSE PROVE Spec => MintNeedsNoStore
<1>1. StoreInv /\ KeyInv /\ [Next]_vars => KeyInv'
  BY KeyStep
<1>2. StoreInv /\ KeyInv /\ [Next]_vars =>
        [\A a \in Accounts : secret'[a] # secret[a] => file \in {"absent", "empty"}]_vars
  BY MintStep
<1> QED
  BY <1>1, <1>2, StoreInitial, StoreStep, KeyInitial, PTL DEF Spec, MintNeedsNoStore

-----------------------------------------------------------------------------
(* Snapshots (backup.go).                                                  *)

\* The newest snapshot is not expired, whatever else there is.
LEMMA NewestIsKept ==
  ASSUME BackupInv, NEW f \in files, f.stamp = latest
  PROVE  f \notin Expired
<1>1. {g \in files : g.stamp > f.stamp} = {}
  BY DEF BackupInv, FilesShape, BackupTypeOK, Stamps, Snapshots
<1>2. Cardinality({g \in files : g.stamp > f.stamp}) = 0
  BY <1>1, FS_EmptySet
<1> QED
  BY <1>2, BackupAssumption DEF Expired

\* The invariant holds before the first start.
LEMMA BackupInitial == BackupInit => BackupInv
<1> SUFFICES ASSUME BackupInit PROVE BackupInv
  OBVIOUS
<1>1. BackupTypeOK
  <2>1. 0 \in Stamps
    BY BackupAssumption DEF Stamps
  <2> QED
    BY <2>1 DEF BackupInit, BackupTypeOK
<1>2. FilesShape
  BY DEF BackupInit, FilesShape
<1>3. ClockShape
  BY DEF BackupInit, ClockShape, Down
<1> QED
  BY <1>1, <1>2, <1>3 DEF BackupInv

\* The start: a snapshot is due, or there is one younger than an interval.
LEMMA BackupStart == BackupInv /\ Start => BackupInv'
<1> SUFFICES ASSUME BackupInv, Start PROVE BackupInv'
  OBVIOUS
<1> USE BackupAssumption DEF BackupInv, BackupTypeOK, FilesShape, ClockShape, Start, Down, Stamps
<1>1. BackupTypeOK'
  <2>1. now \in Nat /\ now + Delay \in Nat /\ now + Interval \in Nat
    OBVIOUS
  <2> QED
    BY <2>1
<1>2. FilesShape'
  BY DEF StampsOf
<1>3. ASSUME ~DueAtStartup PROVE latest >= 0 /\ now + Interval < latest + 2 * Interval
  <2>1. PICK f \in files : ~(now - f.stamp >= Interval)
    BY <1>3 DEF DueAtStartup, StampsOf
  <2>2. f.stamp \in 0 .. MaxTime /\ f.stamp <= latest
    BY <2>1 DEF Snapshots
  <2> QED
    BY <2>1, <2>2
<1>4. ClockShape'
  <2>1. CASE phase' = "delay"
    BY <2>1
  <2>2. CASE phase' = "wait" /\ failed'
    BY <2>2
  <2>3. CASE phase' = "wait" /\ ~failed'
    BY <2>3, <1>3
  <2> QED
    BY <2>1, <2>2, <2>3
<1> QED
  BY <1>1, <1>2, <1>4

\* A snapshot: begun, failed, complete, published, and followed by retention.
LEMMA BackupSnapshot ==
  ASSUME BackupInv,
         BeginSnapshot \/ SnapshotFails \/ VacuumEnds \/ Publish \/ Prune
  PROVE  BackupInv'
<1> USE BackupAssumption
    DEF BackupInv, BackupTypeOK, FilesShape, ClockShape, Down, Stamps, Snapshots, StampsOf, Wait
<1>1. CASE BeginSnapshot
  <2>1. [stamp |-> now, whole |-> FALSE] \in Snapshots
    OBVIOUS
  <2>2. BackupTypeOK'
    BY <1>1, <2>1 DEF BeginSnapshot
  <2>3. FilesShape'
    BY <1>1 DEF BeginSnapshot
  <2>4. ClockShape'
    BY <1>1 DEF BeginSnapshot
  <2> QED
    BY <2>2, <2>3, <2>4
<1>2. CASE SnapshotFails
  BY <1>2 DEF SnapshotFails
<1>3. CASE VacuumEnds
  <2>1. [stamp |-> now, whole |-> TRUE] \in Snapshots
    OBVIOUS
  <2>2. BackupTypeOK'
    BY <1>3, <2>1 DEF VacuumEnds
  <2>3. FilesShape'
    <3>1. /\ [stamp |-> now, whole |-> TRUE] \in temps'
          /\ \A t \in temps' : t.stamp = now => t.whole
      BY <1>3 DEF VacuumEnds
    <3>2. now \in {t.stamp : t \in temps'}
      BY <3>1
    <3> QED
      BY <1>3, <3>1, <3>2 DEF VacuumEnds
  <2>4. ClockShape'
    BY <1>3 DEF VacuumEnds
  <2> QED
    BY <2>2, <2>3, <2>4
<1>4. CASE Publish
  <2>1. files' \subseteq files \cup temps
    BY <1>4 DEF Publish
  <2>2. \A f \in files' : f.whole /\ f.stamp <= now
    BY <1>4 DEF Publish
  <2>3. PICK t \in temps : t.stamp = now
    BY <1>4 DEF Publish
  <2>4. t \in files'
    BY <1>4, <2>3 DEF Publish
  <2>5. BackupTypeOK'
    BY <1>4, <2>1 DEF Publish
  <2>6. FilesShape'
    BY <1>4, <2>2, <2>3, <2>4 DEF Publish
  <2>7. ClockShape'
    BY <1>4 DEF Publish
  <2> QED
    BY <2>5, <2>6, <2>7
<1>5. CASE Prune
  <2>1. files' \subseteq files /\ temps' \subseteq temps
    BY <1>5 DEF Prune
  <2>2. BackupTypeOK'
    BY <1>5, <2>1 DEF Prune
  <2>3. latest >= 0 => \E f \in files' : f.stamp = latest
    <3>1. ASSUME NEW f \in files, f.stamp = latest PROVE f \in files'
      BY <1>5, <3>1, NewestIsKept DEF Prune
    <3> QED
      BY <3>1
  <2>4. FilesShape'
    BY <1>5, <2>1, <2>3 DEF Prune
  <2>5. ClockShape'
    BY <1>5 DEF Prune
  <2> QED
    BY <2>2, <2>4, <2>5
<1> QED
  BY <1>1, <1>2, <1>3, <1>4, <1>5

\* Every step keeps the invariant.
LEMMA BackupStep == BackupInv /\ [BackupNext]_backupVars => BackupInv'
<1> SUFFICES ASSUME BackupInv, [BackupNext]_backupVars PROVE BackupInv'
  OBVIOUS
<1>1. CASE UNCHANGED backupVars
  BY <1>1
  DEF backupVars, BackupInv, BackupTypeOK, FilesShape, ClockShape, Down, StampsOf
<1>2. CASE ProcessStops
  <2>1. BackupTypeOK'
    <3>1. 0 \in Stamps
      BY BackupAssumption DEF Stamps
    <3>2. bootAt' \in Stamps /\ wake' \in Nat /\ failed' \in BOOLEAN
      BY <1>2, <3>1 DEF ProcessStops
    <3> QED
      BY <1>2, <3>2 DEF ProcessStops, BackupInv, BackupTypeOK, Stamps, Snapshots
  <2>2. FilesShape' /\ ClockShape'
    BY <1>2 DEF ProcessStops, BackupInv, BackupTypeOK, FilesShape, ClockShape, Down, Stamps, StampsOf
  <2> QED
    BY <2>1, <2>2 DEF BackupInv
<1>3. CASE Tick
  BY <1>3, BackupAssumption
  DEF Tick, BackupInv, BackupTypeOK, FilesShape, ClockShape, Down, Stamps, StampsOf
<1> QED
  BY <1>1, <1>2, <1>3, BackupStart, BackupSnapshot DEF BackupNext

LEMMA BackupInvariant == BackupSpec => []BackupInv
BY BackupInitial, BackupStep, PTL DEF BackupSpec

\* Every published snapshot is complete and the last one published is kept,
\* wherever the process stops and whatever retention removes (backup.go:131-137).
THEOREM SnapshotsAreWhole == BackupSpec => []SnapshotsRestore
<1>1. BackupInv => SnapshotsRestore
  BY DEF BackupInv, FilesShape, SnapshotsRestore
<1> QED
  BY <1>1, BackupInvariant, PTL

\* A run that has not failed and is past its delay has a snapshot younger than
\* two intervals, however often it was restarted (backup.go:73-79).
THEOREM SnapshotsStayFresh == BackupSpec => []SnapshotsAreFresh
<1>1. BackupInv => SnapshotsAreFresh
  <2> SUFFICES ASSUME BackupInv, ~Down, ~failed, now - bootAt > Delay
               PROVE  \E f \in files : now - f.stamp < 2 * Interval
    BY DEF SnapshotsAreFresh
  <2>1. latest \in StampsOf(files) /\ now < latest + 2 * Interval
    BY BackupAssumption DEF BackupInv, BackupTypeOK, FilesShape, ClockShape, Stamps
  <2>2. PICK f \in files : f.stamp = latest
    BY <2>1 DEF StampsOf
  <2>3. now \in Nat /\ f.stamp \in Nat /\ Interval \in Nat
    BY BackupAssumption DEF BackupInv, BackupTypeOK, Stamps, Snapshots
  <2> QED
    BY <2>1, <2>2, <2>3
<1> QED
  BY <1>1, BackupInvariant, PTL
=============================================================================
