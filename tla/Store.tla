------------------------------- MODULE Store -------------------------------
(***************************************************************************)
(* The encrypted message store at start-up: where the key comes from       *)
(* (keychain.go, keychain_windows.go, main.go), how the file is created    *)
(* and keyed, and how the migrations bring its schema up to date (db.go,   *)
(* migrations/*.sql).                                                      *)
(*                                                                         *)
(* A process may stop between any two steps and a secret-store command may *)
(* fail, or be killed by its timeout after it wrote.  Two processes may    *)
(* start together (a supervisor and a person) where the secret store has   *)
(* a create-only write (macOS); where it has none (Linux, Windows) the     *)
(* model lets them overlap only if OverlapEverywhere says so.              *)
(***************************************************************************)
EXTENDS Naturals, FiniteSets, Functions

CONSTANTS
  Procs,              \* processes of the bridge on one machine
  Accounts,           \* values of WHATSAPP_KEYCHAIN_ACCOUNT
  Keys,               \* keys the random generator may return; bounds the mints
  OperatorKey,        \* the key WHATSAPP_DB_KEY carries when it is set
  NoKey, Malformed,   \* no such item; an item that is not 64 hex digits
  Override,           \* the environment sets WHATSAPP_DB_KEY
  OverlapEverywhere,  \* processes may overlap on every platform
  MaxLaunches         \* bound: starts of the bridge in a behaviour

ASSUME StoreAssumption ==
  /\ OperatorKey \notin Keys
  /\ {NoKey, Malformed, "absent", "empty"} \cap (Keys \cup {OperatorKey}) = {}
  /\ Override \notin Accounts
  /\ OverlapEverywhere \in BOOLEAN
  /\ MaxLaunches \in Nat

VARIABLES
  platform,  \* "create_only" (macOS) or "overwrite" (Linux, Windows)
  secret,    \* the item of each account in the secret store
  file,      \* the store: "absent", "empty", or the key it is encrypted with
  columns,   \* how many of a migration's columns the schema has
  recorded,  \* the versions in schema_version
  proc,      \* what each process is doing; see Process
  launches

secrets == <<platform, secret>>
schema == <<columns, recorded>>
vars == <<platform, secret, file, columns, recorded, proc, launches>>

Versions == 1 .. 7

\* Migrations 002, 004 and 005 are bare ALTER statements; 006 and 007 run
\* inside BEGIN/COMMIT; 001 and 003 are IF NOT EXISTS throughout.
Bare == {2, 4, 5}
Wrapped == {6, 7}

\* The columns a bare or wrapped migration adds one after the other.
Alters == [v \in Versions |->
  CASE v = 2 -> 7 [] v = 4 -> 3 [] v = 5 -> 2 [] v \in Wrapped -> 1 [] OTHER -> 0]

\* A process: its place in main, the account (or Override) it was started
\* with, the key it holds, the versions it read before its first migration,
\* the migration it is at and how many statements of it have run.
Process == [pc : {"off", "read", "guard", "write", "open", "key", "migrate", "serving"},
            env : Accounts \cup {Override}, held : Keys \cup {OperatorKey, NoKey},
            applied : SUBSET Versions, version : 1 .. 8, ran : 0 .. 7]

Off == [pc |-> "off", env |-> Override, held |-> NoKey,
        applied |-> {}, version |-> 1, ran |-> 0]

At(p, label) == proc[p].pc = label
Running(p) == ~At(p, "off")
Stop(p) == proc' = [proc EXCEPT ![p] = Off]
Goto(p, label) == proc' = [proc EXCEPT ![p].pc = label]

\* A fresh install, or one whose store was made under some account's key; the
\* other accounts may hold anything.
Init ==
  /\ platform \in {"create_only", "overwrite"}
  /\ \/ /\ file = "absent"
        /\ secret = [a \in Accounts |-> NoKey]
        /\ columns = [v \in Versions |-> 0] /\ recorded = {}
     \/ \E a \in Accounts, k \in Keys :
          /\ file = k
          /\ \E other \in {NoKey, Malformed} :
               secret = [b \in Accounts |-> IF b = a THEN k ELSE other]
          /\ columns = Alters /\ recorded = Versions
  /\ proc = [p \in Procs |-> Off]
  /\ launches = 0

(***************************************************************************)
(* Key resolution                                                          *)
(***************************************************************************)
\* Processes that overlap share one environment file.
MayLaunch(e) ==
  \A q \in Procs : Running(q) =>
    /\ OverlapEverywhere \/ platform = "create_only"
    /\ proc[q].env = e

\* An explicit key overrides the secret store.
Launch(p, e) ==
  /\ ~Running(p) /\ launches < MaxLaunches /\ MayLaunch(e)
  /\ launches' = launches + 1
  /\ proc' = [proc EXCEPT ![p] =
       IF e = Override THEN [Off EXCEPT !.pc = "open", !.env = e, !.held = OperatorKey]
                       ELSE [Off EXCEPT !.pc = "read", !.env = e]]
  /\ UNCHANGED <<secrets, file, schema>>

\* Item present and of the right length.
ReadFound(p) ==
  /\ At(p, "read") /\ secret[proc[p].env] \in Keys
  /\ proc' = [proc EXCEPT ![p].pc = "open", ![p].held = secret[proc[p].env]]
  /\ UNCHANGED <<secrets, file, schema, launches>>

\* The only answer that may mint: the item is proven absent.
ReadNotFound(p) ==
  /\ At(p, "read") /\ secret[proc[p].env] = NoKey
  /\ Goto(p, "guard")
  /\ UNCHANGED <<secrets, file, schema, launches>>

\* Locked, denied, timed out, or malformed: nothing is written.
ReadRefused(p) ==
  /\ At(p, "read")
  /\ Stop(p)
  /\ UNCHANGED <<secrets, file, schema, launches>>

\* A bug: the store file is not looked at.
MintIsSafeUnguarded == TRUE

MintIsSafe == file \in {"absent", "empty"}

FreshKeys == Keys \ ({file} \cup Range(secret) \cup {proc[q].held : q \in Procs})

\* storeGuardBeforeMint, then 32 random bytes; a refused guard or an
\* unreadable path ends the process.
GuardMint(p) ==
  /\ At(p, "guard")
  /\ \/ /\ MintIsSafe
        /\ \E k \in FreshKeys :
             proc' = [proc EXCEPT ![p].pc = "write", ![p].held = k]
     \/ Stop(p)
  /\ UNCHANGED <<secrets, file, schema, launches>>

\* A bug: `security add-generic-password -U`, which overwrites.
MayWriteUpdating(p) == TRUE

MayWrite(p) == platform = "create_only" => secret[proc[p].env] = NoKey

\* The write succeeds; or it lands and the command is killed by its timeout;
\* or it fails, as it does on macOS when the item has appeared meanwhile.
WriteSecret(p) ==
  /\ At(p, "write")
  /\ \/ /\ MayWrite(p)
        /\ secret' = [secret EXCEPT ![proc[p].env] = proc[p].held]
        /\ Goto(p, "open") \/ Stop(p)
     \/ Stop(p) /\ UNCHANGED secret
  /\ UNCHANGED <<platform, file, schema, launches>>

(***************************************************************************)
(* OpenDB                                                                  *)
(***************************************************************************)
\* Opening creates an empty file.
OpenFile(p) ==
  /\ At(p, "open")
  /\ file' = IF file = "absent" THEN "empty" ELSE file
  /\ Goto(p, "key")
  /\ UNCHANGED <<secrets, schema, launches>>

\* The first write to an empty file, the journal mode, encrypts it under the
\* key of its writer; any other key cannot read it, which is fatal.  The
\* versions applied are read once, before the loop.
KeyFile(p) ==
  /\ At(p, "key")
  /\ \/ /\ file \in {"empty", proc[p].held}
        /\ file' = proc[p].held
        /\ proc' = [proc EXCEPT ![p].pc = "migrate", ![p].applied = recorded]
     \/ file \notin {"empty", proc[p].held} /\ Stop(p) /\ UNCHANGED file
  /\ UNCHANGED <<secrets, schema, launches>>

Version(p) == proc[p].version
Migrating(p) == At(p, "migrate") /\ Version(p) \in Versions
NextVersion(p) ==
  proc' = [proc EXCEPT ![p].version = Version(p) + 1, ![p].ran = 0]

Skipped(p) == Version(p) >= 2 /\ Version(p) \in proc[p].applied
Due(p) == Migrating(p) /\ ~Skipped(p)

SkipMigration(p) ==
  /\ Migrating(p) /\ Skipped(p)
  /\ NextVersion(p)
  /\ UNCHANGED <<secrets, file, schema, launches>>

\* 001 and 003: statements that may run any number of times.
RunIdempotent(p) ==
  /\ Due(p) /\ Alters[Version(p)] = 0
  /\ recorded' = recorded \cup {Version(p)}
  /\ NextVersion(p)
  /\ UNCHANGED <<secrets, file, columns, launches>>

\* 006 and 007: all or nothing.  006 fails on its ALTER if another process
\* has just run it; 007 rebuilds its table again.
RunWrapped(p) ==
  LET v == Version(p) IN
  /\ Due(p) /\ v \in Wrapped
  /\ \/ /\ columns[v] = 0 \/ v = 7
        /\ columns' = [columns EXCEPT ![v] = Alters[v]]
        /\ recorded' = recorded \cup {v}
        /\ NextVersion(p)
     \/ columns[v] # 0 /\ v = 6 /\ Stop(p) /\ UNCHANGED schema
  /\ UNCHANGED <<secrets, file, launches>>

\* 002, 004 and 005: each ALTER commits on its own; one that finds its column
\* fails, and the failure is fatal.
AddColumn(p) ==
  LET v == Version(p)
      n == proc[p].ran IN
  /\ Due(p) /\ v \in Bare /\ n < Alters[v]
  /\ \/ columns[v] > n /\ Stop(p) /\ UNCHANGED columns
     \/ /\ columns[v] = n
        /\ columns' = [columns EXCEPT ![v] = n + 1]
        /\ proc' = [proc EXCEPT ![p].ran = n + 1]
  /\ UNCHANGED <<secrets, file, recorded, launches>>

\* A bug: the version row may be written before the last column is added.
MayRecordEarly(p) == proc[p].ran >= Alters[Version(p)] - 1

MayRecord(p) == proc[p].ran = Alters[Version(p)]

RecordVersion(p) ==
  /\ Due(p) /\ Version(p) \in Bare /\ MayRecord(p)
  /\ recorded' = recorded \cup {Version(p)}
  /\ NextVersion(p)
  /\ UNCHANGED <<secrets, file, columns, launches>>

Serve(p) ==
  /\ At(p, "migrate") /\ Version(p) = 8
  /\ Goto(p, "serving")
  /\ UNCHANGED <<secrets, file, schema, launches>>

(***************************************************************************)
(* The environment                                                         *)
(***************************************************************************)
Crash(p) ==
  /\ Running(p)
  /\ Stop(p)
  /\ UNCHANGED <<secrets, file, schema, launches>>

\* What the guard's error tells the operator to do to start over.
MoveAside ==
  /\ \A p \in Procs : ~Running(p)
  /\ file # "absent"
  /\ file' = "absent"
  /\ columns' = [v \in Versions |-> 0] /\ recorded' = {}
  /\ UNCHANGED <<secrets, proc, launches>>

Next ==
  \/ \E p \in Procs :
       \/ \E e \in Accounts \cup {Override} : Launch(p, e)
       \/ ReadFound(p) \/ ReadNotFound(p) \/ ReadRefused(p)
       \/ GuardMint(p) \/ WriteSecret(p)
       \/ OpenFile(p) \/ KeyFile(p)
       \/ SkipMigration(p) \/ RunIdempotent(p) \/ RunWrapped(p)
       \/ AddColumn(p) \/ RecordVersion(p) \/ Serve(p)
       \/ Crash(p)
  \/ MoveAside

Spec == Init /\ [][Next]_vars

(***************************************************************************)
(* Properties                                                              *)
(***************************************************************************)
TypeOK ==
  /\ platform \in {"create_only", "overwrite"}
  /\ secret \in [Accounts -> Keys \cup {NoKey, Malformed}]
  /\ file \in Keys \cup {OperatorKey, "absent", "empty"}
  /\ columns \in [Versions -> 0 .. 7] /\ recorded \subseteq Versions
  /\ proc \in [Procs -> Process]
  /\ launches \in 0 .. MaxLaunches

\* The key that decrypts the store can always be had again: from the secret
\* store or from the operator.  Overlapping first runs, failed and timed-out
\* writes and changes of the account between runs included (keychain.go:53-57,
\* 157-162).
KeyNotLost == file \in Keys => file \in Range(secret)

\* No key is minted beside a store that holds data, although the file is
\* looked at before the key is generated and written, and another process may
\* fill it in between (keychain.go:101-118).
MintNeedsNoStore ==
  [][\A a \in Accounts : secret'[a] # secret[a] => file \in {"absent", "empty"}]_vars

\* A version that is recorded is never run again, so its columns must be
\* there: through crashes between statements and through two processes that
\* migrate at once.  A process that serves has every one of them, in a store
\* that its key reads (db.go:136-184).
RecordedIsWhole ==
  /\ \A v \in recorded : columns[v] = Alters[v]
  /\ \A p \in Procs : At(p, "serving") => recorded = Versions /\ file = proc[p].held

----------------------------------------------------------------------------
(* Why they hold: two inductive invariants.                                *)

\* A process that resolves a key has an account to do it with, it has a key
\* before it writes or opens anything, and it migrates from the first version.
ProcShape ==
  \A p \in Procs :
    /\ proc[p].pc \in {"read", "guard", "write"} => proc[p].env \in Accounts
    /\ At(p, "write") => proc[p].held \in Keys
    /\ proc[p].pc \in {"open", "key", "migrate", "serving"} =>
         proc[p].held \in Keys \cup {OperatorKey}
    /\ proc[p].pc \notin {"migrate", "serving"} => Version(p) = 1 /\ proc[p].ran = 0

\* A recorded version has all of its columns, and none has more.
SchemaShape ==
  /\ \A v \in Versions : columns[v] <= Alters[v]
  /\ \A v \in recorded : columns[v] = Alters[v]

\* What a process past KeyFile relies on: its key reads the file; what it has
\* passed is recorded; the statements it ran are in the schema.
PassedShape ==
  /\ \A p \in Procs : proc[p].pc \in {"migrate", "serving"} =>
       /\ file = proc[p].held
       /\ proc[p].applied \subseteq recorded
       /\ \A v \in Versions : v < Version(p) => v \in recorded
       /\ Version(p) \in Versions => proc[p].ran <= columns[Version(p)]
  /\ \A p \in Procs : At(p, "serving") => Version(p) = 8

StoreInv == TypeOK /\ ProcShape /\ SchemaShape /\ PassedShape

\* Processes that run at once do so on a create-only platform and share their
\* account; one past the key's resolution holds what its account stores, or the
\* operator's key; one about to write has no data beside it, or will be refused.
KeyShape ==
  /\ \A p, q \in Procs : Running(p) /\ Running(q) =>
       /\ proc[p].env = proc[q].env
       /\ p # q => platform = "create_only"
  /\ \A p \in Procs : proc[p].pc \in {"open", "key", "migrate", "serving"} =>
       IF proc[p].env \in Accounts
       THEN proc[p].held \in Keys /\ secret[proc[p].env] = proc[p].held
       ELSE proc[p].held = OperatorKey
  /\ \A p \in Procs : At(p, "write") =>
       \/ file \in {"absent", "empty"}
       \/ platform = "create_only" /\ secret[proc[p].env] # NoKey

KeyInv == KeyShape /\ KeyNotLost
=============================================================================
