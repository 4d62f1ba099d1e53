------------------------------- MODULE Export ------------------------------
(***************************************************************************)
(* The vault export (export_vault.go): one Markdown file per chat, planned *)
(* from the database and from the directory as it finds it, and written by *)
(* several goroutines; and the plan its audit shares (reconcile_vault.go). *)
(* Chats are renamed, merged by an alias, removed and written to between   *)
(* two exports, the owner keeps notes of his own in the directory, and the *)
(* file system may hold two names to be one where the planner does not.    *)
(*                                                                         *)
(* A file name is the sequence of its parts: <<"Ann">> is Ann.md, and      *)
(* <<"Ann", "155">> is Ann (+155).md.  Everything in a file that the       *)
(* program does not own, a symbolic link included, is a note: a file       *)
(* without a jid.  Frontmatter added by others is left out, and a row is   *)
(* one that renders: the others make no line and no file.                  *)
(***************************************************************************)
EXTENDS Integers, Sequences, FiniteSets, SequencesExt

CONSTANTS
  Direct,       \* JIDs of persons, in either form
  Groups,       \* JIDs of groups
  PhoneJids,    \* those of Direct that end in @s.whatsapp.net
  NoJid,        \* the jid of a file that is not a chat file
  Order,        \* the lexical order of JIDs, as ranks
  Rank,         \* the lexical order of parts of names
  Digits,       \* extractPhone of a JID, as a part of a name
  FullJid,      \* a whole JID, as a part of a name
  Card,         \* contacts.phone of a JID, NoJid for none
  GroupMark,    \* the part "group"
  Names,        \* what chats may be called; <<>> is not known
  FirstNames,   \* what they may be called at first
  Aliases,      \* edges jid_aliases may come to hold
  NoteNames,    \* where the owner may put a note of his own
  Vaults,       \* what the directory may hold at first
  FoldKeyOf,    \* foldKey of a part
  FileSystems,  \* [file system -> [part -> part]]: names it holds to be one
  Busy,         \* bound: the chats messages arrive in
  Flags,        \* -export-include-groups and -export-min-messages
  MaxRows,      \* bound: rows of a chat
  MaxEvents,    \* bound: changes of the database and of notes, failures, kills
  MaxRuns       \* bound: exports

Jids == Direct \cup Groups

\* What a file system makes of a name.
KeyOn(s, n) == [i \in DOMAIN n |-> FileSystems[s][n[i]]]

IsFile(f) ==
  /\ f = [name |-> f.name, jid |-> f.jid, closure |-> f.closure,
          last |-> f.last, holds |-> f.holds, late |-> f.late, cut |-> f.cut]
  /\ f.cut \in BOOLEAN
  /\ f.closure \subseteq Jids /\ f.last \in Nat
  /\ f.holds \in [Jids -> Nat] /\ f.late \in [Jids -> Nat]

\* The directory that is there at first has one entry for a name, and its chat
\* files hold what they were written from: every chat has one row by then.
ASSUME ExportAssumption ==
  /\ Direct \cap Groups = {} /\ PhoneJids \subseteq Direct /\ NoJid \notin Jids
  /\ IsFiniteSet(Jids)
  /\ Order \in [Jids -> Nat]
  /\ \A j, k \in Jids : Order[j] = Order[k] => j = k
  /\ {MaxRows, MaxEvents, MaxRuns} \subseteq Nat
  /\ \A dir \in Vaults :
       /\ \A f \in dir :
            /\ IsFile(f) /\ f.last <= 1 /\ f.late = [j \in Jids |-> 0]
            /\ f.jid # NoJid /\ f.last = 1 /\ ~f.cut =>
                 \A j \in f.closure : f.holds[j] >= 1
       /\ \A s \in DOMAIN FileSystems : \A f, g \in dir :
            KeyOn(s, f.name) = KeyOn(s, g.name) => f = g

VARIABLES
  chats, name, last, count,  \* chats, their names, newest time and rows
  clock,                     \* the newest time any chat ever had
  edges,                     \* jid_aliases
  coming,                    \* [chat -> its newest message has its row, "no", or
                             \* waits for it, "new" or "late"]
  disk, fs,                  \* the directory, and what holds it
  phase,                     \* where the export is
  outcome,                   \* "ok", "incomplete", "refused", or "none" yet
  filters,                   \* its flags
  units, file,               \* its plan: units and their file names
  unhealed, healed,          \* units to look at, and those whose file moved
  result,                    \* [primary -> what became of the unit]
  before,                    \* observer: the directory the plan was made on
  late,                      \* observer: how many rows came that a skip cannot see
  events, runs               \* budgets

db == <<chats, name, last, count, clock, edges, coming>>
plan == <<filters, units, file, before, runs>>
progress == <<unhealed, healed, result>>
vars == <<chats, name, last, count, clock, edges, coming, disk, fs, phase, outcome,
          filters, units, file, unhealed, healed, result, before, late, events, runs>>

\* A change or a failure, within the bound.
Event == events < MaxEvents /\ events' = events + 1

Running == phase \in {"heal", "write"}
First(S) == CHOOSE j \in S : \A k \in S : Order[j] <= Order[k]

----------------------------------------------------------------------------
(* Names and the file system *)

FoldKey(n) == [i \in DOMAIN n |-> FoldKeyOf[n[i]]]
FsKey(n) == KeyOn(fs, n)

\* The entry a path leads to: none, or one.
Resolve(dir, n) == {f \in dir : FsKey(f.name) = FsKey(n)}

Note(n) == [name |-> n, jid |-> NoJid, closure |-> {}, last |-> 0,
            holds |-> [j \in Jids |-> 0], late |-> [j \in Jids |-> 0],
            cut |-> FALSE]

----------------------------------------------------------------------------
(* buildExportUnits *)

\* An edge that touches a group is corrupt and does not count.
Component(j) ==
  {k \in Direct :
     \A S \in SUBSET Direct :
       /\ j \in S
       /\ \A e \in edges : e \subseteq Direct /\ e \cap S # {} => e \subseteq S
       => k \in S}

Closure(j) == IF j \in Groups THEN {j} ELSE Component(j)

\* Primary: the freshest of the rows, ties by name.
Freshest(members) ==
  First({j \in members : \A k \in members : last[k] <= last[j]})

\* The JID of S to ask first: the primary, then members, then the rest.
Lead(primary, members, S) ==
  IF primary \in S THEN primary
  ELSE IF S \cap members # {} THEN First(S \cap members) ELSE First(S)

\* The digits that tell two persons of one name apart: a phone JID's, else a
\* contact's number that is not a LID's digits, else the primary's.
TagOf(primary, members, closure) ==
  LET phones == closure \cap PhoneJids
      cards  == {j \in closure : /\ Card[j] # NoJid
                                 /\ \A k \in closure \ PhoneJids : Card[j] # Digits[k]}
  IN IF primary \in Groups THEN Digits[primary]
     ELSE IF phones # {} THEN Digits[Lead(primary, members, phones)]
     ELSE IF cards # {} THEN Card[Lead(primary, members, cards)]
     ELSE Digits[primary]

\* resolveUnitIdentities: a name of the primary, of another row, or digits.
DisplayOf(primary, members, closure) ==
  LET named == {j \in members : name[j] # <<>>}
  IN IF named # {} THEN name[Lead(primary, members, named)]
     ELSE <<TagOf(primary, members, closure)>>

\* The unit of one closure: a group, or a person with all his rows.
Unit(closure) ==
  LET members == closure \cap chats
      primary == Freshest(members)
  IN [members |-> members, closure |-> closure, primary |-> primary,
      last    |-> last[primary],
      counts  |-> [j \in members |-> count[j]],
      late    |-> [j \in closure |-> late[j]],
      display |-> DisplayOf(primary, members, closure),
      tag     |-> TagOf(primary, members, closure)]

Total(u) == FoldFunction(+, 0, u.counts)
HasRows(u) == \E j \in u.members : u.counts[j] > 0

Eligible(flags) ==
  {u \in {Unit(Closure(j)) : j \in chats} :
     /\ u.primary \in Groups => flags.groups
     /\ Total(u) >= flags.min}

MembersOf(us) == UNION {u.members : u \in us}

\* A bug: only chat files are in the way, the owner's notes are not.
ChatFilesTaken(us, dir) ==
  {FoldKey(f.name) : f \in {g \in dir : g.jid \notin MembersOf(us) \cup {NoJid}}}

\* Names this run must move around: files of chats it does not manage, notes.
Taken(us, dir) ==
  {FoldKey(f.name) : f \in {g \in dir : g.jid \notin MembersOf(us)}}

\* assignFilenames, the three shapes of a name.
NameAt(u, level) ==
  u.display
    \o (IF u.primary \in Groups THEN <<GroupMark>> ELSE <<>>)
    \o CASE level = 0 -> <<>>
         [] level = 1 -> <<u.tag>>
         [] level = 2 -> <<FullJid[u.primary]>>

NameIn(u, up) ==
  NameAt(u, IF u \in up.full THEN 2 ELSE IF u \in up.tagged THEN 1 ELSE 0)

\* Units whose name is taken, or is also another unit's.
Clashing(us, taken, up) ==
  LET key == [u \in us |-> FoldKey(NameIn(u, up))]
  IN {u \in us : key[u] \in taken \/ \E v \in us \ {u} : key[v] = key[u]}

Raised(us, taken, up) ==
  LET clashing == Clashing(us, taken, up)
  IN [tagged |-> up.tagged \cup clashing,
      full   |-> up.full \cup (clashing \cap up.tagged)]

Plain == [tagged |-> {}, full |-> {}]

\* A bug: one round, as if decorated names could not clash again.
LevelsOnce(us, taken) == Raised(us, taken, Plain)

\* Rounds go on until one changes nothing.
Levels(us, taken) ==
  LET Climb[up \in [tagged : SUBSET us, full : SUBSET us]] ==
        LET next == Raised(us, taken, up) IN IF next = up THEN up ELSE Climb[next]
  IN Climb[Plain]

\* The names, and the units no level could tell apart: those are refused.
PlanFor(us, dir) ==
  LET taken == Taken(us, dir)
      up    == Levels(us, taken)
  IN [names   |-> [p \in {u.primary : u \in us} |->
                     NameIn(CHOOSE u \in us : u.primary = p, up)],
      residue |-> Clashing(us, taken, up)]

----------------------------------------------------------------------------
(* ExportVault *)

NoFilter == [groups |-> TRUE, min |-> 0]

Init ==
  /\ chats = Jids
  /\ name \in FirstNames
  /\ last = [j \in Jids |-> 1] /\ count = [j \in Jids |-> 1] /\ clock = 1
  /\ edges = {} /\ coming = [j \in Jids |-> "no"]
  /\ fs \in DOMAIN FileSystems
  /\ disk \in Vaults
  /\ phase = "idle" /\ outcome = "none"
  /\ filters = NoFilter
  /\ units = {} /\ file = <<>>
  /\ unhealed = {} /\ healed = {} /\ result = <<>>
  /\ before = {}
  /\ late = [j \in Jids |-> 0]
  /\ events = 0 /\ runs = 0

\* Scan, units, names.  A message whose time the plan has seen before its row
\* was there is late.
StartExport(flags) ==
  /\ phase = "idle" /\ runs < MaxRuns
  /\ runs' = runs + 1
  /\ filters' = flags
  /\ before' = disk
  /\ LET us   == Eligible(flags)
         made == PlanFor(us, disk)
     IN /\ units' = us
        /\ file' = made.names
        /\ IF made.residue # {}
           THEN phase' = "done" /\ outcome' = "refused" /\ unhealed' = {}
           ELSE phase' = "heal" /\ outcome' = "none" /\ unhealed' = us
        /\ result' = [p \in DOMAIN made.names |-> "todo"]
  /\ healed' = {}
  /\ coming' = [j \in Jids |-> IF coming[j] = "new" THEN "late" ELSE coming[j]]
  /\ UNCHANGED <<chats, name, last, count, clock, edges, disk, fs, late, events>>

Path(u) == file[u.primary]
Target(u) == Resolve(disk, Path(u))

\* Files of the unit under other names, those of its primary first: of the
\* members whose file could not be renamed, none.
OldFiles(u, failed) ==
  LET own == {f \in disk : f.jid \in u.members \ failed}
  IN {f \in own : f.jid = Lead(u.primary, u.members, {g.jid : g \in own})}

\* Units are in the order of their file names: "Ann (155).md" before "Ann.md".
Precedes(m, n) ==
  \E i \in 1 .. Len(m) :
    /\ \A k \in 1 .. i - 1 : k \in DOMAIN n /\ m[k] = n[k]
    /\ i <= Len(n) => Rank[m[i]] < Rank[n[i]]

\* healLegacyFilenames for one unit: nothing if its path exists, else one file
\* of its own moves there; where a rename fails the next member's is tried.
Heal(u) ==
  /\ phase = "heal" /\ u \in unhealed
  /\ \A v \in unhealed \ {u} : Precedes(Path(u), Path(v))
  /\ unhealed' = unhealed \ {u}
  /\ \/ /\ Target(u) # {}
        /\ UNCHANGED <<disk, healed, events>>
     \/ /\ Target(u) = {}
        /\ \E failed \in SUBSET (u.members \cap {f.jid : f \in disk}) :
             /\ \/ failed = {} /\ UNCHANGED events
                \/ failed # {} /\ Event
             /\ \/ /\ \E f \in OldFiles(u, failed) :
                        disk' = (disk \ {f}) \cup {[f EXCEPT !.name = Path(u)]}
                   /\ healed' = healed \cup {u}
                \/ /\ OldFiles(u, failed) = {}
                   /\ UNCHANGED <<disk, healed>>
  /\ UNCHANGED <<db, fs, phase, outcome, plan, result, late>>

\* The path leads to an entry of another name, and of someone else.
WouldDestroy(u) ==
  /\ \A f \in disk : f.name # Path(u)
  /\ \E f \in Target(u) : f.jid \notin u.members

\* The pre-write alias guard, over all units at once.
GuardAliases ==
  /\ phase = "heal" /\ unhealed = {}
  /\ phase' = "write"
  /\ result' = [p \in DOMAIN result |->
                  IF \E u \in units : u.primary = p /\ WouldDestroy(u)
                  THEN "dropped" ELSE "todo"]
  /\ UNCHANGED <<db, disk, fs, outcome, plan, unhealed, healed, late, events>>

\* The skip: a file of this person, of the same closure, with nothing newer.
Unchanged(u) ==
  /\ u.last > 0 /\ u \notin healed
  /\ \E f \in Target(u) : /\ f.jid \in u.members
                          /\ f.closure = u.closure
                          /\ f.last >= u.last

\* What a write leaves: at the entry the path leads to, or at a new one, the
\* rows of every member as they are now and the time the plan saw.  The file
\* does not have its `late`: it tells the rows that came late after it was made.
Rewritten(u) ==
  LET n == IF Target(u) = {} THEN Path(u) ELSE (CHOOSE f \in Target(u) : TRUE).name
  IN [name |-> n, jid |-> u.primary, closure |-> u.closure, last |-> u.last,
      holds |-> [j \in Jids |-> IF j \in u.members THEN count[j] ELSE 0],
      late |-> [j \in Jids |-> IF j \in u.closure \ u.members THEN u.late[j]
                                ELSE late[j]],
      cut |-> FALSE]

\* What a write that ends too early leaves, frontmatter first: a file without a
\* jid, or one that says all it should of itself and lacks rows.
Torn(u) == {Note(Rewritten(u).name),
            [Rewritten(u) EXCEPT !.holds = [j \in Jids |-> 0], !.cut = TRUE]}

Write(u) ==
  /\ phase = "write" /\ u \in units /\ result[u.primary] = "todo"
  /\ \/ /\ Unchanged(u)
        /\ result' = [result EXCEPT ![u.primary] = "unchanged"]
        /\ UNCHANGED <<disk, events>>
     \/ /\ ~Unchanged(u) /\ \A j \in u.members : count[j] = 0
        /\ result' = [result EXCEPT ![u.primary] = "empty"]
        /\ UNCHANGED <<disk, events>>
     \/ /\ ~Unchanged(u) /\ \E j \in u.members : count[j] > 0
        /\ disk' = (disk \ Target(u)) \cup {Rewritten(u)}
        /\ result' = [result EXCEPT ![u.primary] = "wrote"]
        /\ UNCHANGED events
     \/ /\ ~Unchanged(u) /\ \E j \in u.members : count[j] > 0
        /\ Event
        /\ \/ UNCHANGED disk
           \/ \E t \in Torn(u) : disk' = (disk \ Target(u)) \cup {t}
        /\ result' = [result EXCEPT ![u.primary] = "dropped"]
  /\ UNCHANGED <<db, fs, phase, outcome, plan, unhealed, healed, late>>

\* Units that made or kept a file.
Landed == {u \in units : result[u.primary] \in {"wrote", "unchanged"}}

\* A bug: units are compared by name alone, not by the file they reached.
NoSweep == {}

\* The sweep: units that share a file with another unit, or that reached a
\* file under a name that was not theirs before the run.
Aliased ==
  {u \in Landed :
     \/ \E v \in Landed \ {u} : Target(v) = Target(u)
     \/ \E f \in Target(u) :
          /\ \A v \in units : Path(v) # f.name
          /\ ~ \E b \in before : b.name = f.name /\ b.jid \in u.members}

Finish ==
  /\ phase = "write" /\ \A p \in DOMAIN result : result[p] # "todo"
  /\ phase' = "done"
  /\ outcome' =
       IF /\ \A p \in DOMAIN result : result[p] # "dropped"
          /\ \A u \in Landed : Target(u) # {}
          /\ Aliased = {}
       THEN "ok" ELSE "incomplete"
  /\ UNCHANGED <<db, disk, fs, plan, progress, late, events>>

\* What the process knew is gone.
Forgotten ==
  /\ phase' = "idle" /\ filters' = NoFilter
  /\ units' = {} /\ file' = <<>> /\ unhealed' = {} /\ healed' = {}
  /\ result' = <<>> /\ before' = {}
  /\ UNCHANGED <<db, fs, runs, late>>

\* It is killed, perhaps inside one of its writes.
Kill ==
  /\ Running /\ Event /\ Forgotten
  /\ UNCHANGED outcome
  /\ \/ disk' = disk
     \/ /\ phase = "write"
        /\ \E u \in units :
             /\ result[u.primary] = "todo" /\ ~Unchanged(u)
             /\ \E j \in u.members : count[j] > 0
             /\ \E t \in Torn(u) : disk' = (disk \ Target(u)) \cup {t}

\* It reports its outcome and ends.
Exit ==
  /\ phase = "done" /\ outcome' = "none" /\ Forgotten
  /\ UNCHANGED <<disk, events>>

----------------------------------------------------------------------------
(* The bridge and the owner *)

BetweenRuns ==
  /\ phase = "idle" /\ Event
  /\ UNCHANGED <<fs, phase, outcome, plan, progress>>

\* onMessage's first statement: the message's time becomes the chat's, newer
\* than any, the same second, or old (it was resent or waited in a queue).  This
\* may come between the plan of an export and its writes (the renames do not
\* read the database).  Where the time falls, all rows are out of a skip's sight.
MessageTime(j) ==
  /\ Event /\ phase \in {"idle", "write"} /\ coming[j] = "no" /\ j \in Busy
  /\ chats' = chats \cup {j}
  /\ \E t \in {1, clock, clock + 1} :
       /\ last' = [last EXCEPT ![j] = t]
       /\ coming' = [coming EXCEPT ![j] = IF t > clock THEN "new" ELSE "late"]
       /\ clock' = IF t > clock THEN t ELSE clock
       /\ late' = [late EXCEPT ![j] = IF t < last[j] THEN @ + count[j] ELSE @]
  /\ UNCHANGED <<name, count, edges, disk, fs, phase, outcome, plan, progress>>

\* Its last one: the row.
MessageRow(j) ==
  /\ phase \in {"idle", "write"} /\ coming[j] # "no" /\ count[j] < MaxRows
  /\ count' = [count EXCEPT ![j] = @ + 1]
  /\ late' = [late EXCEPT ![j] = IF coming[j] = "late" THEN @ + 1 ELSE @]
  /\ coming' = [coming EXCEPT ![j] = "no"]
  /\ UNCHANGED <<chats, name, last, clock, edges, disk, fs, phase, outcome, plan,
                 progress, events>>

\* A chunk of history: rows that are not newer than the chat's last_message_time.
HistoryArrives(j) ==
  /\ BetweenRuns /\ count[j] < MaxRows
  /\ chats' = chats \cup {j}
  /\ count' = [count EXCEPT ![j] = @ + 1]
  /\ last' = [last EXCEPT ![j] = IF @ = 0 THEN 1 ELSE @]
  /\ late' = [late EXCEPT ![j] = @ + 1]
  /\ UNCHANGED <<name, clock, edges, coming, disk>>

Rename(j) ==
  /\ BetweenRuns
  /\ \E n \in Names : name' = [name EXCEPT ![j] = n]
  /\ UNCHANGED <<chats, last, count, clock, edges, coming, disk, late>>

LearnAlias ==
  /\ BetweenRuns
  /\ \E e \in Aliases : edges' = edges \cup {e}
  /\ UNCHANGED <<chats, name, last, count, clock, coming, disk, late>>

\* No statement of the bridge removes a chat; the export provides for one that
\* is gone.
RemoveChat(j) ==
  /\ BetweenRuns /\ j \in chats /\ coming[j] = "no"
  /\ chats' = chats \ {j}
  /\ count' = [count EXCEPT ![j] = 0] /\ last' = [last EXCEPT ![j] = 0]
  /\ UNCHANGED <<name, clock, edges, coming, disk, late>>

\* The owner writes a note, or makes one of a chat's file.
OwnerWrites ==
  /\ BetweenRuns
  /\ \/ \E n \in NoteNames : Resolve(disk, n) = {} /\ disk' = disk \cup {Note(n)}
     \/ \E f \in disk : disk' = (disk \ {f}) \cup {[f EXCEPT !.jid = NoJid]}
  /\ UNCHANGED <<chats, name, last, count, clock, edges, coming, late>>

Next ==
  \/ \E f \in Flags : StartExport(f)
  \/ \E u \in units : Heal(u) \/ Write(u)
  \/ GuardAliases \/ Finish \/ Kill \/ Exit
  \/ \E j \in Jids : \/ MessageTime(j) \/ MessageRow(j) \/ HistoryArrives(j)
                     \/ Rename(j) \/ RemoveChat(j)
  \/ LearnAlias \/ OwnerWrites

Spec == Init /\ [][Next]_vars

----------------------------------------------------------------------------
(* Properties *)

\* The file lacks rows of a chat that has n: those aside that a skip cannot see,
\* and a file cut short, which a skip takes for whole.
Lacks(f, j, n) == ~f.cut /\ f.holds[j] + (late[j] - f.late[j]) < n

\* The file of one unit: at its path, of this person, with the histories of
\* all his chats as the plan counted them.
IsExported(u) ==
  \E f \in Target(u) :
    /\ f.jid \in u.members /\ f.closure = u.closure /\ f.last >= u.last
    /\ \A j \in u.members : ~Lacks(f, j, u.counts[j])

\* ReconcileVault's MISSING and COLLISION.
Claims(j) == {f \in disk : f.jid # NoJid /\ j \in f.closure \cup {f.jid}}
Missing(u) == HasRows(u) /\ \A j \in u.members : Claims(j) = {}

\* While the database is as the plan read it, the audit with the same flags
\* plans the same names and misses nothing.
AuditAgrees ==
  Eligible(filters) = units =>
    /\ PlanFor(units, disk).names = file
    /\ \A u \in units : HasRows(u) => ~Missing(u) /\ ~WouldDestroy(u)

\* rc=0 means complete: after an export that reports no error every chat with
\* rows has its file, no two chats share one, and the audit finds none missing.
RunIsComplete ==
  phase = "done" /\ outcome = "ok" =>
    /\ \A u \in units : HasRows(u) => IsExported(u)
    /\ \A u, v \in units :
         u # v /\ HasRows(u) /\ HasRows(v) => Target(u) # Target(v)
    /\ AuditAgrees

\* An export never harms a file it does not manage: of a chat it left out, of
\* one that is gone from the database, or the owner's own.
ForeignFilesSurvive ==
  Running \/ phase = "done" =>
    \A f \in before : f.jid \notin MembersOf(units) => f \in disk

\* An export refuses a plan only when names that carry the whole JID still
\* clash: what more decoration could separate is not refused.
RefusalIsDeserved ==
  outcome = "refused" /\ phase = "done" =>
    \E u \in units :
      \/ FoldKey(NameAt(u, 2)) \in Taken(units, before)
      \/ \E v \in units \ {u} : FoldKey(NameAt(v, 2)) = FoldKey(NameAt(u, 2))

----------------------------------------------------------------------------
(* Why they hold: the inductive invariant, in parts.                       *)

TypeOK ==
  /\ chats \subseteq Jids
  /\ last \in [Jids -> Nat] /\ count \in [Jids -> Nat] /\ clock \in Nat \ {0}
  /\ late \in [Jids -> Nat] /\ coming \in [Jids -> {"no", "new", "late"}]
  /\ fs \in DOMAIN FileSystems
  /\ \A f \in disk \cup before : IsFile(f)
  /\ phase \in {"idle", "heal", "write", "done"}
  /\ outcome \in {"none", "ok", "incomplete", "refused"}

\* Rows and times are those of chats, and no time is from the future.
ChatsInv ==
  /\ \A j \in Jids \ chats : count[j] = 0 /\ last[j] = 0 /\ coming[j] = "no"
  /\ \A j \in Jids : last[j] <= clock

\* A time that is still new is newer than all that was planned and written.
NewInv ==
  \A j \in Jids : coming[j] = "new" =>
    last[j] > 0 /\ \A r \in disk \cup units : r.last < last[j]

\* Entries of the directory differ to its file system.  A chat file that has a
\* time not older than a chat of its closure has all its rows but the late ones.
DiskInv ==
  /\ \A f, g \in disk : FsKey(f.name) = FsKey(g.name) => f = g
  /\ \A f \in disk :
       /\ f.last <= clock
       /\ \A j \in Jids : f.late[j] <= late[j]
       /\ f.jid # NoJid =>
            \A j \in f.closure : last[j] <= f.last => ~Lacks(f, j, count[j])

\* The units are persons and groups apart from each other; since they were
\* planned chats have only gained rows, and those of a chat that the plan has not
\* as a member came late or with a newer time.
UnitsInv ==
  /\ phase = "idle" => units = {} /\ before = {}
  /\ IsFiniteSet(units)
  /\ \A u \in units :
       /\ u.primary \in u.members /\ u.members \subseteq u.closure
       /\ u.closure \subseteq Jids /\ u.members \subseteq chats
       /\ u.last \in Nat /\ u.last <= clock
       /\ \A j \in u.members : u.counts[j] \in Nat /\ u.counts[j] <= count[j]
       /\ u.late \in [u.closure -> Nat] /\ \A j \in u.closure : u.late[j] <= late[j]
       /\ \A j \in u.closure \ u.members :
            last[j] > u.last \/ u.late[j] + count[j] <= late[j]
  /\ \A u, v \in units : u # v => u.closure \cap v.closure = {}

\* The plan was made on `before`, of which everything foreign is still there.
Planned == Running \/ phase = "done"
Foreign == {f \in before : f.jid \notin MembersOf(units)}
PlanInv ==
  Planned =>
    /\ file = PlanFor(units, before).names
    /\ DOMAIN result = {u.primary : u \in units}
    /\ Foreign \subseteq disk
    /\ outcome # "refused" => PlanFor(units, before).residue = {}
    /\ outcome = "none" <=> Running

\* A chat file as new as a unit has what the plan counted in it.
SkipInv ==
  Running =>
    \A u \in units : \A f \in disk : \A j \in u.members \cap f.closure :
      f.jid # NoJid /\ f.last >= u.last => ~Lacks(f, j, u.counts[j])

\* What is yet to be written does not lead to a foreign file; what has been
\* written is there, or a unit that leads to the same entry came after it; and
\* as long as nothing was dropped, no file became foreign.
Landing == {"wrote", "unchanged"}
WriteInv ==
  /\ phase = "heal" => \A u \in units : result[u.primary] = "todo"
  /\ Running =>
       /\ \A u \in units :
            /\ result[u.primary] \in {"todo", "dropped", "empty"} \cup Landing
            /\ result[u.primary] = "empty" => ~HasRows(u)
       /\ (\A u \in units : result[u.primary] # "dropped") =>
            \A f \in disk : f.jid \notin MembersOf(units) => f \in before
  /\ phase = "write" => \A u \in units :
       /\ result[u.primary] = "todo" =>
            \A f \in Foreign : FsKey(f.name) # FsKey(Path(u))
       /\ result[u.primary] \in Landing =>
            \/ IsExported(u)
            \/ \E v \in units \ {u} : /\ FsKey(Path(v)) = FsKey(Path(u))
                                      /\ result[v.primary] \notin {"todo", "empty"}

\* An export that reported no error has exported every unit with rows, and left
\* the names that were taken as it found them.
OkInv ==
  phase = "done" /\ outcome = "ok" =>
    /\ \A u \in units : HasRows(u) => IsExported(u)
    /\ \A u, v \in units :
         u # v /\ HasRows(u) /\ HasRows(v) => Target(u) # Target(v)
    /\ Taken(units, disk) = Taken(units, before)

ExportInv ==
  /\ TypeOK /\ ChatsInv /\ DiskInv /\ NewInv /\ UnitsInv /\ PlanInv /\ SkipInv
  /\ WriteInv /\ OkInv /\ RefusalIsDeserved

=============================================================================
