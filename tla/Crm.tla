-------------------------------- MODULE Crm --------------------------------
(***************************************************************************)
(* One note of the CRM vault and everything that rewrites its frontmatter: *)
(* /api/update-crm and /api/relay-note, the phone backfill and the         *)
(* bootstrap of missing notes (crm.go, handlers_update.go,                 *)
(* handlers_relay.go, backfill_phones.go, create_missing_crm.go), beside   *)
(* the owner, who edits the file by hand.                                  *)
(*                                                                         *)
(* The note has one contact field with its history; it stands for email    *)
(* and emails, and for phone and phones.  Nothing locks the file: a        *)
(* request reads it, and later empties and rewrites it.  Requests are      *)
(* slots that serve one call after another.                                *)
(***************************************************************************)
EXTENDS Naturals, FiniteSets

CONSTANTS
  Requests,       \* calls in flight at once
  Values,         \* addresses or numbers
  NoValue,        \* an empty or absent field
  OwnerContents,  \* what the owner may write into the file
  MaxEvents       \* bound: edits by the owner and stops of the process

\* An entry is written with quotes, as every write of the program is, or bare:
\* YAML reads a bare number as an integer.
Entries == [value : Values, quoted : BOOLEAN]
Contents == [fm : {"absent", "none", "malformed", "ok"},
             primary : Entries \cup {NoValue}, history : SUBSET Entries, body : BOOLEAN]

ASSUME CrmAssumption ==
  /\ NoValue \notin Entries \cup Values
  /\ OwnerContents \subseteq Contents
  /\ \A c \in OwnerContents :
       /\ c.fm = "absent" => c = [fm |-> "absent", primary |-> NoValue, history |-> {},
                                  body |-> FALSE]
       /\ c.fm = "none" => c.primary = NoValue /\ c.history = {}
  /\ MaxEvents \in Nat

VARIABLES
  file,     \* the note: frontmatter, contact field, history, text below
  pc,       \* step of each request
  call,     \* what each request asks: [value, mode]
  seen,     \* the file as the request read it
  events,   \* edits and stops so far
  ever,     \* observer: quoted values the note has held and must not forget
  kept      \* observer: "empty", or where the owner's text stands: in a file
            \* whose frontmatter is "ok", "malformed" or "none"

requests == <<pc, call, seen>>
crmObservers == <<ever, kept>>
crmVars == <<file, pc, call, seen, events, ever, kept>>

Absent == [fm |-> "absent", primary |-> NoValue, history |-> {}, body |-> FALSE]
Torn == [Absent EXCEPT !.fm = "none"]
Quoted(v) == [value |-> v, quoted |-> TRUE]
NoCall == [value |-> NoValue, mode |-> "additive"]

Advance(r, s) == pc' = [pc EXCEPT ![r] = s]
\* The call ends and what it held is gone.
Return(r) ==
  /\ Advance(r, "idle")
  /\ call' = [call EXCEPT ![r] = NoCall]
  /\ seen' = [seen EXCEPT ![r] = Absent]

(***************************************************************************)
(* Reading                                                                 *)
(***************************************************************************)
\* stringField: anything but a string reads as empty.
StringField(e) == IF e # NoValue /\ e.quoted THEN e.value ELSE NoValue

StringSliceField(h) == {e.value : e \in {x \in h : x.quoted}}

\* What a read makes of a file: without a terminated frontmatter nothing, not
\* even the text; of frontmatter that does not parse only the text below it.
ReadCRMFile(c) ==
  CASE c.fm = "ok" -> c
    [] c.fm = "malformed" -> [Absent EXCEPT !.fm = "malformed", !.body = c.body]
    [] OTHER -> [Absent EXCEPT !.fm = c.fm]

Held(c) == ({StringField(c.primary)} \cup StringSliceField(c.history)) \ {NoValue}

KeptIn(c) == IF c.body THEN c.fm ELSE "empty"

CrmInit ==
  /\ file \in OwnerContents
  /\ pc = [r \in Requests |-> "idle"]
  /\ call = [r \in Requests |-> NoCall]
  /\ seen = [r \in Requests |-> Absent]
  /\ events = 0
  /\ ever = Held(file) /\ kept = KeptIn(file)

(***************************************************************************)
(* UpdateCRM                                                               *)
(***************************************************************************)
\* A bug: the old value is kept only if there is a history already.
MergedOnce(old, existing, v) ==
  LET arr == StringSliceField(old) \ {v} IN
  IF arr = {} THEN {} ELSE (arr \cup {existing}) \ {NoValue}

\* The history without the new value and with the one it replaces.
Merged(old, existing, v) ==
  ((StringSliceField(old) \ {v}) \cup {existing}) \ {NoValue}

\* replacePrimary; an empty history is not written.
Rotated(c, v) ==
  LET merged == Merged(c.history, StringField(c.primary), v) IN
  [c EXCEPT !.primary = Quoted(v),
            !.history = IF merged = {} THEN @ ELSE {Quoted(m) : m \in merged}]

\* Something is written: additive fills an empty field, force overwrites any, a
\* rotation wants a different value, and "other" are updates of the company, the
\* role, the tags and the like, which rewrite the file and leave the contact.
Changes(c, ask) ==
  CASE ask.mode = "additive" -> StringField(c.primary) = NoValue
    [] ask.mode = "replace_primary" -> StringField(c.primary) # ask.value
    [] OTHER -> TRUE

\* What is written for a file read as c: the frontmatter marshalled anew, and
\* the text that was read; or a whole new note.
Output(c, ask) ==
  CASE ask.mode = "create" ->
         [fm |-> "ok", primary |-> Quoted(ask.value), history |-> {}, body |-> TRUE]
    [] ask.mode = "replace_primary" -> [Rotated(c, ask.value) EXCEPT !.fm = "ok"]
    [] ask.mode = "other" -> [c EXCEPT !.fm = "ok"]
    [] OTHER -> [c EXCEPT !.fm = "ok", !.primary = Quoted(ask.value)]

\* A file that is gone or does not parse is refused.
MayWrite(c) == c.fm \in {"none", "ok"}

(***************************************************************************)
(* The callers                                                             *)
(***************************************************************************)
\* update-crm and relay-note look the note up and call UpdateCRM, and so does
\* create-missing-crm for a person who has a note already.
Ask(r, v, mode) ==
  /\ pc[r] = "idle" /\ file.fm # "absent"
  /\ call' = [call EXCEPT ![r] = [value |-> v, mode |-> mode]]
  /\ Advance(r, "read")
  /\ UNCHANGED <<file, seen, events, crmObservers>>

\* backfill-phones collects the numbers of every contact whose name matches
\* and acts on a note without a number that has exactly one candidate.
PlanBackfill(r, phones) ==
  /\ pc[r] = "idle" /\ file.fm # "absent"
  /\ StringField(ReadCRMFile(file).primary) = NoValue
  /\ Cardinality(phones) = 1
  /\ \E v \in phones : call' = [call EXCEPT ![r] = [value |-> v, mode |-> "additive"]]
  /\ Advance(r, "read")
  /\ UNCHANGED <<file, seen, events, crmObservers>>

\* create-missing-crm found no note of the person: it will write a whole one.
PlanCreate(r, v) ==
  /\ pc[r] = "idle" /\ file = Absent
  /\ call' = [call EXCEPT ![r] = [value |-> v, mode |-> "create"]]
  /\ seen' = [seen EXCEPT ![r] = Absent]
  /\ Advance(r, "write")
  /\ UNCHANGED <<file, events, crmObservers>>

Read(r) ==
  /\ pc[r] = "read"
  /\ IF MayWrite(file) /\ Changes(ReadCRMFile(file), call[r])
       THEN seen' = [seen EXCEPT ![r] = file] /\ Advance(r, "write") /\ UNCHANGED call
       ELSE Return(r)
  /\ UNCHANGED <<file, events, crmObservers>>

\* os.WriteFile empties the file, or creates it, and then writes it.  Nothing
\* compares it with what was read.
Truncate(r) ==
  /\ pc[r] = "write"
  /\ file' = Torn
  /\ Advance(r, IF file = seen[r] THEN "finish" ELSE "finishOver")
  /\ UNCHANGED <<call, seen, events, crmObservers>>

\* The observers start anew from a file that another writer changed since the
\* read, or touched between the two steps of the write.
Finish(r) ==
  /\ pc[r] \in {"finish", "finishOver"}
  /\ file' = Output(ReadCRMFile(seen[r]), call[r])
  /\ Return(r)
  /\ LET overtaken == pc[r] = "finishOver" \/ file # Torn IN
     /\ ever' = IF overtaken \/ call[r].mode = "force" THEN Held(file') ELSE ever \cup Held(file')
     /\ kept' = IF overtaken \/ call[r].mode = "create" THEN KeptIn(file') ELSE kept
  /\ UNCHANGED events

(***************************************************************************)
(* The owner and the end of the process                                    *)
(***************************************************************************)
Settled == \A r \in Requests : pc[r] \notin {"finish", "finishOver"}

OwnerEdits(c) ==
  /\ events < MaxEvents /\ events' = events + 1
  /\ file' = c
  /\ ever' = Held(c) /\ kept' = KeptIn(c)
  /\ UNCHANGED requests

ProcessStops ==
  /\ events < MaxEvents /\ events' = events + 1
  /\ pc' = [r \in Requests |-> "idle"]
  /\ call' = [r \in Requests |-> NoCall] /\ seen' = [r \in Requests |-> Absent]
  /\ IF Settled THEN UNCHANGED crmObservers ELSE ever' = Held(file) /\ kept' = KeptIn(file)
  /\ UNCHANGED file

CrmNext ==
  \/ \E r \in Requests :
       \/ \E v \in Values, mode \in {"additive", "replace_primary", "force"} : Ask(r, v, mode)
       \/ Ask(r, NoValue, "other")
       \/ \E phones \in SUBSET Values : PlanBackfill(r, phones)
       \/ \E v \in Values : PlanCreate(r, v)
       \/ Read(r) \/ Truncate(r) \/ Finish(r)
  \/ \E c \in OwnerContents : OwnerEdits(c)
  \/ ProcessStops

CrmSpec == CrmInit /\ [][CrmNext]_crmVars

(***************************************************************************)
(* Properties                                                              *)
(***************************************************************************)
\* Type correctness of the state.
TypeOK ==
  /\ file \in Contents /\ kept \in {"empty", "ok", "malformed", "none"}
  /\ pc \in [Requests -> {"idle", "read", "write", "finish", "finishOver"}]
  /\ call \in [Requests -> [value : Values \cup {NoValue},
                            mode : {"additive", "replace_primary", "force", "other", "create"}]]
  /\ seen \in [Requests -> Contents]
  /\ events \in 0 .. MaxEvents
  /\ ever \subseteq Values

\* "closes that loop while preserving every prior value in the historical
\* array" (crm.go): after any sequence of additive writes, rotations, backfills
\* and creations, every value the note held as a string is its contact value or
\* in its history.  A forced overwrite, a write over a file that changed since
\* it was read and a write cut short may forget what was there before them.
NothingForgotten == Settled => ever \subseteq Held(file)

\* Why NothingForgotten holds.  A request about to write has read a note that it
\* may write, or plans a whole one where there was none.
Pending(r) == pc[r] \in {"write", "finish", "finishOver"}
CallInv ==
  /\ file.fm = "absent" => file = Absent
  /\ file.fm = "none" => Held(file) = {}
  /\ \A r \in Requests :
       /\ pc[r] # "idle" => call[r].value \in Values \/ call[r].mode = "other"
       /\ pc[r] = "read" => call[r].mode # "create"
       /\ Pending(r) =>
            IF call[r].mode = "create" THEN seen[r] = Absent
            ELSE MayWrite(seen[r]) /\ Changes(ReadCRMFile(seen[r]), call[r])

\* And the last writer of an emptied file has in hand all that was in it.
Writing(r) == pc[r] \in {"finish", "finishOver"}
LastInv ==
  \A r \in Requests :
    (file = Torn /\ pc[r] = "finish" /\ \A q \in Requests \ {r} : ~Writing(q))
      => ever \subseteq Held(ReadCRMFile(seen[r]))

\* "Never touches body content; only frontmatter" (crm.go): the text of a note
\* outlives every update.  The code keeps it only below a frontmatter that
\* ends: it violates this property, which no configuration checks.
BodyIsKept == (Settled /\ kept # "empty") => file.body
=============================================================================
