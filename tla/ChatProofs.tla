------------------------------ MODULE ChatProofs ------------------------------
(***************************************************************************)
(* Proofs about ChatNames and Voice, for any labels, notes, settings and   *)
(* limits: a group keeps its subject, a chat loses its name only with its  *)
(* label, and a chat the owner keeps out of transcription stays out.       *)
(***************************************************************************)
EXTENDS ChatNames, Voice, FiniteSetTheorems, TLAPS

-----------------------------------------------------------------------------
(* What a chat is called.                                                  *)

LEMMA NamesInitial == Init => NamesInv
<1> SUFFICES ASSUME Init PROVE NamesInv
  OBVIOUS
<1>1. name \in [Chats -> Labels \union Nameless \union Others]
  BY DEF Init, Nameless, Others
<1>2. live \in [at : {"idle", "upsert", "alias"}, chat : Chats,
                name : Labels \union {"null", "push"}]
      /\ live.name = "null"
  BY DEF Init, NoLive, Chats
<1>3. events \in Seq(Labels \union {"none"})
  BY DEF Init
<1> QED
  BY <1>1, <1>2, <1>3 DEF Init, NamesInv, TypeOK

\* Labels are not the words the model uses for what is none.
LEMMA LabelsAreLabels ==
  ASSUME NEW l \in Labels
  PROVE  l \notin Nameless /\ l \notin {"none", "idle", "null", "absent", "push", "subject"}
BY NamesAssumption DEF Nameless, Others

\* The statements that write the names of chats.
Contacts == RenameChats \/ SyncCommit
Writers(c) == Undecryptable(c) \/ HistoryNames(c) \/ ImportBaileys(c)
GroupWriters == JoinedGroup \/ SyncGroups

LEMMA RenamedTyped ==
  ASSUME NamesInv, NEW l \in Labels \union {"none"}
  PROVE  /\ Renamed(l) \in [Chats -> Labels \union Nameless \union Others]
         /\ Renamed(l)["group"] = name["group"]
         /\ \A c \in Chats :
              \/ Renamed(l)[c] = name[c]
              \/ Reached(c) /\ Renamed(l)[c] = IF l = "none" THEN "null" ELSE l
BY DEF Renamed, Reached, NamesInv, TypeOK, Nameless, Chats, Direct

\* Every step types its state, and changes names only in these ways.
LEMMA NamesStep ==
  ASSUME NamesInv, [Next]_vars
  PROVE  /\ NamesInv'
         /\ name' # name => \/ UpsertChat \/ Contacts \/ GroupWriters
                            \/ \E c \in Chats : Writers(c)
<1>1. /\ up \in BOOLEAN /\ alias \in BOOLEAN
      /\ book \in Labels \union {"none"} /\ fullName \in Labels \union {"none"}
      /\ snapshot \in Labels \union {"none"}
      /\ events \in Seq(Labels \union {"none"})
      /\ renaming \in Labels \union {"none", "idle"}
      /\ name \in [Chats -> Labels \union Nameless \union Others]
      /\ live \in [at : {"idle", "upsert", "alias"}, chat : Chats,
                   name : Labels \union {"null", "push"}]
      /\ startup \in {"aliases", "groups", "snapshot", "commit", "done"}
      /\ raced \in BOOLEAN /\ changes \in Nat /\ stops \in Nat /\ imports \in Nat
      /\ live.chat = "group" => live.name = "null"
  BY DEF NamesInv, TypeOK
<1>2. /\ NoLive \in [at : {"idle", "upsert", "alias"}, chat : Chats,
                     name : Labels \union {"null", "push"}]
      /\ NoLive.name = "null"
      /\ <<>> \in Seq(Labels \union {"none"})
  BY DEF NoLive, Chats
<1> USE DEF handlers
<1>3. ASSUME NEW l \in Labels \union {"none"}, BookChanges(l)
      PROVE  NamesInv' /\ name' = name
  <2>1. events' \in Seq(Labels \union {"none"})
    BY <1>1, <1>3 DEF BookChanges
  <2>2. /\ book' = l /\ changes' = changes + 1 /\ raced' = FALSE
        /\ UNCHANGED <<up, renaming, live, startup, snapshot, fullName, alias, name, stops, imports>>
    BY <1>3 DEF BookChanges
  <2>3. changes' \in Nat /\ book' \in Labels \union {"none"}
    BY <1>1, <2>2
  <2>4. raced' \in BOOLEAN
    BY <2>2
  <2> QED
    BY <1>1, <2>1, <2>2, <2>3, <2>4 DEF NamesInv, TypeOK
<1>4. ASSUME NEW c \in Chats, NEW incoming \in BOOLEAN, MessageArrives(c, incoming)
      PROVE  NamesInv' /\ name' = name
  <2>1. /\ live' = [at |-> "upsert", chat |-> c, name |->
                      IF c \in Direct /\ BookName(c) # "none" THEN BookName(c)
                      ELSE MessageName(c, incoming)]
        /\ UNCHANGED <<up, book, events, renaming, fullName, alias, name, startup, snapshot,
                       raced, changes, stops, imports>>
    BY <1>4 DEF MessageArrives
  <2>2. /\ BookName(c) \in Labels \union {"none"}
        /\ MessageName(c, incoming) \in {"null", "push"}
        /\ c = "group" => c \notin Direct /\ MessageName(c, incoming) = "null"
    BY <1>1 DEF BookName, MessageName, Direct
  <2>3. /\ live' \in [at : {"idle", "upsert", "alias"}, chat : Chats,
                      name : Labels \union {"null", "push"}]
        /\ live'.chat = "group" => live'.name = "null"
    BY <2>1, <2>2
  <2> QED
    BY <1>1, <2>1, <2>3 DEF NamesInv, TypeOK
<1>5. CASE UpsertChat
  <2>1. live.chat \in Chats /\ live.name \in Labels \union {"null", "push"}
    BY <1>1
  <2>2. name' \in [Chats -> Labels \union Nameless \union Others]
    BY <1>1, <1>5, <2>1 DEF UpsertChat, Upserted, Nameless, Others
  <2>3. /\ live' \in [at : {"idle", "upsert", "alias"}, chat : Chats,
                      name : Labels \union {"null", "push"}]
        /\ live'.name = "null"
    BY <1>1, <1>5 DEF UpsertChat
  <2> QED
    BY <1>1, <1>5, <2>2, <2>3 DEF UpsertChat, NamesInv, TypeOK
<1>6. CASE RecordAlias
  BY <1>1, <1>2, <1>6 DEF RecordAlias, NamesInv, TypeOK
<1>7. CASE ContactEvent
  <2>1. Head(events) \in Labels \union {"none"} /\ Tail(events) \in Seq(Labels \union {"none"})
    BY <1>1, <1>7 DEF ContactEvent
  <2> QED
    BY <1>1, <1>7, <2>1 DEF ContactEvent, NamesInv, TypeOK
<1>8. CASE RenameChats
  <2>1. renaming \in Labels \union {"none"}
    BY <1>1, <1>8 DEF RenameChats
  <2>2. Renamed(renaming) \in [Chats -> Labels \union Nameless \union Others]
    BY <2>1, RenamedTyped
  <2> QED
    BY <1>1, <1>8, <2>2 DEF RenameChats, NamesInv, TypeOK, Contacts
<1>9. CASE SyncAliases \/ SyncSnapshot
  BY <1>1, <1>9 DEF SyncAliases, SyncSnapshot, NamesInv, TypeOK
<1>10. CASE SyncCommit
  <2>1. Renamed(snapshot) \in [Chats -> Labels \union Nameless \union Others]
    BY <1>1, RenamedTyped
  <2> QED
    BY <1>1, <1>10, <2>1 DEF SyncCommit, Undoes, NamesInv, TypeOK, Contacts
<1>11. CASE GroupWriters
  <2>1. name' \in [Chats -> Labels \union Nameless \union Others]
    BY <1>1, <1>11 DEF GroupWriters, JoinedGroup, SyncGroups, GroupUpsert, Nameless, Others
  <2> QED
    BY <1>1, <1>11, <2>1 DEF GroupWriters, JoinedGroup, SyncGroups, NamesInv, TypeOK
<1>12. ASSUME NEW c \in Chats, Writers(c)
       PROVE  NamesInv'
  <2>1. name' \in [Chats -> Labels \union Nameless \union Others]
    BY <1>1, <1>12 DEF Writers, Undecryptable, HistoryNames, ImportBaileys, Nameless, Others
  <2> QED
    BY <1>1, <1>12, <2>1 DEF Writers, Undecryptable, HistoryNames, ImportBaileys, NamesInv, TypeOK
<1>13. CASE Stop
  <2>1. /\ up' = FALSE /\ stops' = stops + 1
        /\ events' = <<>> /\ renaming' = "idle" /\ live' = NoLive
        /\ startup' = "aliases" /\ snapshot' = "none"
        /\ raced' = RemovalLost
        /\ UNCHANGED <<book, fullName, alias, name, changes, imports>>
    BY <1>13 DEF Stop
  <2>2. events' \in Seq(Labels \union {"none"})
    BY <1>2, <2>1
  <2>3. /\ live' \in [at : {"idle", "upsert", "alias"}, chat : Chats,
                      name : Labels \union {"null", "push"}]
        /\ live'.name = "null"
    BY <1>2, <2>1
  <2>4. up' \in BOOLEAN /\ raced' \in BOOLEAN
    BY <2>1 DEF RemovalLost
  <2>5. /\ stops' \in Nat /\ changes' \in Nat /\ imports' \in Nat
        /\ startup' \in {"aliases", "groups", "snapshot", "commit", "done"}
    BY <1>1, <2>1
  <2>6. renaming' \in Labels \union {"none", "idle"} /\ snapshot' \in Labels \union {"none"}
    BY <1>1, <2>1
  <2>7. UNCHANGED <<book, fullName, alias, name>>
    BY <2>1
  <2> QED
    BY <1>1, <2>2, <2>3, <2>4, <2>5, <2>6, <2>7 DEF NamesInv, TypeOK
<1>14. CASE Start \/ UNCHANGED vars
  BY <1>1, <1>14 DEF Start, vars, NamesInv, TypeOK
<1> QED
  <2>1. CASE LiveStep \/ ContactStep
    BY <1>5, <1>6, <1>7, <1>8, <2>1 DEF LiveStep, ContactStep, Contacts, RecordAlias, ContactEvent
  <2>2. CASE StartupStep \/ JoinedGroup
    BY <1>9, <1>10, <1>11, <2>2 DEF StartupStep, GroupWriters, Contacts, SyncAliases, SyncSnapshot
  <2>3. CASE Stop \/ Start \/ UNCHANGED vars
    BY <1>13, <1>14, <2>3 DEF Stop, Start, vars
  <2>4. ASSUME NEW c \in Chats, Undecryptable(c) \/ HistoryNames(c) \/ ImportBaileys(c)
        PROVE  NamesInv' /\ \E d \in Chats : Writers(d)
    BY <1>12, <2>4 DEF Writers
  <2> QED
    BY <1>3, <1>4, <2>1, <2>2, <2>3, <2>4 DEF Next

\* What each of them writes into a group.
LEMMA GroupStep ==
  ASSUME NamesInv, [Next]_vars, imports' = imports, name["group"] # name'["group"]
  PROVE  name["group"] # "subject" /\ name'["group"] \in {"null", "empty", "subject"}
<1>1. /\ name \in [Chats -> Labels \union Nameless \union Others] /\ "group" \in Chats
      /\ live.chat \in Chats /\ (live.chat = "group" => live.name = "null")
      /\ renaming \in Labels \union {"none", "idle"}
      /\ snapshot \in Labels \union {"none"}
  BY DEF NamesInv, TypeOK, Chats
<1>2. CASE UpsertChat
  BY <1>1, <1>2 DEF UpsertChat, Upserted
<1>3. CASE Contacts
  <2>1. \A l \in Labels \union {"none"} : Renamed(l)["group"] = name["group"]
    BY RenamedTyped
  <2> QED
    BY <1>1, <1>3, <2>1 DEF Contacts, RenameChats, SyncCommit
<1>4. CASE GroupWriters
  BY <1>1, <1>4 DEF GroupWriters, JoinedGroup, SyncGroups, GroupUpsert
<1>5. ASSUME NEW c \in Chats, Writers(c)
      PROVE  name["group"] # "subject" /\ name'["group"] \in {"null", "empty", "subject"}
  BY <1>1, <1>5 DEF Writers, Undecryptable, HistoryNames, ImportBaileys, Direct, NamesInv, TypeOK
<1> QED
  BY <1>2, <1>3, <1>4, <1>5, NamesStep

\* And where they leave a chat without a name that had one.
LEMMA BlankStep ==
  ASSUME NamesInv, [Next]_vars,
         NEW c \in Chats, name[c] \notin Nameless, name'[c] \in Nameless
  PROVE  renaming = "none" /\ Reached(c)
<1>1. /\ name \in [Chats -> Labels \union Nameless \union Others] /\ "group" \in Chats
      /\ live.chat \in Chats /\ live.name \in Labels \union {"null", "push"}
      /\ renaming \in Labels \union {"none", "idle"}
      /\ snapshot \in Labels \union {"none"}
      /\ "absent" \in Nameless /\ "null" \in Nameless /\ "push" \notin Nameless
  BY DEF NamesInv, TypeOK, Chats, Nameless
<1>2. name' # name
  OBVIOUS
<1>3. CASE UpsertChat
  <2>1. c = live.chat
    BY <1>1, <1>3 DEF UpsertChat
  <2>2. name'[c] = Upserted(name[c], live.name)
    BY <1>1, <1>3, <2>1 DEF UpsertChat
  <2>3. live.name # "null" => live.name \notin Nameless
    BY <1>1, LabelsAreLabels
  <2> QED
    BY <1>1, <2>2, <2>3 DEF Upserted
<1>4. CASE Contacts
  <2>1. \A l \in Labels \union {"none"} :
          \/ Renamed(l)[c] = name[c]
          \/ Reached(c) /\ Renamed(l)[c] = IF l = "none" THEN "null" ELSE l
    BY RenamedTyped
  <2>2. \A l \in Labels : Renamed(l)[c] \notin Nameless
    BY <2>1, LabelsAreLabels
  <2>3. CASE RenameChats
    BY <1>1, <2>1, <2>2, <2>3 DEF RenameChats
  <2>4. CASE SyncCommit
    BY <1>1, <2>2, <2>4 DEF SyncCommit
  <2> QED
    BY <1>4, <2>3, <2>4 DEF Contacts
<1>5. CASE GroupWriters
  BY <1>1, <1>5 DEF GroupWriters, JoinedGroup, SyncGroups, GroupUpsert, Nameless
<1>6. ASSUME NEW d \in Chats, Writers(d) PROVE FALSE
  BY <1>1, <1>6 DEF Writers, Undecryptable, HistoryNames, ImportBaileys, Nameless
<1> QED
  BY <1>2, <1>3, <1>4, <1>5, <1>6, NamesStep

LEMMA NamesHold == Init /\ [][Next]_vars => []NamesInv
<1>1. NamesInv /\ [Next]_vars => NamesInv'
  BY NamesStep
<1> QED
  BY <1>1, NamesInitial, PTL

\* A group is called what its own metadata says, whoever speaks or is renamed,
\* and keeps its subject through all that the bridge does; the import of an
\* older store is another process, which overwrites it (groups.go:82-91,
\* contacts_sync.go:75-77, import_baileys.go:197-206).
THEOREM GroupsKeepSubjects == Spec => GroupKeepsSubject
<1>1. NamesInv /\ [Next]_vars =>
        [imports' = imports /\ name["group"] # name'["group"] =>
           /\ name["group"] # "subject"
           /\ name'["group"] \in {"null", "empty", "subject"}]_vars
  BY GroupStep
<1> QED
  BY <1>1, NamesHold, PTL DEF Spec, GroupKeepsSubject

\* A chat loses its name only when the owner takes the label of its person away,
\* whichever goroutines overlap (bridge.go:374-376).
THEOREM NamesAreKept == Spec => NamesAreNotBlanked
<1>1. NamesInv /\ [Next]_vars =>
        [\A c \in Chats : name[c] \notin Nameless /\ name'[c] \in Nameless =>
            renaming = "none" /\ Reached(c)]_vars
  BY BlankStep
<1> QED
  BY <1>1, NamesHold, PTL DEF Spec, NamesAreNotBlanked

-----------------------------------------------------------------------------
(* What is kept out of transcription.                                      *)

LEMMA NotesAreFinite ==
  /\ \A S \in SUBSET Notes : IsFiniteSet(S) /\ Cardinality(S) \in Nat
  /\ Pending \subseteq Notes
<1>1. IsFiniteSet(Notes)
  BY VoiceAssumption, FS_Interval DEF Notes
<1> QED
  BY <1>1, FS_Subset, FS_CardinalityType DEF Pending

\* The rows of a sweep are a sequence of notes.
LEMMA NewestTyped ==
  ASSUME NEW rows \in Newest(Pending)
  PROVE  rows \in Seq(Notes)
<1> DEFINE k == IF Cardinality(Pending) < Limit THEN Cardinality(Pending) ELSE Limit
<1>1. k \in Nat
  BY NotesAreFinite, VoiceAssumption
<1>2. rows \in [1..k -> Pending]
  BY DEF Newest
<1> HIDE DEF k
<1>3. rows \in [1..k -> Notes]
  BY <1>2, NotesAreFinite
<1> QED
  BY <1>1, <1>3

LEMMA VoiceInitial == VoiceInit => VoiceInv
BY DEF VoiceInit, VoiceInv, NoBatch

LEMMA EnqueueTyped ==
  ASSUME queue \in Seq(Notes), NEW n \in Notes, Enqueue(n)
  PROVE  queue' \in Seq(Notes)
BY DEF Enqueue

LEMMA VoiceStep == VoiceInv /\ [VoiceNext]_voiceVars => VoiceInv'
<1> SUFFICES ASSUME VoiceInv, [VoiceNext]_voiceVars PROVE VoiceInv'
  OBVIOUS
<1> USE DEF VoiceInv, counters
<1>1. CASE HandlerEnqueues
  BY <1>1, EnqueueTyped DEF HandlerEnqueues
<1>2. ASSUME NEW s \in Sweepers, SweepBegin(s) PROVE VoiceInv'
  BY <1>2, NewestTyped DEF SweepBegin
<1>3. ASSUME NEW s \in Sweepers, SweepEnqueue(s) PROVE VoiceInv'
  <2>1. /\ batch[s] \in Seq(Notes) /\ batch[s] # <<>> /\ Enqueue(Head(batch[s]))
        /\ batch' = [batch EXCEPT ![s] = Tail(@)] /\ handling' = handling
    BY <1>3 DEF SweepEnqueue
  <2>2. Head(batch[s]) \in Notes /\ Tail(batch[s]) \in Seq(Notes)
    BY <2>1
  <2>3. queue' \in Seq(Notes)
    BY <2>1, <2>2, EnqueueTyped
  <2> QED
    BY <2>1, <2>2, <2>3
<1>4. CASE WorkerTakes
  BY <1>4 DEF WorkerTakes
<1>5. CASE WorkerEnds
  BY <1>5 DEF WorkerEnds, WorkerFails, WorkerGivesUp, WorkerPersists
<1>6. CASE Drained \/ Panics \/ Killed
  <2>1. queue' = <<>> /\ handling' = NoNote /\ batch' = NoBatch
    BY <1>6 DEF Drained, Panics, Killed, Dies
  <2>2. NoBatch \in [Sweepers -> Seq(Notes)]
    BY DEF NoBatch
  <2> QED
    BY <2>1, <2>2
<1>7. CASE Close \/ ProcessStarts \/ NoteAges \/ UNCHANGED voiceVars
  BY <1>7 DEF Close, ProcessStarts, NoteAges, voiceVars
<1>8. ASSUME NEW n \in Notes, NoteArrives(n) \/ HistoryNote(n) PROVE VoiceInv'
  BY <1>8 DEF NoteArrives, HistoryNote
<1>9. ASSUME NEW c \in VoiceChats, ChatNamed(c) PROVE VoiceInv'
  BY <1>9 DEF ChatNamed
<1> QED
  BY <1>1, <1>2, <1>3, <1>4, <1>5, <1>6, <1>7, <1>8, <1>9 DEF VoiceNext

\* The jobs of a chat are finitely many.
LEMMA InHandFinite ==
  ASSUME VoiceInv, NEW c
  PROVE  IsFiniteSet(InHand(c)) /\ Cardinality(InHand(c)) \in Nat
<1>1. Len(queue) \in Nat /\ DOMAIN queue = 1 .. Len(queue)
  BY DEF VoiceInv
<1>2. IsFiniteSet(1 .. Len(queue)) /\ InHand(c) \subseteq 1 .. Len(queue)
  BY <1>1, FS_Interval DEF InHand
<1> QED
  BY <1>2, FS_Subset, FS_CardinalityType

\* A note of a private chat is not offered.
LEMMA PrivateIsExcluded ==
  ASSUME NEW n \in Notes, NEW found \in BOOLEAN, Private(Chat[n])
  PROVE  ~Offered(n, found)
BY DEF Private, Offered, Excluded

\* So an enqueue adds none of them.
LEMMA EnqueueKeepsOut ==
  ASSUME VoiceInv, NEW n \in Notes, Enqueue(n), NEW c \in VoiceChats, Private(c)
  PROVE  InHand(c)' = InHand(c)
<1>1. CASE queue' = queue
  BY <1>1 DEF InHand
<1>2. CASE queue' # queue
  <2>1. PICK found \in BOOLEAN : Offered(n, found) /\ queue' = Append(queue, n)
    BY <1>2 DEF Enqueue
  <2>2. Chat[n] # c
    BY <2>1, PrivateIsExcluded
  <2>3. /\ queue \in Seq(Notes) /\ Len(queue) \in Nat /\ DOMAIN queue = 1 .. Len(queue)
        /\ DOMAIN queue' = 1 .. Len(queue) + 1
        /\ \A i \in 1 .. Len(queue) : queue'[i] = queue[i]
        /\ queue'[Len(queue) + 1] = n
    BY <2>1 DEF VoiceInv
  <2>4. \A i : i \in DOMAIN queue' <=> i \in DOMAIN queue \/ i = Len(queue) + 1
    BY <2>3
  <2>5. \A i : i \in DOMAIN queue' /\ Chat[queue'[i]] = c
                 <=> i \in DOMAIN queue /\ Chat[queue[i]] = c
    BY <2>2, <2>3, <2>4
  <2> QED
    BY <2>5 DEF InHand
<1> QED
  BY <1>1, <1>2

\* The worker only takes.
LEMMA TakingShrinks ==
  ASSUME VoiceInv, WorkerTakes, NEW c
  PROVE  Cardinality(InHand(c)') <= Cardinality(InHand(c))
<1> DEFINE S == {i \in DOMAIN Tail(queue) : Chat[Tail(queue)[i]] = c}
           T == InHand(c)
           f == [i \in S |-> i + 1]
<1>1. InHand(c)' = S
  BY DEF InHand, WorkerTakes
<1>2. /\ Len(queue) \in Nat \ {0} /\ DOMAIN queue = 1 .. Len(queue)
      /\ DOMAIN Tail(queue) = 1 .. Len(queue) - 1
      /\ \A i \in 1 .. Len(queue) - 1 : Tail(queue)[i] = queue[i + 1]
  BY DEF VoiceInv, WorkerTakes
<1>3. \A i \in S : i \in Nat /\ i + 1 \in T
  BY <1>2 DEF InHand
<1> HIDE DEF S, T
<1>4. f \in Injection(S, T)
  <2>1. f \in [S -> T]
    BY <1>3
  <2>2. \A i, j \in S : f[i] = f[j] => i = j
    BY <1>3
  <2> QED
    BY <2>1, <2>2 DEF Injection, IsInjective
<1>5. IsFiniteSet(T)
  BY InHandFinite DEF T
<1> QED
  BY <1>1, <1>4, <1>5, FS_Injection DEF T

LEMMA PrivateStep ==
  ASSUME VoiceInv, [VoiceNext]_voiceVars, NEW c \in VoiceChats, Private(c)
  PROVE  Cardinality(InHand(c)') <= Cardinality(InHand(c))
<1>1. Cardinality(InHand(c)) \in Nat
  BY InHandFinite
<1>2. InHand(c)' = InHand(c) => Cardinality(InHand(c)') <= Cardinality(InHand(c))
  BY <1>1
<1> USE DEF counters
<1>3. CASE HandlerEnqueues
  <2>1. handling \in Notes
    BY <1>3 DEF HandlerEnqueues, VoiceInv
  <2> QED
    BY <1>2, <1>3, <2>1, EnqueueKeepsOut DEF HandlerEnqueues
<1>4. ASSUME NEW s \in Sweepers, SweepEnqueue(s)
      PROVE  Cardinality(InHand(c)') <= Cardinality(InHand(c))
  <2>1. Head(batch[s]) \in Notes
    BY <1>4 DEF SweepEnqueue, VoiceInv
  <2> QED
    BY <1>2, <1>4, <2>1, EnqueueKeepsOut DEF SweepEnqueue
<1>5. CASE WorkerTakes
  BY <1>5, TakingShrinks
<1>6. CASE Drained \/ Panics \/ Killed
  <2>0. queue' = <<>>
    BY <1>6 DEF Drained, Panics, Killed, Dies
  <2>1. InHand(c)' = {}
    BY <2>0 DEF InHand
  <2> QED
    BY <1>1, <2>1, FS_EmptySet
<1>7. CASE queue' = queue
  <2>1. InHand(c)' = InHand(c)
    BY <1>7 DEF InHand
  <2> QED
    BY <1>2, <2>1
<1> QED
  <2>1. ASSUME NEW s \in Sweepers, SweepBegin(s) PROVE queue' = queue
    BY <2>1 DEF SweepBegin
  <2>2. ASSUME NEW n \in Notes, NoteArrives(n) \/ HistoryNote(n) PROVE queue' = queue
    BY <2>2 DEF NoteArrives, HistoryNote
  <2>3. ASSUME NEW d \in VoiceChats, ChatNamed(d) PROVE queue' = queue
    BY <2>3 DEF ChatNamed
  <2>4. WorkerEnds => queue' = queue
    BY DEF WorkerEnds, WorkerFails, WorkerGivesUp, WorkerPersists
  <2>5. Close \/ ProcessStarts \/ NoteAges \/ UNCHANGED voiceVars => queue' = queue
    BY DEF Close, ProcessStarts, NoteAges, voiceVars
  <2> QED
    BY <1>3, <1>4, <1>5, <1>6, <1>7, <2>1, <2>2, <2>3, <2>4, <2>5 DEF VoiceNext

\* Once the store knows a chat that the settings exclude - and, with an
\* only-list, from the start - no note of it is queued, live, swept, asked for
\* or after a restart, whichever lookups fail (whisper.go, backfill.go).
THEOREM PrivateChatsStayOut == VoiceSpec => PrivateChatsAreClosed
<1>1. VoiceInv /\ [VoiceNext]_voiceVars =>
        [\A c \in VoiceChats :
           Private(c) /\ config' = config =>
             Cardinality(InHand(c)') <= Cardinality(InHand(c))]_voiceVars
  BY PrivateStep
<1> QED
  BY <1>1, VoiceInitial, VoiceStep, PTL DEF VoiceSpec, PrivateChatsAreClosed
=============================================================================
