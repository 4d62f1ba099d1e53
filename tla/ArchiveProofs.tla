--------------------------- MODULE ArchiveProofs ---------------------------
(***************************************************************************)
(* Proofs about Archive.  RowMove says what a step may do to a row; every  *)
(* action is shown to do no more, and the invariant, the action properties *)
(* and the refinement of ArchiveContract follow from RowMove for any       *)
(* number of messages.                                                     *)
(***************************************************************************)
EXTENDS Archive, TLAPS

\* What a step does to the row of m, if anything: it is created, or a blank or a
\* placeholder takes the message's content; the label is left alone, or agrees
\* with the new content, or is NULL; keys are not lost.
RowMove(m) ==
    /\ row'[m] \in RowSet
    /\ \/ row'[m].content = row[m].content
       \/ row[m] = NoRow /\ row'[m].content \in {payload[m], "marker"}
       \/ /\ row[m].content \in {"empty", "marker"}
          /\ row'[m].content = payload[m] /\ payload[m] # "empty"
    /\ \/ row'[m].raw = "null" \/ row'[m].raw = Label(row'[m].content)
       \/ row'[m].content = row[m].content /\ row'[m].raw = row[m].raw
    /\ row[m].key => row'[m].key
    /\ row'[m].key => HasKeys(payload[m])
    /\ row[m] = NoRow => row'[m] = NoRow \/ row'[m].content # "none"

\* Labels are labels, and a decoded row is a row.
LEMMA LabelType == \A c \in Contents : Label(c) \in Labels
BY DEF Label, Labels, Contents, Payloads

\* What the decoder stores for a message is a row with its content.
LEMMA DecodedShape ==
    ASSUME TypeOK, NEW m \in Msgs
    PROVE  /\ Decoded(m) \in RowSet
           /\ Decoded(m).content = payload[m]
           /\ Decoded(m).raw = Label(payload[m])
           /\ Decoded(m).key = HasKeys(payload[m])
           /\ payload[m] \in Payloads
BY LabelType DEF TypeOK, Decoded, Row, RowSet, HasKeys, Payloads, Contents

\* What history and the send store is a row with the message's content, without
\* a label; history sees no keys that the message does not have.
LEMMA RecalledShape ==
    ASSUME TypeOK, NEW m \in Msgs
    PROVE  /\ Recalled(m) \in RowSet /\ Recalled(m).content = payload[m]
           /\ Recalled(m).raw = "null" /\ (Recalled(m).key => HasKeys(payload[m]))
           /\ [Decoded(m) EXCEPT !.raw = "null"] \in RowSet
           /\ [Decoded(m) EXCEPT !.raw = "null"].content = payload[m]
           /\ [Decoded(m) EXCEPT !.raw = "null"].raw = "null"
           /\ [Decoded(m) EXCEPT !.raw = "null"].key = HasKeys(payload[m])
<1>1. /\ Recalled(m) = Row(payload[m], "null", ShowsKeys(payload[m]))
      /\ payload[m] \in Contents /\ ShowsKeys(payload[m]) \in BOOLEAN
      /\ "null" \in Labels /\ (ShowsKeys(payload[m]) => HasKeys(payload[m]))
  BY DEF TypeOK, Recalled, ShowsKeys, HasKeys, Payloads, Contents, Labels
<1>2. /\ Recalled(m) \in RowSet /\ Recalled(m).content = payload[m]
      /\ Recalled(m).raw = "null" /\ (Recalled(m).key => HasKeys(payload[m]))
  BY <1>1 DEF Row, RowSet
<1> QED
  BY <1>1, <1>2, DecodedShape DEF RowSet

\* A row no step touches moves trivially.
LEMMA Untouched ==
    ASSUME ArchiveInv, NEW m \in Msgs, row'[m] = row[m]
    PROVE  RowMove(m)
BY DEF ArchiveInv, TypeOK, RowShape, RowMove, NoRow, Row

\* The live steps that write a row.
LEMMA LiveMoves ==
    ASSUME ArchiveInv, LiveMessage \/ LiveMarker
    PROVE  \A m \in Msgs : RowMove(m)
<1> SUFFICES ASSUME NEW m \in Msgs PROVE RowMove(m)
  OBVIOUS
<1>1. CASE row'[m] = row[m]
  BY <1>1, Untouched
<1>2. CASE row'[m] # row[m] /\ LiveMessage
  <2>1. row'[m] = Decoded(m) /\ (row[m] = NoRow \/ (row[m].content = "marker" /\ payload[m] # "empty"))
    <3>1. StoreMessage(live.m) /\ live.m \in Msgs /\ row \in [Msgs -> RowSet]
      BY <1>2 DEF ArchiveInv, TypeOK, LiveMessage
    <3>2. row'[m] = IF m = live.m /\ (row[m] = NoRow \/ (row[m].content = "marker" /\ payload[m] # "empty"))
                    THEN Decoded(m) ELSE row[m]
      BY <3>1 DEF StoreMessage
    <3> QED
      BY <1>2, <3>2
  <2>2. row[m].key => HasKeys(payload[m])
    BY DEF ArchiveInv, RowShape
  <2> QED
    BY <2>1, <2>2, DecodedShape DEF ArchiveInv, RowMove, NoRow, Row, Payloads
<1>3. CASE row'[m] # row[m] /\ LiveMarker
  <2>1. row'[m] = Marker /\ row[m] = NoRow
    BY <1>3 DEF ArchiveInv, TypeOK, LiveMarker
  <2> QED
    BY <2>1 DEF RowMove, Marker, NoRow, Row, RowSet, Label, Labels, Contents
<1> QED
  BY <1>1, <1>2, <1>3

\* The history steps and the send that write a row.
LEMMA HistoryMoves ==
    ASSUME ArchiveInv,
           HistoryDecode \/ HistoryMedia \/ \E n \in Msgs : HistoryInsert(n) \/ ArchiveSent(n)
    PROVE  \A m \in Msgs : RowMove(m)
<1> SUFFICES ASSUME NEW m \in Msgs PROVE RowMove(m)
  OBVIOUS
<1>1. CASE row'[m] = row[m]
  BY <1>1, Untouched
<1>2. CASE row'[m] # row[m] /\ \E n \in Msgs : HistoryInsert(n) \/ ArchiveSent(n)
  <2>1. row'[m] \in {Recalled(m), [Decoded(m) EXCEPT !.raw = "null"]} /\ row[m] = NoRow
    BY <1>2 DEF ArchiveInv, TypeOK, HistoryInsert, ArchiveSent
  <2>2. /\ row'[m] \in RowSet /\ row'[m].content = payload[m]
        /\ row'[m].raw = "null" /\ (row'[m].key => HasKeys(payload[m]))
    BY <2>1, RecalledShape DEF ArchiveInv
  <2> QED
    BY <2>1, <2>2, DecodedShape DEF ArchiveInv, RowMove, NoRow, Row, Payloads
<1>3. CASE row'[m] # row[m] /\ HistoryDecode
  <2>1. /\ row'[m] = [Decoded(m) EXCEPT !.key = row[m].key]
        /\ HasText(payload[m]) /\ row[m].content = "empty"
    <3>1. hist.m \in Msgs /\ row \in [Msgs -> RowSet]
      BY <1>3 DEF ArchiveInv, TypeOK, HistoryDecode
    <3>2. PICK ok \in DbOutcomes :
             row' = [row EXCEPT ![hist.m] =
                        IF ok /\ HasText(payload[hist.m]) /\ @.content = "empty"
                        THEN [Decoded(hist.m) EXCEPT !.key = row[hist.m].key] ELSE @]
      BY <1>3 DEF HistoryDecode
    <3>3. row'[m] = IF m = hist.m /\ ok /\ HasText(payload[m]) /\ row[m].content = "empty"
                    THEN [Decoded(m) EXCEPT !.key = row[m].key] ELSE row[m]
      BY <3>1, <3>2
    <3> QED
      BY <1>3, <3>3
  <2>2. row[m].key \in BOOLEAN /\ (row[m].key => HasKeys(payload[m]))
    BY DEF ArchiveInv, TypeOK, RowShape, RowSet
  <2>3. /\ row'[m] \in RowSet /\ row'[m].content = payload[m]
        /\ row'[m].raw = Label(payload[m]) /\ row'[m].key = row[m].key
    BY <2>1, <2>2, DecodedShape DEF ArchiveInv, RowSet
  <2> QED
    BY <2>1, <2>2, <2>3 DEF RowMove, NoRow, Row, HasText
<1>4. CASE row'[m] # row[m] /\ HistoryMedia
  <2>1. row'[m] = [row[m] EXCEPT !.key = @ \/ ShowsKeys(payload[m])] /\ m = hist.m /\ hist.at = "media"
    BY <1>4 DEF ArchiveInv, TypeOK, HistoryMedia
  <2>2. row[m] \in RowSet /\ row[m].content # "none" /\ (row[m].key => HasKeys(payload[m]))
    BY <2>1 DEF ArchiveInv, TypeOK, RowShape, ChunkShape
  <2>3. /\ row'[m] \in RowSet /\ row'[m].content = row[m].content /\ row'[m].raw = row[m].raw
        /\ row'[m].key = (row[m].key \/ ShowsKeys(payload[m]))
    BY <2>1, <2>2 DEF RowSet, ShowsKeys
  <2> QED
    BY <2>2, <2>3 DEF RowMove, NoRow, Row, ShowsKeys, HasKeys
<1> QED
  BY <1>1, <1>2, <1>3, <1>4

\* No step does more to a row than RowMove allows, nor changes what a message
\* decodes to.
LEMMA RowsMove ==
    ASSUME ArchiveInv, [Next]_vars
    PROVE  payload' = payload /\ \A m \in Msgs : RowMove(m)
<1>1. payload' = payload
  BY DEF Next, vars, Receive, LiveChat, LiveMessage, LiveMarker, HistoryChunk, HistoryChat,
         HistoryInsert, HistoryDecode, HistoryMedia, ArchiveSent, Restart
<1>2. CASE LiveMessage \/ LiveMarker
  BY <1>1, <1>2, LiveMoves
<1>3. CASE HistoryDecode \/ HistoryMedia \/ \E n \in Msgs : HistoryInsert(n) \/ ArchiveSent(n)
  BY <1>1, <1>3, HistoryMoves
<1>4. CASE row' = row
  BY <1>1, <1>4, Untouched
<1> QED
  BY <1>2, <1>3, <1>4
  DEF Next, vars, Receive, LiveChat, HistoryChunk, HistoryChat, Restart

\* The invariant holds in any store the bridge may be started on.
LEMMA ArchiveInitial == Init => ArchiveInv
<1> SUFFICES ASSUME Init PROVE ArchiveInv
  OBVIOUS
<1>1. \A m \in Msgs : /\ row[m] \in RowSet
                      /\ row[m].content \in {"none", "empty", payload[m]}
                      /\ row[m].raw \in {"null", Label(row[m].content)}
                      /\ row[m].content = "none" => row[m] = NoRow
                      /\ row[m].key => HasKeys(payload[m])
  <2> SUFFICES ASSUME NEW m \in Msgs
               PROVE  /\ row[m] \in RowSet
                      /\ row[m].content \in {"none", "empty", payload[m]}
                      /\ row[m].raw \in {"null", Label(row[m].content)}
                      /\ row[m].content = "none" => row[m] = NoRow
                      /\ row[m].key => HasKeys(payload[m])
    OBVIOUS
  <2>1. row[m] \in Legacy(m) /\ payload[m] \in Payloads
    BY DEF Init
  <2>2. CASE row[m] = NoRow
    BY <2>2 DEF NoRow, Row, RowSet, Contents, Labels
  <2>3. CASE row[m] = Row("empty", Label("empty"), FALSE)
    BY <2>3 DEF Row, RowSet, Contents, Payloads, Labels, Label
  <2>4. CASE HasKeys(payload[m]) /\ row[m] = Row(payload[m], "null", FALSE)
    BY <2>1, <2>4 DEF Row, RowSet, Contents, Payloads, Labels, HasKeys
  <2> QED
    BY <2>1, <2>2, <2>3, <2>4 DEF Legacy
<1>2. row \in [Msgs -> RowSet]
  BY <1>1 DEF Init
<1>3. TypeOK
  BY <1>1, <1>2 DEF Init, TypeOK, Idle, NoChunk
<1> QED
  BY <1>1, <1>3 DEF Init, ArchiveInv, LabelNeverLies, RetryRecovers, HistoryRepairs,
                    RowShape, ChunkShape, NoChunk

\* Every step keeps the types.
LEMMA TypeStep ==
    ASSUME ArchiveInv, [Next]_vars
    PROVE  TypeOK'
<1>1. payload' = payload /\ \A m \in Msgs : RowMove(m)
  BY RowsMove
<1>2. /\ row' \in [Msgs -> RowSet]
      /\ \A m \in Msgs : row'[m].content \in {"none", "empty", "marker", payload'[m]}
  <2>1. DOMAIN row' = Msgs /\ row' = [m \in Msgs |-> row'[m]]
    BY DEF ArchiveInv, TypeOK, Next, vars, Receive, LiveChat, LiveMessage, StoreMessage, LiveMarker,
           HistoryChunk, HistoryChat, HistoryInsert, HistoryDecode, HistoryMedia, ArchiveSent, Restart
  <2> QED
    BY <1>1, <2>1 DEF RowMove, ArchiveInv, TypeOK
<1>3. chat' \in BOOLEAN /\ last' \in Msgs \union {0}
  BY DEF ArchiveInv, TypeOK, Next, vars, Receive, LiveChat, LiveMessage, LiveMarker,
         HistoryChunk, HistoryChat, HistoryInsert, HistoryDecode, HistoryMedia, ArchiveSent, Restart
<1>4. /\ live' \in [at : {"idle", "chat", "row"}, kind : {"message", "marker"}, m : Msgs \union {0}]
      /\ live'.at # "idle" => live'.m \in Msgs
  <2> USE DEF ArchiveInv, TypeOK, Idle
  <2>1. CASE \E m \in Msgs, kind \in {"message", "marker"} : Receive(m, kind)
    BY <2>1 DEF Receive
  <2>2. CASE LiveChat
    BY <2>2 DEF LiveChat
  <2>3. CASE live' = live
    BY <2>3
  <2>4. CASE live' = Idle
    BY <2>4
  <2> QED
    BY <2>1, <2>2, <2>3, <2>4
    DEF Next, vars, LiveMessage, LiveMarker, HistoryChunk, HistoryChat, HistoryInsert,
        HistoryDecode, HistoryMedia, ArchiveSent, Restart
<1>5. /\ hist' \in [at : {"idle", "chat", "insert", "decode", "media"}, todo : SUBSET Msgs,
                    m : Msgs \union {0}, clean : BOOLEAN]
      /\ hist'.at \in {"decode", "media"} => hist'.m \in Msgs
  <2> USE DEF ArchiveInv, TypeOK, NoChunk, AfterMessage
  <2>1. CASE \E todo \in SUBSET Msgs \ {{}} : HistoryChunk(todo)
    BY <2>1 DEF HistoryChunk
  <2>2. CASE HistoryChat
    <3>1. hist' = [hist EXCEPT !.at = "insert"] \/ hist' = NoChunk
      BY <2>2 DEF HistoryChat
    <3>2. CASE hist' = [hist EXCEPT !.at = "insert"]
      BY <3>2
    <3>3. CASE hist' = NoChunk
      BY <3>3
    <3> QED
      BY <3>1, <3>2, <3>3
  <2>3. CASE HistoryDecode
    BY <2>3, ArchiveAssumption DEF HistoryDecode
  <2>4. CASE HistoryMedia
    BY <2>4 DEF HistoryMedia
  <2>5. CASE \E m \in Msgs : HistoryInsert(m)
    <3>1. PICK m \in Msgs : HistoryInsert(m)
      BY <2>5
    <3>2. \/ hist' = [at |-> "decode", todo |-> hist.todo \ {m}, m |-> m, clean |-> TRUE]
          \/ hist' = [at |-> "insert", todo |-> hist.todo \ {m}, m |-> 0, clean |-> TRUE]
          \/ hist' = NoChunk
      BY <3>1 DEF HistoryInsert
    <3>3. hist.todo \ {m} \in SUBSET Msgs
      OBVIOUS
    <3>4. CASE hist' = [at |-> "decode", todo |-> hist.todo \ {m}, m |-> m, clean |-> TRUE]
      BY <3>3, <3>4
    <3>5. CASE hist' = [at |-> "insert", todo |-> hist.todo \ {m}, m |-> 0, clean |-> TRUE]
      BY <3>3, <3>5
    <3>6. CASE hist' = NoChunk
      BY <3>6
    <3> QED
      BY <3>2, <3>4, <3>5, <3>6
  <2>6. CASE hist' = hist
    BY <2>6
  <2>7. CASE hist' = NoChunk
    BY <2>7
  <2> QED
    BY <2>1, <2>2, <2>3, <2>4, <2>5, <2>6, <2>7
    DEF Next, vars, Receive, LiveChat, LiveMessage, LiveMarker, ArchiveSent, Restart
<1>6. received' \subseteq Msgs /\ recalled' \subseteq Msgs
  BY DEF ArchiveInv, TypeOK, Next, vars, Receive, LiveChat, LiveMessage, LiveMarker,
         HistoryChunk, HistoryChat, HistoryInsert, HistoryDecode, HistoryMedia, ArchiveSent, Restart
<1>7. payload' \in [Msgs -> Payloads]
  BY <1>1 DEF ArchiveInv, TypeOK
<1> QED
  BY <1>2, <1>3, <1>4, <1>5, <1>6, <1>7 DEF TypeOK

\* A message that joins `received` is stored by then, and not as a placeholder.
LEMMA ReceivedStep ==
    ASSUME ArchiveInv, [Next]_vars, NEW m \in received'
    PROVE  /\ row'[m].content # "none"
           /\ payload'[m] # "empty" => row'[m].content # "marker"
<1>1. payload' = payload /\ \A n \in Msgs : RowMove(n)
  BY RowsMove
<1>2. CASE m \in received
  <2>1. m \in Msgs /\ row[m].content # "none" /\ (payload[m] # "empty" => row[m].content # "marker")
    BY <1>2 DEF ArchiveInv, TypeOK, RowShape, RetryRecovers
  <2>2. payload[m] \notin {"none", "marker"}
    BY <2>1 DEF ArchiveInv, TypeOK, Payloads
  <2> QED
    BY <1>1, <2>1, <2>2 DEF RowMove, NoRow, Row
<1>3. CASE m \notin received
  <2>1. m = live.m /\ m \in Msgs /\ StoreMessage(m)
    BY <1>3
    DEF ArchiveInv, TypeOK, Next, vars, Receive, LiveChat, LiveMessage, LiveMarker,
        HistoryChunk, HistoryChat, HistoryInsert, HistoryDecode, HistoryMedia, ArchiveSent, Restart
  <2>2. payload[m] \notin {"none", "marker"} /\ row \in [Msgs -> RowSet]
    BY <2>1 DEF ArchiveInv, TypeOK, Payloads
  <2>3. CASE row[m] = NoRow \/ (row[m].content = "marker" /\ payload[m] # "empty")
    <3>1. row'[m] = Decoded(m)
      BY <2>1, <2>2, <2>3 DEF StoreMessage
    <3> QED
      BY <1>1, <2>1, <2>2, <3>1, DecodedShape DEF ArchiveInv
  <2>4. CASE ~(row[m] = NoRow \/ (row[m].content = "marker" /\ payload[m] # "empty"))
    <3>1. row'[m] = row[m]
      BY <2>1, <2>2, <2>4 DEF StoreMessage
    <3> QED
      BY <1>1, <2>1, <2>4, <3>1 DEF ArchiveInv, RowShape
  <2> QED
    BY <2>3, <2>4
<1> QED
  BY <1>2, <1>3

\* A message that joins `recalled` is stored by then, with its text and keys.
LEMMA RecalledStep ==
    ASSUME ArchiveInv, [Next]_vars, NEW m \in recalled'
    PROVE  /\ row'[m].content # "none"
           /\ HasText(payload'[m]) => row'[m].content # "empty"
           /\ ShowsKeys(payload'[m]) => row'[m].key
<1>1. payload' = payload /\ \A n \in Msgs : RowMove(n)
  BY RowsMove
<1>2. CASE m \in recalled
  <2>1. /\ m \in Msgs /\ row[m].content # "none"
        /\ HasText(payload[m]) => row[m].content \in {payload[m], "marker"}
        /\ ShowsKeys(payload[m]) => row[m].key
    BY <1>2 DEF ArchiveInv, TypeOK, RowShape, HistoryRepairs
  <2>2. payload[m] # "none" /\ (HasText(payload[m]) => payload[m] # "empty")
    BY <2>1 DEF ArchiveInv, TypeOK, Payloads, HasText
  <2> QED
    BY <1>1, <2>1, <2>2 DEF RowMove, NoRow, Row
<1>3. CASE m \notin recalled
  <2>1. /\ HistoryMedia /\ m = hist.m /\ hist.at = "media" /\ hist.clean /\ m \in Msgs
        /\ row' = [row EXCEPT ![m].key = @ \/ ShowsKeys(payload[m])]
    BY <1>3
    DEF ArchiveInv, TypeOK, Next, vars, Receive, LiveChat, LiveMessage, LiveMarker,
        HistoryChunk, HistoryChat, HistoryInsert, HistoryDecode, HistoryMedia, ArchiveSent, Restart
  <2>2. /\ row[m] \in RowSet /\ row[m].content # "none"
        /\ HasText(payload[m]) => row[m].content # "empty"
    BY <2>1 DEF ArchiveInv, TypeOK, ChunkShape
  <2>3. /\ row'[m].content = row[m].content
        /\ row'[m].key = (row[m].key \/ ShowsKeys(payload[m]))
    BY <2>1, <2>2 DEF ArchiveInv, TypeOK, RowSet
  <2> QED
    BY <1>1, <2>2, <2>3
<1> QED
  BY <1>2, <1>3

\* The row a chunk works on: HistoryInsert leaves it stored, HistoryDecode not
\* empty, and other handlers take neither back.
LEMMA ChunkStep ==
    ASSUME ArchiveInv, [Next]_vars
    PROVE  ChunkShape'
<1>1. payload' = payload /\ \A n \in Msgs : RowMove(n)
  BY RowsMove
<1>2. CASE hist' = hist
  <2> SUFFICES ASSUME hist.at \in {"decode", "media"} PROVE ChunkShape'
    BY <1>2 DEF ChunkShape
  <2>1. hist.m \in Msgs /\ RowMove(hist.m)
    BY <1>1 DEF ArchiveInv, TypeOK
  <2>2. payload[hist.m] # "none" /\ (HasText(payload[hist.m]) => payload[hist.m] # "empty")
    BY <2>1 DEF ArchiveInv, TypeOK, Payloads, HasText
  <2> QED
    BY <1>1, <1>2, <2>1, <2>2 DEF ArchiveInv, ChunkShape, RowMove, NoRow, Row
<1>3. CASE hist'.at \notin {"decode", "media"}
  BY <1>3 DEF ChunkShape
<1>4. CASE \E m \in Msgs : HistoryInsert(m) /\ hist'.at \in {"decode", "media"}
  <2>1. PICK m \in Msgs : HistoryInsert(m) /\ hist'.at \in {"decode", "media"}
    BY <1>4
  <2>2. /\ hist'.at = "decode" /\ hist'.m = m
        /\ row' = [row EXCEPT ![m] = IF @ = NoRow THEN Recalled(m) ELSE @]
    BY <2>1 DEF HistoryInsert, AfterMessage, NoChunk
  <2>3. row'[m] = IF row[m] = NoRow THEN Recalled(m) ELSE row[m]
    BY <2>2 DEF ArchiveInv, TypeOK
  <2>4. Recalled(m).content = payload[m] /\ payload[m] # "none"
    BY RecalledShape DEF ArchiveInv, TypeOK, Payloads
  <2>5. row'[m].content # "none"
    BY <2>3, <2>4 DEF ArchiveInv, RowShape
  <2> QED
    BY <2>2, <2>5 DEF ChunkShape
<1>5. CASE HistoryDecode
  <2>1. /\ hist.m \in Msgs /\ hist'.m = hist.m /\ hist'.at = "media"
        /\ row[hist.m].content # "none" /\ row \in [Msgs -> RowSet]
    BY <1>5 DEF ArchiveInv, TypeOK, ChunkShape, HistoryDecode
  <2>2. row'[hist.m].content # "none"
    BY <1>1, <2>1 DEF RowMove, NoRow, Row, ArchiveInv, TypeOK, Payloads
  <2>3. ASSUME hist'.clean, HasText(payload[hist.m]), row[hist.m].content = "empty"
        PROVE  row'[hist.m].content = payload[hist.m]
    <3>1. row' = [row EXCEPT ![hist.m] = [Decoded(hist.m) EXCEPT !.key = row[hist.m].key]]
      BY <1>5, <2>3 DEF ArchiveInv, TypeOK, HistoryDecode
    <3>2. row'[hist.m] = [Decoded(hist.m) EXCEPT !.key = row[hist.m].key]
      BY <2>1, <3>1
    <3> QED
      BY <2>1, <3>2, DecodedShape DEF ArchiveInv, RowSet
  <2>4. HasText(payload[hist.m]) => payload[hist.m] # "empty"
    BY DEF HasText
  <2> QED
    BY <1>1, <2>1, <2>2, <2>3, <2>4 DEF ChunkShape, RowMove, NoRow, Row
<1>6. HistoryMedia => hist'.at \notin {"decode", "media"}
  BY DEF HistoryMedia, AfterMessage, NoChunk
<1>7. \A todo \in SUBSET Msgs : HistoryChunk(todo) => hist'.at \notin {"decode", "media"}
  BY DEF HistoryChunk
<1>8. HistoryChat => hist'.at \notin {"decode", "media"}
  BY DEF ArchiveInv, TypeOK, HistoryChat, NoChunk
<1>9. Restart => hist'.at \notin {"decode", "media"}
  BY DEF Restart, NoChunk
<1>10. \/ hist' = hist \/ HistoryMedia \/ HistoryChat \/ HistoryDecode \/ Restart
       \/ \E todo \in SUBSET Msgs : HistoryChunk(todo)
       \/ \E m \in Msgs : HistoryInsert(m)
  BY DEF Next, vars, Receive, LiveChat, LiveMessage, LiveMarker, ArchiveSent
<1> QED
  BY <1>2, <1>3, <1>4, <1>5, <1>6, <1>7, <1>8, <1>9, <1>10

\* Every step keeps the invariant.
LEMMA ArchiveStep == ArchiveInv /\ [Next]_vars => ArchiveInv'
<1> SUFFICES ASSUME ArchiveInv, [Next]_vars PROVE ArchiveInv'
  OBVIOUS
<1>1. payload' = payload /\ \A m \in Msgs : RowMove(m)
  BY RowsMove
<1>2. TypeOK'
  BY TypeStep
<1>3. LabelNeverLies'
  BY <1>1 DEF ArchiveInv, LabelNeverLies, RowMove
<1>4. RetryRecovers'
  BY ReceivedStep DEF RetryRecovers
<1>5. HistoryRepairs'
  <2> SUFFICES ASSUME NEW m \in recalled'
               PROVE  /\ HasText(payload'[m]) => row'[m].content \in {payload'[m], "marker"}
                      /\ ShowsKeys(payload'[m]) => row'[m].key
    BY DEF HistoryRepairs
  <2>1. m \in Msgs /\ row'[m].content \in {"none", "empty", "marker", payload'[m]}
    BY <1>2 DEF TypeOK
  <2> QED
    BY <2>1, RecalledStep
<1>6. RowShape'
  <2>1. \A m \in Msgs : row'[m].content = "none" => row'[m] = NoRow
    <3> SUFFICES ASSUME NEW m \in Msgs, row'[m].content = "none" PROVE row'[m] = NoRow
      OBVIOUS
    <3>1. row[m].content = "none"
      BY <1>1 DEF RowMove, ArchiveInv, TypeOK, Payloads
    <3>2. row[m] = NoRow
      BY <3>1 DEF ArchiveInv, RowShape
    <3> QED
      BY <1>1, <3>2 DEF RowMove
  <2>2. \A m \in Msgs : row'[m].key => HasKeys(payload'[m])
    BY <1>1 DEF RowMove
  <2>3. \A m \in received' \union recalled' : row'[m].content # "none"
    BY ReceivedStep, RecalledStep
  <2> QED
    BY <2>1, <2>2, <2>3 DEF RowShape, NoRow
<1>7. ChunkShape'
  BY ChunkStep
<1> QED
  BY <1>2, <1>3, <1>4, <1>5, <1>6, <1>7 DEF ArchiveInv

\* The archive's inductive invariant holds in every reachable state: rows,
\* labels, keys and the handlers at work on them stay in step.
THEOREM ArchiveInvariant == Spec => []ArchiveInv
BY ArchiveInitial, ArchiveStep, PTL DEF Spec

\* Types hold: in particular a row never holds another message's content
\* class.
THEOREM ArchiveTypeCorrect == Spec => []TypeOK
<1>1. ArchiveInv => TypeOK
  BY DEF ArchiveInv
<1> QED
  BY <1>1, ArchiveInvariant, PTL

\* A received message is never left behind its placeholder (the upgrade clause
\* of onMessage against onUndecryptableMessage's DO NOTHING).
THEOREM RetriesRecover == Spec => []RetryRecovers
<1>1. ArchiveInv => RetryRecovers
  BY DEF ArchiveInv
<1> QED
  BY <1>1, ArchiveInvariant, PTL

\* History repairs the text and the keys of the rows it delivers again.
THEOREM HistoryRepairsRows == Spec => []HistoryRepairs
<1>1. ArchiveInv => HistoryRepairs
  BY DEF ArchiveInv
<1> QED
  BY <1>1, ArchiveInvariant, PTL

\* raw_type never names something else than the row's content.
THEOREM LabelsAreTrue == Spec => []LabelNeverLies
<1>1. ArchiveInv => LabelNeverLies
  BY DEF ArchiveInv
<1> QED
  BY <1>1, ArchiveInvariant, PTL

\* Stored content is never taken away, by any interleaving of live events,
\* retries, history chunks, sends and restarts.
THEOREM ContentIsKept == Spec => NeverLosesContent
<1>1. ArchiveInv /\ [Next]_vars =>
        [\A m \in Msgs :
            row[m].content \notin {"none", row'[m].content} =>
               /\ row[m].content \in {"empty", "marker"}
               /\ row'[m].content = payload[m] /\ payload[m] # "empty"]_vars
  BY RowsMove DEF RowMove, NoRow, Row
<1> QED
  BY <1>1, ArchiveInvariant, PTL DEF Spec, NeverLosesContent

-----------------------------------------------------------------------------
(* Refinement: every step of the archive is a step of the contract.        *)

\* What a row tells, one row at a time.
LEMMA KnowsRow ==
    ASSUME NEW m \in Msgs
    PROVE  /\ row[m].content = "none" => Knows[m] = "nothing"
           /\ row[m].content = "marker" => Knows[m] = "announced"
           /\ row[m].content = "empty" => Knows[m] = "blank"
           /\ row[m].content \notin {"none", "marker", "empty"} => Knows[m] = "read"
           /\ Knows[m] \in {"nothing", "announced", "blank", "read"}
           /\ Keys[m] = row[m].key
BY DEF Knows, Keys

\* A row that moves records something in the contract's terms.
LEMMA MoveRecords ==
    ASSUME ArchiveInv, ArchiveInv', payload' = payload, NEW m \in Msgs, RowMove(m),
           \A n \in Msgs \ {m} : row'[n] = row[n]
    PROVE  Contract!Record(m, Knows'[m], row'[m].key)
<1>1. /\ row[m] \in RowSet /\ row'[m] \in RowSet /\ payload[m] \in Payloads
      /\ row[m].content \in {"none", "empty", "marker", payload[m]}
  BY DEF ArchiveInv, TypeOK, RowMove
<1>2. Contract!Grows(m, Knows'[m])
  <2>1. CASE row'[m].content = row[m].content
    BY <2>1 DEF Knows, Contract!Grows
  <2>2. CASE row[m] = NoRow /\ row'[m].content \in {payload[m], "marker"}
    <3>1. Knows[m] = "nothing"
      BY <2>2, KnowsRow DEF NoRow, Row
    <3>2. Knows'[m] \in {"announced", Contract!Whole(m)}
      BY <1>1, <2>2 DEF Knows, Contract!Whole, Payloads
    <3> QED
      BY <3>1, <3>2 DEF Contract!Grows
  <2>3. CASE /\ row[m].content \in {"empty", "marker"}
             /\ row'[m].content = payload[m] /\ payload[m] # "empty"
    <3>1. Knows[m] \in {"announced", "blank"}
      BY <2>3, KnowsRow
    <3>2. Knows'[m] = "read" /\ Contract!Whole(m) = "read"
      BY <1>1, <2>3 DEF Knows, Contract!Whole, Payloads
    <3> QED
      BY <3>1, <3>2 DEF Contract!Grows
  <2> QED
    BY <2>1, <2>2, <2>3 DEF RowMove
<1>3. row'[m].key => HasKeys(payload[m]) /\ Knows'[m] # "nothing"
  <2>1. row'[m].key => row'[m].content # "none"
    BY DEF ArchiveInv, RowShape, NoRow, Row
  <2> QED
    BY <1>1, <2>1 DEF RowMove, Knows, Payloads
<1>4. Knows' = [Knows EXCEPT ![m] = Knows'[m]]
  BY DEF Knows
<1>5. Keys' = [Keys EXCEPT ![m] = @ \/ row'[m].key]
  <2>1. row'[m].key = (row[m].key \/ row'[m].key)
    BY <1>1 DEF RowMove, RowSet
  <2> QED
    BY <2>1 DEF Keys
<1> QED
  BY <1>1, <1>2, <1>3, <1>4, <1>5 DEF Contract!Record

\* A step is about one row, and says of one message that it was handled.
LEMMA OneAtATime ==
    ASSUME ArchiveInv, Next
    PROVE  \/ UNCHANGED <<row, received, recalled>>
           \/ \E m \in Msgs :
                /\ \A n \in Msgs \ {m} : row'[n] = row[n]
                /\ \/ row'[m] # row[m] /\ UNCHANGED <<received, recalled>>
                   \/ received' = received \union {m} /\ UNCHANGED recalled
                   \/ recalled' = recalled \union {m} /\ UNCHANGED received
<1> DEFINE Goal ==
       \/ UNCHANGED <<row, received, recalled>>
       \/ \E m \in Msgs :
            /\ \A n \in Msgs \ {m} : row'[n] = row[n]
            /\ \/ row'[m] # row[m] /\ UNCHANGED <<received, recalled>>
               \/ received' = received \union {m} /\ UNCHANGED recalled
               \/ recalled' = recalled \union {m} /\ UNCHANGED received
<1>1. row \in [Msgs -> RowSet]
  BY DEF ArchiveInv, TypeOK
<1>2. ASSUME NEW m \in Msgs, NEW r, row' = [row EXCEPT ![m] = r],
             UNCHANGED <<received, recalled>>
      PROVE  Goal
  <2>1. /\ \A n \in Msgs \ {m} : row'[n] = row[n]
        /\ row'[m] = row[m] => row' = row
    BY <1>1, <1>2
  <2> QED
    BY <1>2, <2>1
<1>3. CASE LiveMessage
  <2>1. live.m \in Msgs
    BY <1>3 DEF LiveMessage, ArchiveInv, TypeOK
  <2>2. CASE StoreMessage(live.m) /\ received' = received \union {live.m} /\ UNCHANGED recalled
    <3>1. \A n \in Msgs \ {live.m} : row'[n] = row[n]
      BY <1>1, <2>2 DEF StoreMessage
    <3> QED
      BY <2>1, <2>2, <3>1
  <2> QED
    BY <1>3, <2>2 DEF LiveMessage
<1>4. CASE LiveMarker
  <2>1. live.m \in Msgs
    BY <1>4 DEF LiveMarker, ArchiveInv, TypeOK
  <2>2. UNCHANGED <<received, recalled>> /\ (row' = [row EXCEPT ![live.m] = Marker] \/ row' = row)
    BY <1>4 DEF LiveMarker
  <2> QED
    BY <1>2, <2>1, <2>2
<1>5. CASE HistoryDecode
  <2>1. hist.m \in Msgs
    BY <1>5 DEF HistoryDecode, ArchiveInv, TypeOK
  <2>2. /\ UNCHANGED <<received, recalled>>
        /\ \E r : row' = [row EXCEPT ![hist.m] = r]
    BY <1>5 DEF HistoryDecode
  <2> QED
    BY <1>2, <2>1, <2>2
<1>6. CASE HistoryMedia
  <2>1. hist.m \in Msgs
    BY <1>6 DEF HistoryMedia, ArchiveInv, TypeOK
  <2>2. /\ UNCHANGED received
        /\ \/ UNCHANGED <<row, recalled>>
           \/ /\ row' = [row EXCEPT ![hist.m].key = @ \/ ShowsKeys(payload[hist.m])]
              /\ recalled' = recalled \union (IF hist.clean THEN {hist.m} ELSE {})
    BY <1>6 DEF HistoryMedia
  <2>3. CASE UNCHANGED <<row, recalled>>
    BY <2>2, <2>3
  <2>4. CASE /\ row' = [row EXCEPT ![hist.m].key = @ \/ ShowsKeys(payload[hist.m])]
             /\ recalled' = recalled \union (IF hist.clean THEN {hist.m} ELSE {})
    <3>1. \A n \in Msgs \ {hist.m} : row'[n] = row[n]
      BY <1>1, <2>1, <2>4
    <3>2. CASE hist.clean
      BY <2>1, <2>2, <2>4, <3>1, <3>2
    <3>3. CASE ~hist.clean
      <4>1. recalled' = recalled
        BY <2>4, <3>3
      <4>2. \E r : row' = [row EXCEPT ![hist.m] = r]
        BY <2>4
      <4> QED
        BY <1>2, <2>1, <2>2, <4>1, <4>2
    <3> QED
      BY <3>2, <3>3
  <2> QED
    BY <2>2, <2>3, <2>4
<1>7. ASSUME NEW m \in Msgs, HistoryInsert(m) \/ ArchiveSent(m) PROVE Goal
  <2>1. /\ UNCHANGED <<received, recalled>>
        /\ row' = row \/ \E r : row' = [row EXCEPT ![m] = r]
    BY <1>7 DEF HistoryInsert, ArchiveSent
  <2> QED
    BY <1>2, <2>1
<1>8. CASE \/ \E m \in Msgs, kind \in {"message", "marker"} : Receive(m, kind)
           \/ LiveChat \/ HistoryChat \/ Restart
           \/ \E todo \in SUBSET Msgs \ {{}} : HistoryChunk(todo)
  BY <1>8 DEF Receive, LiveChat, HistoryChat, Restart, HistoryChunk
<1> QED
  BY <1>3, <1>4, <1>5, <1>6, <1>7, <1>8 DEF Next

LEMMA ContractInitial == Init => Contract!Init
<1> SUFFICES ASSUME Init PROVE Contract!Init
  OBVIOUS
<1>1. ASSUME NEW m \in Msgs
      PROVE  /\ row[m].key = FALSE /\ Knows[m] \in {"nothing", "blank", "read"}
             /\ Knows[m] = "read" => Contract!Whole(m) = "read"
  <2>1. row[m] \in Legacy(m) /\ payload[m] \in Payloads
    BY DEF Init
  <2> QED
    BY <2>1 DEF Legacy, NoRow, Row, Knows, Contract!Whole, Payloads, HasKeys
<1>2. Keys = [m \in Msgs |-> FALSE]
  BY <1>1 DEF Keys
<1>3. Knows \in [Msgs -> {"nothing", "blank", "read"}]
  BY <1>1 DEF Knows
<1> QED
  BY <1>1, <1>2, <1>3 DEF Init, Contract!Init

LEMMA ContractStep ==
    ASSUME ArchiveInv, ArchiveInv', [Next]_vars
    PROVE  [Contract!Next]_(Contract!vars)
<1>1. payload' = payload
  BY RowsMove
<1>2. CASE UNCHANGED <<row, received, recalled>>
  BY <1>1, <1>2 DEF Contract!vars, Knows, Keys
<1>3. ASSUME NEW m \in Msgs, \A n \in Msgs \ {m} : row'[n] = row[n],
             \/ row'[m] # row[m] /\ UNCHANGED <<received, recalled>>
             \/ received' = received \union {m} /\ UNCHANGED recalled
             \/ recalled' = recalled \union {m} /\ UNCHANGED received
      PROVE  Contract!Next
  <2>1. RowMove(m)
    BY RowsMove
  <2>2. Contract!Record(m, Knows'[m], row'[m].key)
    BY <1>1, <1>3, <2>1, MoveRecords
  <2>3. row'[m].key \in BOOLEAN /\ payload[m] \in Payloads
    BY DEF ArchiveInv, TypeOK, RowSet
  <2>4. row'[m].content # "none" => Knows'[m] \in {"announced", "blank", "read"}
    BY DEF Knows
  <2>5. CASE row'[m] # row[m] /\ UNCHANGED <<received, recalled>>
    <3>1. row'[m].content # "none"
      BY <2>1, <2>5 DEF RowMove, ArchiveInv, RowShape, Payloads, TypeOK
    <3>2. Contract!Learn(m)
      BY <2>2, <2>3, <2>4, <2>5, <3>1 DEF Contract!Learn
    <3> QED
      BY <3>2 DEF Contract!Next
  <2>6. CASE received' = received \union {m} /\ UNCHANGED recalled
    <3>1. /\ row'[m].content # "none"
          /\ payload[m] # "empty" => row'[m].content # "marker"
      BY <1>1, <2>6 DEF ArchiveInv, RowShape, RetryRecovers
    <3>2. Knows'[m] = "announced" => Contract!Whole(m) = "blank"
      BY <3>1 DEF Knows, Contract!Whole
    <3>3. Contract!Receive(m)
      BY <2>2, <2>3, <2>4, <2>6, <3>1, <3>2 DEF Contract!Receive
    <3> QED
      BY <3>3 DEF Contract!Next
  <2>7. CASE recalled' = recalled \union {m} /\ UNCHANGED received
    <3>1. /\ row'[m].content # "none"
          /\ HasText(payload[m]) => row'[m].content \in {payload[m], "marker"}
          /\ ShowsKeys(payload[m]) => row'[m].key
      BY <1>1, <2>7 DEF ArchiveInv, RowShape, HistoryRepairs
    <3>2. Knows'[m] = "blank" => ~HasText(payload[m])
      BY <3>1 DEF Knows, HasText
    <3>3. ShowsKeys(payload[m]) => Keys'[m]
      BY <3>1 DEF Keys
    <3>4. Contract!Recall(m)
      BY <2>2, <2>3, <2>4, <2>7, <3>1, <3>2, <3>3 DEF Contract!Recall
    <3> QED
      BY <3>4 DEF Contract!Next
  <2> QED
    BY <1>3, <2>5, <2>6, <2>7
<1> QED
  BY <1>2, <1>3, OneAtATime DEF vars

\* Of every message more is known and never less, and what was handled live or
\* recalled by history is known: Archive implements ArchiveContract, whatever
\* live events, chunks, sends, failures and restarts fall between statements.
THEOREM ArchiveKeepsContract == Spec => ImplementsArchiveContract
<1>1. Init => Contract!Init
  BY ContractInitial
<1>2. ArchiveInv /\ ArchiveInv' /\ [Next]_vars => [Contract!Next]_(Contract!vars)
  BY ContractStep
<1> QED
  BY <1>1, <1>2, ArchiveInvariant, PTL DEF Spec, ImplementsArchiveContract, Contract!Spec
=============================================================================
