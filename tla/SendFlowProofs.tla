--------------------------- MODULE SendFlowProofs ---------------------------
(***************************************************************************)
(* What holds of the send flow for any drafts, any number of concurrent    *)
(* calls and any number of stops.  The argument is one inductive           *)
(* invariant, SendInv: past the flip a draft is closed for good, only one  *)
(* call stands between the flip and the send of a draft, and whoever is    *)
(* about to delete bytes is about a draft that is stale or closed.         *)
(***************************************************************************)
EXTENDS SendFlow, TLAPS

\* The invariant holds of the empty store the bridge starts with.
LEMMA InitInv == Init => SendInv
BY SendAssumption
DEF Init, SendInv, TypeOK, StoreType, CallType, BootType, CallShape, RowShape,
    SendShape, RemovalShape, Closed, SentWasDelivered, LiveDraftHasBytes, At,
    Points, CreatePoints, ConfirmPoints, Statuses

-----------------------------------------------------------------------------
(* The steps of handleCreateDraft.                                         *)

\* Writing, inserting and removing keep the invariant: a created draft has its
\* bytes before it has its row.
LEMMA CreateSteps ==
    ASSUME SendInv, NEW h \in Handlers,
           \/ \E d \in Drafts : Create(h, d)
           \/ WriteOutbound(h) \/ InsertDraft(h) \/ RemoveRejected(h)
    PROVE  SendInv'
<1> USE SendAssumption DEF SendInv, TypeOK, StoreType, CallType, BootType,
        CallShape, RowShape, SendShape, RemovalShape, Closed, SentWasDelivered,
        LiveDraftHasBytes, At, Goto, Return, Points, CreatePoints, ConfirmPoints,
        Statuses, store, boot
<1>1. ASSUME NEW d \in Drafts, Create(h, d) PROVE SendInv'
  BY <1>1 DEF Create, Call, Busy
<1>2. CASE WriteOutbound(h)
  <2>1. \/ Return(h) /\ UNCHANGED file
        \/ Return(h) /\ file' = [file EXCEPT ![req[h]] = TRUE]
        \/ Goto(h, "insert") /\ file' = [file EXCEPT ![req[h]] = TRUE]
    BY <1>2, Zenon DEF WriteOutbound
  <2>2. At(h, "write") /\ UNCHANGED <<row, stale, archived, delivered, boot>>
    BY <1>2 DEF WriteOutbound
  <2>3. CASE Return(h) /\ UNCHANGED file
    BY <2>2, <2>3
  <2>4. CASE Return(h) /\ file' = [file EXCEPT ![req[h]] = TRUE]
    BY <2>2, <2>4
  <2>5. CASE Goto(h, "insert") /\ file' = [file EXCEPT ![req[h]] = TRUE]
    BY <2>2, <2>5
  <2> QED
    BY <2>1, <2>3, <2>4, <2>5
<1>3. CASE InsertDraft(h)
  <2>1. \/ SetStatus(req[h], "draft") /\ Return(h)
        \/ Goto(h, "rmRejected") /\ UNCHANGED store
    BY <1>3, Zenon DEF InsertDraft
  <2>2. At(h, "insert") /\ UNCHANGED boot
    BY <1>3 DEF InsertDraft
  <2>3. CASE SetStatus(req[h], "draft") /\ Return(h)
    BY <2>2, <2>3 DEF SetStatus
  <2>4. CASE Goto(h, "rmRejected") /\ UNCHANGED store
    BY <2>2, <2>4
  <2> QED
    BY <2>1, <2>3, <2>4
<1>4. CASE RemoveRejected(h)
  BY <1>4 DEF RemoveRejected, RemoveFile
<1> QED
  BY <1>1, <1>2, <1>3, <1>4
-----------------------------------------------------------------------------
(* The steps of handleConfirmSend.                                         *)

\* A step that only moves the call, to a point that asks no more of the draft
\* than the call already has, or to its end.
LEMMA MoveOrReturn ==
    ASSUME SendInv, NEW h \in Handlers, At(h, "load") \/ At(h, "ttl") \/ At(h, "upload"),
           UNCHANGED <<store, boot>>,
           \/ Return(h)
           \/ row[req[h]] = "draft" /\ Goto(h, "ttl")
           \/ ~At(h, "load") /\ stale[req[h]] /\ Goto(h, "expire")
           \/ ~At(h, "load") /\ (Goto(h, "upload") \/ Goto(h, "flip"))
    PROVE  SendInv'
<1> USE DEF SendInv, TypeOK, StoreType, CallType, BootType, CallShape, RowShape,
        SendShape, RemovalShape, Closed, SentWasDelivered, LiveDraftHasBytes,
        At, Goto, Return, Points, CreatePoints, ConfirmPoints, store, boot
<1>1. CASE Return(h)
  BY <1>1
<1>2. CASE row[req[h]] = "draft" /\ Goto(h, "ttl")
  BY <1>2
<1>3. CASE ~At(h, "load") /\ stale[req[h]] /\ Goto(h, "expire")
  BY <1>3
<1>4. CASE ~At(h, "load") /\ (Goto(h, "upload") \/ Goto(h, "flip"))
  BY <1>4
<1> QED
  BY <1>1, <1>2, <1>3, <1>4, Zenon

\* Accepting a confirm call, its SELECT, its TTL check and its upload only move
\* the call; what they read stays true because a row never reopens.
LEMMA ReadSteps ==
    ASSUME SendInv, NEW h \in Handlers,
           \/ \E d \in Drafts : Confirm(h, d)
           \/ LoadDraft(h) \/ CheckTTL(h) \/ UploadMedia(h)
    PROVE  SendInv'
<1>1. ASSUME NEW d \in Drafts, Confirm(h, d) PROVE SendInv'
  BY <1>1, SendAssumption
  DEF Confirm, Call, SendInv, TypeOK, StoreType, CallType, BootType, CallShape,
      RowShape, SendShape, RemovalShape, Closed, SentWasDelivered,
      LiveDraftHasBytes, At, Points, CreatePoints, ConfirmPoints, store, boot
<1>2. CASE LoadDraft(h)
  <2>1. Return(h) \/ Goto(h, "ttl")
    BY <1>2, Zenon DEF LoadDraft
  <2>2. row[req[h]] # "draft" => Return(h)
    BY <1>2, Zenon DEF LoadDraft
  <2>3. At(h, "load") /\ UNCHANGED <<store, boot>>
    BY <1>2 DEF LoadDraft
  <2> QED
    BY <2>1, <2>2, <2>3, MoveOrReturn, Zenon
<1>3. CASE CheckTTL(h)
  <2>1. stale[req[h]] => Goto(h, "expire")
    BY <1>3, Zenon DEF CheckTTL
  <2>2. ~stale[req[h]] => Return(h) \/ Goto(h, "upload") \/ Goto(h, "flip")
    <3>1. CASE req[h] \in MediaDrafts
      BY <1>3, <3>1, Zenon DEF CheckTTL
    <3>2. CASE req[h] \notin MediaDrafts
      BY <1>3, <3>2, Zenon DEF CheckTTL
    <3> QED
      BY <3>1, <3>2
  <2>3. At(h, "ttl") /\ ~At(h, "load") /\ UNCHANGED <<store, boot>>
    BY <1>3 DEF CheckTTL, At
  <2> QED
    BY <2>1, <2>2, <2>3, MoveOrReturn, Zenon
<1>4. CASE UploadMedia(h)
  <2>1. Return(h) \/ Goto(h, "flip")
    BY <1>4, Zenon DEF UploadMedia
  <2>2. At(h, "upload") /\ ~At(h, "load") /\ UNCHANGED <<store, boot>>
    BY <1>4 DEF UploadMedia, At
  <2> QED
    BY <2>1, <2>2, MoveOrReturn, Zenon
<1> QED
  BY <1>1, <1>2, <1>3, <1>4

\* The heart of the argument: the flip closes a draft that was open, so no
\* other call is past it, and nothing of the draft has been delivered.
LEMMA FlipStep ==
    ASSUME SendInv, NEW h \in Handlers, FlipToConfirmed(h)
    PROVE  SendInv'
<1> USE DEF SendInv, TypeOK, StoreType, CallType, BootType, CallShape, RowShape,
        SendShape, RemovalShape, Closed, At, Points, CreatePoints, ConfirmPoints,
        Statuses, store, boot
<1>1. \/ row[req[h]] = "draft" /\ SetStatus(req[h], "confirmed") /\ Goto(h, "send")
      \/ Return(h) /\ UNCHANGED store
  BY Zenon DEF FlipToConfirmed
<1>2. At(h, "flip") /\ req[h] \in Drafts /\ UNCHANGED boot
  BY DEF FlipToConfirmed
<1>3. CASE row[req[h]] = "draft" /\ SetStatus(req[h], "confirmed") /\ Goto(h, "send")
  <2> USE <1>2, <1>3 DEF SetStatus, Goto
  <2>1. delivered[req[h]] = 0
    OBVIOUS
  <2>2. \A g \in Handlers : At(g, "send") => req[g] # req[h]
    OBVIOUS
  <2>3. SendShape'
    BY <2>1, <2>2
  <2>4. TypeOK' /\ CallShape' /\ RowShape' /\ RemovalShape'
    OBVIOUS
  <2>5. SentWasDelivered' /\ LiveDraftHasBytes'
    BY DEF SentWasDelivered, LiveDraftHasBytes
  <2> QED
    BY <2>3, <2>4, <2>5
<1>4. CASE Return(h) /\ UNCHANGED store
  BY <1>2, <1>4 DEF Return, SentWasDelivered, LiveDraftHasBytes
<1> QED
  BY <1>1, <1>3, <1>4

\* One send happens per draft, because one call at most is at the send.
LEMMA SendStep ==
    ASSUME SendInv, NEW h \in Handlers, SendMessage(h)
    PROVE  SendInv'
<1> USE DEF SendInv, TypeOK, StoreType, CallType, BootType, CallShape, RowShape,
        SendShape, RemovalShape, Closed, At, Goto, Points, CreatePoints,
        ConfirmPoints, boot
<1>1. PICK reached \in BOOLEAN, acked \in BOOLEAN :
         /\ acked => reached
         /\ delivered' = [delivered EXCEPT ![req[h]] = IF reached THEN @ + 1 ELSE @]
         /\ Goto(h, IF acked THEN "markSent" ELSE "markFailed")
  BY DEF SendMessage
<1>2. /\ At(h, "send") /\ req[h] \in Drafts /\ delivered[req[h]] = 0
      /\ UNCHANGED <<row, stale, file, archived, boot>>
  BY DEF SendMessage
<1>3. delivered' \in [Drafts -> Nat] /\ delivered'[req[h]] = IF reached THEN 1 ELSE 0
  BY <1>1, <1>2
<1>4. row[req[h]] # "sent" /\ ~archived[req[h]]
  BY <1>2 DEF SentWasDelivered
<1>5. SendShape'
  <2>1. CASE acked
    BY <1>1, <1>2, <1>3, <2>1
  <2>2. CASE ~acked
    BY <1>1, <1>2, <1>3, <2>2
  <2> QED
    BY <2>1, <2>2
<1>6. TypeOK' /\ CallShape' /\ RowShape' /\ RemovalShape'
  BY <1>1, <1>2, <1>3
<1>7. SentWasDelivered' /\ LiveDraftHasBytes'
  BY <1>1, <1>2, <1>3, <1>4 DEF SentWasDelivered, LiveDraftHasBytes
<1> QED
  BY <1>5, <1>6, <1>7

\* Recording the outcome of a send, and removing its bytes, only touches
\* drafts that are closed.
LEMMA WriteBackSteps ==
    ASSUME SendInv, NEW h \in Handlers,
           \/ MarkExpired(h) \/ RemoveExpired(h) \/ MarkFailed(h)
           \/ MarkSent(h) \/ ArchiveSent(h) \/ RemoveSent(h)
    PROVE  SendInv'
<1> USE SendAssumption DEF SendInv, TypeOK, StoreType, CallType, BootType,
        CallShape, RowShape, SendShape, RemovalShape, Closed, SentWasDelivered,
        LiveDraftHasBytes, At, Points, CreatePoints, ConfirmPoints, Statuses,
        store, boot
<1>1. CASE MarkExpired(h)
  BY <1>1 DEF MarkExpired, SetStatus, Goto
<1>2. CASE RemoveExpired(h)
  BY <1>2 DEF RemoveExpired, RemoveFile, Return
<1>3. CASE MarkFailed(h)
  BY <1>3 DEF MarkFailed, SetStatus, Return
<1>4. CASE MarkSent(h)
  BY <1>4 DEF MarkSent, SetStatus, Goto
<1>5. CASE ArchiveSent(h)
  BY <1>5 DEF ArchiveSent, Goto
<1>6. CASE RemoveSent(h)
  BY <1>6 DEF RemoveSent, RemoveFile, Return
<1> QED
  BY <1>1, <1>2, <1>3, <1>4, <1>5, <1>6

-----------------------------------------------------------------------------
(* Boot and environment.                                                   *)

\* Booting, hanging up, an hour passing and stopping keep the invariant.
LEMMA OtherSteps ==
    ASSUME SendInv,
           \/ BootStep \/ Stop
           \/ \E h \in Handlers : HangUp(h)
           \/ \E d \in Drafts : TimePasses(d)
    PROVE  SendInv'
<1> USE SendAssumption DEF SendInv, TypeOK, StoreType, CallType, BootType,
        CallShape, RowShape, SendShape, RemovalShape, Closed, SentWasDelivered,
        LiveDraftHasBytes, At, Points, CreatePoints, ConfirmPoints, Statuses,
        store, calls, boot
<1>1. CASE Boot \/ ScanInFlight \/ Serve
  BY <1>1 DEF Boot, ScanInFlight, Serve
<1>2. ASSUME NEW d \in Drafts, FailInFlight(d) PROVE SendInv'
  BY <1>2 DEF FailInFlight, SetStatus
<1>3. CASE FreeInFlight
  BY <1>3 DEF FreeInFlight, RemoveFile
<1>4. CASE Stop
  BY <1>4 DEF Stop
<1>5. ASSUME NEW h \in Handlers, HangUp(h) PROVE SendInv'
  BY <1>5 DEF HangUp
<1>6. ASSUME NEW d \in Drafts, TimePasses(d) PROVE SendInv'
  BY <1>6 DEF TimePasses
<1> QED
  BY <1>1, <1>2, <1>3, <1>4, <1>5, <1>6 DEF BootStep

\* The invariant is inductive.
LEMMA StepInv == SendInv /\ [Next]_vars => SendInv'
<1> SUFFICES ASSUME SendInv, [Next]_vars PROVE SendInv'
  OBVIOUS
<1>1. ASSUME NEW h \in Handlers, HandlerStep(h) PROVE SendInv'
  BY <1>1, CreateSteps, ReadSteps, FlipStep, SendStep, WriteBackSteps, Zenon
  DEF HandlerStep
<1>2. ASSUME NEW h \in Handlers, NEW d \in Drafts, Create(h, d) \/ Confirm(h, d)
      PROVE  SendInv'
  BY <1>2, CreateSteps, ReadSteps, Zenon
<1>3. CASE UNCHANGED vars
  BY <1>3
  DEF SendInv, TypeOK, StoreType, CallType, BootType, CallShape, RowShape,
      SendShape, RemovalShape, Closed, SentWasDelivered, LiveDraftHasBytes, At,
      vars, store, calls, boot
<1> QED
  BY <1>1, <1>2, <1>3, OtherSteps, Zenon DEF Next

-----------------------------------------------------------------------------
\* The inductive invariant of the flow holds in every reachable state: each
\* call, the row it is about, its file and its deliveries stay in step.
THEOREM SendInvariant == Spec => []SendInv
BY InitInv, StepInv, PTL DEF Spec

\* The variables keep their types; in particular the status column never
\* holds a value its CHECK constraint would refuse.
THEOREM TypeCorrect == Spec => []TypeOK
<1>1. SendInv => TypeOK
  BY DEF SendInv
<1> QED
  BY <1>1, SendInvariant, PTL

\* A draft reaches WhatsApp at most once, whatever races, fails or restarts.
THEOREM DeliveredAtMostOnce == Spec => []AtMostOnce
<1>1. SendInv => AtMostOnce
  BY DEF SendInv, TypeOK, StoreType, SendShape, AtMostOnce
<1> QED
  BY <1>1, SendInvariant, PTL

\* Only an accepted message is recorded as sent or archived.
THEOREM SentRowsAreTrue == Spec => []SentWasDelivered
<1>1. SendInv => SentWasDelivered
  BY DEF SendInv
<1> QED
  BY <1>1, SendInvariant, PTL

\* A draft that can still be confirmed has its bytes on disk.
THEOREM LiveDraftsKeepBytes == Spec => []LiveDraftHasBytes
<1>1. SendInv => LiveDraftHasBytes
  BY DEF SendInv
<1> QED
  BY <1>1, SendInvariant, PTL

-----------------------------------------------------------------------------
(* Refinement: every step of the flow is a step of the contract.           *)

Phase == [d \in Drafts |->
             IF row[d] = "none" THEN "absent"
             ELSE IF row[d] = "draft" THEN "open" ELSE "closed"]
Armed == {d \in Drafts : Busy(d, {"send"}) # {}}

\* The mapping only looks at the rows, the deliveries and who is at the send.
LEMMA ContractStutter ==
    ASSUME UNCHANGED <<Phase, Armed, delivered>>
    PROVE  UNCHANGED Contract!vars
BY DEF Phase, Armed, Contract!vars

\* A step that maps to one of the contract's actions is a step of the contract.
LEMMA ContractSteps ==
    ASSUME NEW d \in Drafts,
           \/ Contract!Offer(d) \/ Contract!Approve(d)
           \/ Contract!Withdraw(d) \/ Contract!Deliver(d)
    PROVE  [Contract!Next]_(Contract!vars)
BY Zenon DEF Contract!Next

\* A step of one call that neither arrives at the send nor leaves it keeps the
\* set of owed deliveries.
LEMMA ArmedUnchanged ==
    ASSUME SendInv, NEW h \in Handlers, ~At(h, "send"), ~At(h, "send")',
           \A g \in Handlers \ {h} : pc'[g] = pc[g] /\ req'[g] = req[g]
    PROVE  Armed' = Armed
<1>1. ASSUME NEW d \in Drafts PROVE (d \in Armed)' <=> d \in Armed
  BY DEF Armed, Busy, At
<1> QED
  BY <1>1 DEF Armed

\* How Goto, Return and Call change the place a call is at.
LEMMA CallsMove ==
    ASSUME SendInv, NEW h \in Handlers, NEW point,
           Goto(h, point) \/ Return(h) \/ \E d \in Drafts : Call(h, d, point)
    PROVE  /\ \A g \in Handlers \ {h} : pc'[g] = pc[g] /\ req'[g] = req[g]
           /\ pc'[h] \in {point, "idle"}
BY DEF SendInv, TypeOK, CallType, Goto, Return, Call

\* A call that works for a draft without creating, closing or sending it.
LEMMA QuietSteps ==
    ASSUME SendInv, NEW h \in Handlers,
           \/ WriteOutbound(h) \/ RemoveRejected(h) \/ LoadDraft(h) \/ CheckTTL(h)
           \/ RemoveExpired(h) \/ UploadMedia(h) \/ MarkFailed(h) \/ MarkSent(h)
           \/ ArchiveSent(h) \/ RemoveSent(h)
           \/ \E d \in Drafts : Create(h, d) \/ Confirm(h, d)
    PROVE  UNCHANGED Contract!vars
<1>1. PICK point \in Points \ {"send"} :
         Goto(h, point) \/ Return(h) \/ \E d \in Drafts : Call(h, d, point)
  <2> USE DEF Points, CreatePoints, ConfirmPoints
  <2>1. ASSUME NEW d \in Drafts, Create(h, d)
        PROVE  Call(h, d, "write") \/ Call(h, d, "insert")
    <3>1. CASE d \in MediaDrafts
      BY <2>1, <3>1, Zenon DEF Create
    <3>2. CASE d \notin MediaDrafts
      BY <2>1, <3>2, Zenon DEF Create
    <3> QED
      BY <3>1, <3>2
  <2>2. ASSUME CheckTTL(h)
        PROVE  Return(h) \/ Goto(h, "expire") \/ Goto(h, "upload") \/ Goto(h, "flip")
    <3>1. CASE req[h] \in MediaDrafts
      BY <2>2, <3>1, Zenon DEF CheckTTL
    <3>2. CASE req[h] \notin MediaDrafts
      BY <2>2, <3>2, Zenon DEF CheckTTL
    <3> QED
      BY <3>1, <3>2
  <2>3. \/ Return(h)
        \/ \E point \in {"insert", "ttl", "expire", "upload", "flip", "archive", "rmSent"} :
              Goto(h, point)
        \/ \E d \in Drafts : \E point \in {"write", "insert", "load"} : Call(h, d, point)
    BY <2>1, <2>2, Zenon
    DEF WriteOutbound, RemoveRejected, LoadDraft, RemoveExpired, UploadMedia,
        MarkFailed, MarkSent, ArchiveSent, RemoveSent, Confirm
  <2>4. CASE Return(h)
    BY <2>4
  <2>5. CASE \E point \in {"insert", "ttl", "expire", "upload", "flip", "archive", "rmSent"} :
                Goto(h, point)
    BY <2>5
  <2>6. CASE \E d \in Drafts : \E point \in {"write", "insert", "load"} : Call(h, d, point)
    BY <2>6
  <2> QED
    BY <2>3, <2>4, <2>5, <2>6
<1>2. ~At(h, "send") /\ ~At(h, "send")'
  <2>1. ~At(h, "send")
    BY DEF At, WriteOutbound, RemoveRejected, LoadDraft, CheckTTL, RemoveExpired,
       UploadMedia, MarkFailed, MarkSent, ArchiveSent, RemoveSent, Create, Confirm, Call
  <2> QED
    BY <1>1, <2>1, CallsMove DEF At
<1>3. Armed' = Armed
  BY <1>1, <1>2, CallsMove, ArmedUnchanged
<1>4. Phase' = Phase /\ delivered' = delivered
  <2> USE DEF SendInv, TypeOK, StoreType, CallShape, SendShape, Closed, At, store
  <2>1. CASE MarkFailed(h)
    BY <2>1 DEF MarkFailed, SetStatus, Phase
  <2>2. CASE MarkSent(h)
    BY <2>2 DEF MarkSent, SetStatus, Phase
  <2>3. CASE UNCHANGED <<row, delivered>>
    BY <2>3 DEF Phase
  <2> QED
    BY <2>1, <2>2, <2>3
    DEF WriteOutbound, RemoveRejected, LoadDraft, CheckTTL, RemoveExpired,
        UploadMedia, ArchiveSent, RemoveSent, Create, Confirm, RemoveFile
<1> QED
  BY <1>3, <1>4, ContractStutter

\* The INSERT of a draft is the contract's Offer.
LEMMA InsertIsOffer ==
    ASSUME SendInv, NEW h \in Handlers, InsertDraft(h)
    PROVE  [Contract!Next]_(Contract!vars)
<1>1. \/ SetStatus(req[h], "draft") /\ Return(h)
      \/ Goto(h, "rmRejected") /\ UNCHANGED store
  BY Zenon DEF InsertDraft
<1>2. At(h, "insert") /\ req[h] \in Drafts /\ row[req[h]] = "none"
  BY DEF InsertDraft, SendInv, CallShape, RowShape, At, CreatePoints
<1> PICK d \in Drafts : d = req[h]
  BY <1>2
<1>3. Armed' = Armed
  BY <1>1, <1>2, CallsMove, ArmedUnchanged DEF At
<1>4. CASE SetStatus(req[h], "draft") /\ Return(h)
  <2>1. Contract!Offer(d)
    BY <1>2, <1>3, <1>4
    DEF Contract!Offer, SetStatus, Phase, Armed, SendInv, TypeOK, StoreType
  <2> QED
    BY <2>1, ContractSteps
<1>5. CASE Goto(h, "rmRejected") /\ UNCHANGED store
  BY <1>3, <1>5, ContractStutter DEF store, Phase
<1> QED
  BY <1>1, <1>4, <1>5

\* Expiring a draft withdraws it; expiring a row some other call has already
\* taken changes nothing the contract speaks of.
LEMMA ExpireIsWithdraw ==
    ASSUME SendInv, NEW h \in Handlers, MarkExpired(h)
    PROVE  [Contract!Next]_(Contract!vars)
<1>1. SetStatus(req[h], "expired") \/ UNCHANGED store
  BY Zenon DEF MarkExpired
<1>2. At(h, "expire") /\ req[h] \in Drafts /\ row[req[h]] # "none" /\ Goto(h, "rmExpired")
  BY DEF MarkExpired, SendInv, CallShape, RowShape, At, ConfirmPoints
<1> PICK d \in Drafts : d = req[h]
  BY <1>2
<1>3. Armed' = Armed
  BY <1>2, CallsMove, ArmedUnchanged DEF At
<1>4. CASE SetStatus(req[h], "expired") /\ row[req[h]] = "draft"
  <2>1. Contract!Withdraw(d)
    BY <1>2, <1>3, <1>4
    DEF Contract!Withdraw, SetStatus, Phase, Armed, SendInv, TypeOK, StoreType
  <2> QED
    BY <2>1, ContractSteps
<1>5. CASE SetStatus(req[h], "expired") /\ row[req[h]] # "draft"
  BY <1>2, <1>3, <1>5, ContractStutter
  DEF SetStatus, Phase, SendInv, TypeOK, StoreType
<1>6. CASE UNCHANGED store
  BY <1>3, <1>6, ContractStutter DEF store, Phase
<1> QED
  BY <1>1, <1>4, <1>5, <1>6

\* The flip to 'confirmed' is the contract's Approve.
LEMMA FlipIsApprove ==
    ASSUME SendInv, NEW h \in Handlers, FlipToConfirmed(h)
    PROVE  [Contract!Next]_(Contract!vars)
<1>1. \/ row[req[h]] = "draft" /\ SetStatus(req[h], "confirmed") /\ Goto(h, "send")
      \/ Return(h) /\ UNCHANGED store
  BY Zenon DEF FlipToConfirmed
<1>2. At(h, "flip") /\ req[h] \in Drafts
  BY DEF FlipToConfirmed, SendInv, CallShape, At
<1> PICK d \in Drafts : d = req[h]
  BY <1>2
<1>3. CASE row[req[h]] = "draft" /\ SetStatus(req[h], "confirmed") /\ Goto(h, "send")
  <2>1. Armed' = Armed \union {req[h]}
    BY <1>2, <1>3 DEF Armed, Busy, At, Goto, SendInv, TypeOK, CallType
  <2>2. Contract!Approve(d)
    BY <1>2, <1>3, <2>1
    DEF Contract!Approve, SetStatus, Phase, Armed, SendInv, TypeOK, StoreType
  <2> QED
    BY <2>2, ContractSteps
<1>4. CASE Return(h) /\ UNCHANGED store
  BY <1>2, <1>4, CallsMove, ArmedUnchanged, ContractStutter DEF store, Phase, At
<1> QED
  BY <1>1, <1>3, <1>4

\* The send uses up the one delivery its approval was worth.
LEMMA SendIsDeliver ==
    ASSUME SendInv, NEW h \in Handlers, SendMessage(h)
    PROVE  [Contract!Next]_(Contract!vars)
<1>1. PICK reached \in BOOLEAN, acked \in BOOLEAN :
         /\ delivered' = [delivered EXCEPT ![req[h]] = IF reached THEN @ + 1 ELSE @]
         /\ Goto(h, IF acked THEN "markSent" ELSE "markFailed")
  BY DEF SendMessage
<1>2. /\ At(h, "send") /\ req[h] \in Drafts /\ UNCHANGED row
      /\ \A g \in Handlers : At(g, "send") /\ req[g] = req[h] => g = h
  BY DEF SendMessage, SendInv, CallShape, SendShape, At
<1> PICK d \in Drafts : d = req[h]
  BY <1>2
<1>3. req[h] \in Armed /\ Armed' = Armed \ {req[h]} /\ Phase' = Phase
  BY <1>1, <1>2 DEF Armed, Busy, At, Goto, Phase, SendInv, TypeOK, CallType
<1>4. CASE reached
  <2>1. Contract!Deliver(d)
    BY <1>1, <1>3, <1>4 DEF Contract!Deliver, Phase, Armed
  <2> QED
    BY <2>1, ContractSteps
<1>5. CASE ~reached
  <2>1. delivered' = delivered
    BY <1>1, <1>2, <1>5 DEF SendInv, TypeOK, StoreType
  <2>2. Contract!Lose
    BY <1>3, <2>1 DEF Contract!Lose, Phase, Armed
  <2> QED
    BY <2>2 DEF Contract!Next
<1> QED
  BY <1>4, <1>5

\* Stopping loses the deliveries still owed; reconciliation only ever moves a
\* closed row to another closed status.
LEMMA OtherStepsKeepContract ==
    ASSUME SendInv,
           \/ BootStep \/ Stop
           \/ \E h \in Handlers : HangUp(h)
           \/ \E d \in Drafts : TimePasses(d)
    PROVE  [Contract!Next]_(Contract!vars)
<1>1. CASE Stop
  <2>1. Armed' = {} /\ Phase' = Phase /\ delivered' = delivered
    BY <1>1 DEF Stop, Armed, Busy, Phase, store
  <2>2. Contract!Lose
    BY <2>1 DEF Contract!Lose, Phase, Armed
  <2> QED
    BY <2>2 DEF Contract!Next
<1>2. ASSUME NEW d \in Drafts, FailInFlight(d)
      PROVE  UNCHANGED <<Phase, Armed, delivered>>
  BY <1>2
  DEF FailInFlight, SetStatus, Phase, Armed, Busy, store, calls, SendInv, TypeOK,
      StoreType
<1>3. CASE \/ Boot \/ ScanInFlight \/ FreeInFlight \/ Serve
           \/ \E h \in Handlers : HangUp(h)
           \/ \E d \in Drafts : TimePasses(d)
  <2>1. UNCHANGED <<row, delivered, pc, req>>
    BY <1>3
    DEF Boot, ScanInFlight, FreeInFlight, RemoveFile, Serve, HangUp, TimePasses,
        store, calls
  <2> QED
    BY <2>1, ContractStutter DEF Phase, Armed, Busy
<1> QED
  BY <1>1, <1>2, <1>3, ContractStutter DEF BootStep

\* An approval closes a draft for good and is worth at most one delivery: the
\* send flow implements SendContract.
THEOREM FlowImplementsContract == Spec => ImplementsContract
<1>1. Init => Contract!Init
  BY DEF Init, Contract!Init, Busy
<1>2. SendInv /\ [Next]_vars => [Contract!Next]_(Contract!vars)
  <2> SUFFICES ASSUME SendInv, [Next]_vars PROVE [Contract!Next]_(Contract!vars)
    OBVIOUS
  <2>1. ASSUME NEW h \in Handlers, HandlerStep(h)
        PROVE  [Contract!Next]_(Contract!vars)
    BY <2>1, QuietSteps, InsertIsOffer, ExpireIsWithdraw, FlipIsApprove,
       SendIsDeliver, Zenon DEF HandlerStep
  <2>2. ASSUME NEW h \in Handlers, NEW d \in Drafts, Create(h, d) \/ Confirm(h, d)
        PROVE  [Contract!Next]_(Contract!vars)
    BY <2>2, QuietSteps, Zenon
  <2>3. CASE UNCHANGED vars
    BY <2>3, ContractStutter DEF vars, store, calls, Phase, Armed, Busy
  <2> QED
    BY <2>1, <2>2, <2>3, OtherStepsKeepContract, Zenon DEF Next
<1> QED
  BY <1>1, <1>2, SendInvariant, PTL DEF Spec, ImplementsContract, Contract!Spec

-----------------------------------------------------------------------------
(* No send is forgotten in 'confirmed', on the two conditions without      *)
(* which TLC finds one: statements succeed, and no client hangs up between *)
(* the flip and the update that records a failure.                         *)

\* The ownership invariant is preserved by every step.
LEMMA OwnerStep ==
    ASSUME HangUpPoints \cap {"send", "markFailed"} = {}, DbOutcomes = {TRUE},
           TypeOK, CallShape, OwnerShape, [Next]_vars
    PROVE  OwnerShape'
<1> USE SendAssumption DEF TypeOK, StoreType, CallType, BootType, CallShape,
        OwnerShape, ConfirmedIsOwned, Busy, At, Points, CreatePoints,
        ConfirmPoints, store, calls, boot
<1>1. ASSUME NEW h \in Handlers,
             \/ WriteOutbound(h) \/ RemoveRejected(h) \/ LoadDraft(h) \/ CheckTTL(h)
             \/ RemoveExpired(h) \/ UploadMedia(h) \/ RemoveSent(h) \/ ArchiveSent(h)
             \/ \E d \in Drafts : Create(h, d) \/ Confirm(h, d)
      PROVE  OwnerShape'
  BY <1>1
  DEF WriteOutbound, RemoveRejected, LoadDraft, CheckTTL, RemoveExpired,
      UploadMedia, RemoveSent, ArchiveSent, Create, Confirm, Call, Goto, Return,
      RemoveFile
<1>2. ASSUME NEW h \in Handlers, InsertDraft(h) \/ MarkExpired(h) PROVE OwnerShape'
  BY <1>2 DEF InsertDraft, MarkExpired, SetStatus, Goto, Return
<1>3. ASSUME NEW h \in Handlers, FlipToConfirmed(h) PROVE OwnerShape'
  BY <1>3 DEF FlipToConfirmed, SetStatus, Goto, Return
<1>4. ASSUME NEW h \in Handlers, SendMessage(h) PROVE OwnerShape'
  BY <1>4 DEF SendMessage, Goto
<1>5. ASSUME NEW h \in Handlers, MarkFailed(h) \/ MarkSent(h) PROVE OwnerShape'
  BY <1>5 DEF MarkFailed, MarkSent, SetStatus, Goto, Return
<1>6. ASSUME NEW h \in Handlers, HangUp(h) PROVE OwnerShape'
  BY <1>6 DEF HangUp
<1>7. ASSUME NEW d \in Drafts, FailInFlight(d) PROVE OwnerShape'
  BY <1>7 DEF FailInFlight, SetStatus
<1>8. CASE Boot \/ ScanInFlight \/ FreeInFlight \/ Serve
  BY <1>8 DEF Boot, ScanInFlight, FreeInFlight, Serve, RemoveFile
<1>9. CASE Stop \/ (\E d \in Drafts : TimePasses(d)) \/ UNCHANGED vars
  BY <1>9 DEF Stop, TimePasses, vars
<1> QED
  BY <1>1, <1>2, <1>3, <1>4, <1>5, <1>6, <1>7, <1>8, <1>9, Zenon
  DEF Next, HandlerStep, BootStep

\* Where statements succeed and no client hangs up between the flip and the
\* failed-update, a confirmed row of a serving bridge has a call working on it.
THEOREM NoConfirmedRowIsForgotten ==
    ASSUME HangUpPoints \cap {"send", "markFailed"} = {}, DbOutcomes = {TRUE}
    PROVE  Spec => []ConfirmedIsOwned
<1>1. Init => OwnerShape
  BY DEF Init, OwnerShape, ConfirmedIsOwned, At
<1>2. SendInv /\ OwnerShape /\ [Next]_vars => OwnerShape'
  BY OwnerStep DEF SendInv
<1>3. OwnerShape => ConfirmedIsOwned
  BY DEF OwnerShape
<1> QED
  BY <1>1, <1>2, <1>3, SendInvariant, PTL DEF Spec

\* Every step keeps what has been acknowledged on record.
LEMMA RecordStep ==
    ASSUME DbOutcomes = {TRUE}, TypeOK, CallShape, RowShape, RecordShape, [Next]_vars
    PROVE  RecordShape'
<1> USE SendAssumption DEF TypeOK, StoreType, CallType, BootType, CallShape, RowShape,
        RecordShape, AcknowledgedIsRecorded, Busy, At, Points, CreatePoints,
        ConfirmPoints, store, calls, boot
<1>1. ASSUME NEW h \in Handlers,
             \/ WriteOutbound(h) \/ RemoveRejected(h) \/ LoadDraft(h) \/ CheckTTL(h)
             \/ RemoveExpired(h) \/ UploadMedia(h) \/ RemoveSent(h)
             \/ \E d \in Drafts : Create(h, d) \/ Confirm(h, d)
      PROVE  RecordShape'
  BY <1>1
  DEF WriteOutbound, RemoveRejected, LoadDraft, CheckTTL, RemoveExpired,
      UploadMedia, RemoveSent, Create, Confirm, Call, Goto, Return, RemoveFile
<1>2. ASSUME NEW h \in Handlers, InsertDraft(h) \/ MarkExpired(h) PROVE RecordShape'
  BY <1>2 DEF InsertDraft, MarkExpired, SetStatus, Goto, Return
<1>3. ASSUME NEW h \in Handlers, FlipToConfirmed(h) PROVE RecordShape'
  BY <1>3 DEF FlipToConfirmed, SetStatus, Goto, Return
<1>4. ASSUME NEW h \in Handlers, SendMessage(h) PROVE RecordShape'
  BY <1>4 DEF SendMessage, Goto
<1>5. ASSUME NEW h \in Handlers, MarkFailed(h) PROVE RecordShape'
  BY <1>5 DEF MarkFailed, SetStatus, Return
<1>6. ASSUME NEW h \in Handlers, MarkSent(h) PROVE RecordShape'
  BY <1>6 DEF MarkSent, SetStatus, Goto
<1>7. ASSUME NEW h \in Handlers, ArchiveSent(h) PROVE RecordShape'
  <2>1. /\ pc[h] = "archive" /\ req[h] \in Drafts
        /\ row[req[h]] \in {"sent", "expired"}
    BY <1>7 DEF ArchiveSent
  <2>2. PICK ok \in DbOutcomes : archived' = [archived EXCEPT ![req[h]] = archived[req[h]] \/ ok]
    BY <1>7 DEF ArchiveSent
  <2>3. archived' = [archived EXCEPT ![req[h]] = TRUE]
    <3>1. ok = TRUE
      BY <2>2
    <3> QED
      BY <2>2, <3>1
  <2>4. /\ pc' = [pc EXCEPT ![h] = "rmSent"]
        /\ UNCHANGED <<row, req, proc, stops>>
    BY <1>7 DEF ArchiveSent, Goto
  <2>5. \A g \in Handlers :
           pc[g] \in {"send", "markFailed", "markSent", "archive"} /\ g # h =>
              req[g] # req[h]
    BY <2>1
  <2>6. \A g \in Handlers :
           IF g = h THEN pc'[g] = "rmSent" ELSE pc'[g] = pc[g]
    BY <2>4
  <2>7. \A d \in Drafts :
           IF d = req[h] THEN archived'[d] = TRUE ELSE archived'[d] = archived[d]
    BY <2>1, <2>3
  <2>8. \A f, g \in Handlers :
           /\ pc'[f] \in {"send", "markFailed", "markSent", "archive"}
           /\ pc'[g] \in {"send", "markFailed", "markSent", "archive"}
           /\ req'[f] = req'[g]
           => f = g
    BY <2>4, <2>6
  <2>9. \A g \in Handlers :
           /\ pc'[g] \in {"send", "markFailed", "markSent"} =>
                 row'[req'[g]] \in {"confirmed", "expired"} /\ ~archived'[req'[g]]
           /\ pc'[g] = "archive" => row'[req'[g]] \in {"sent", "expired"}
    BY <2>4, <2>5, <2>6, <2>7
  <2>10. proc' # "up" => \A g \in Handlers : pc'[g] = "idle"
    BY <2>1, <2>4
  <2>11. \A d \in Drafts : archived'[d] => row'[d] \in {"sent", "expired"}
    BY <2>1, <2>4, <2>7
  <2>12. ASSUME NEW d \in Drafts, row'[d] = "sent", stops' = 0, ~archived'[d]
         PROVE  \E g \in Handlers : req'[g] = d /\ pc'[g] \in {"archive"}
    BY <2>4, <2>6, <2>7, <2>12
  <2> QED
    BY <2>8, <2>9, <2>10, <2>11, <2>12
<1>8. ASSUME NEW h \in Handlers, HangUp(h) PROVE RecordShape'
  BY <1>8 DEF HangUp
<1>9. ASSUME NEW d \in Drafts, FailInFlight(d) PROVE RecordShape'
  BY <1>9 DEF FailInFlight, SetStatus
<1>10. CASE Boot \/ ScanInFlight \/ FreeInFlight \/ Serve
  BY <1>10 DEF Boot, ScanInFlight, FreeInFlight, Serve, RemoveFile
<1>11. CASE Stop \/ (\E d \in Drafts : TimePasses(d)) \/ UNCHANGED vars
  BY <1>11 DEF Stop, TimePasses, vars
<1> QED
  BY <1>1, <1>2, <1>3, <1>4, <1>5, <1>6, <1>7, <1>8, <1>9, <1>10, <1>11, Zenon
  DEF Next, HandlerStep, BootStep

\* Where statements succeed, what WhatsApp acknowledged is recorded and archived,
\* even if the client hangs up: an archived message never leaves its row
\* unfinished, and a 'sent' row has its message or a call about to write it.
THEOREM AcknowledgedIsNotLost ==
    ASSUME DbOutcomes = {TRUE}
    PROVE  Spec => []AcknowledgedIsRecorded
<1>1. Init => RecordShape
  BY DEF Init, RecordShape, AcknowledgedIsRecorded, At
<1>2. SendInv /\ RecordShape /\ [Next]_vars => RecordShape'
  BY RecordStep DEF SendInv
<1>3. RecordShape => AcknowledgedIsRecorded
  BY DEF RecordShape
<1> QED
  BY <1>1, <1>2, <1>3, SendInvariant, PTL DEF Spec
=============================================================================
