------------------------------ MODULE SendFlow ------------------------------
(***************************************************************************)
(* The draft / confirm send flow of the bridge (whatsapp-bridge/sends.go,  *)
(* sends_media.go, sends_reconcile.go).                                    *)
(*                                                                         *)
(* Every HTTP request runs in a goroutine of its own.  A call is modelled  *)
(* as one action per statement that touches something shared: the sends    *)
(* table, the outbound directory, WhatsApp.  Between two of them any other *)
(* call may run, the client may hang up (r.Context() is cancelled), the    *)
(* draft's hour may pass and the process may stop.  At boot the rows left  *)
(* 'confirmed' are reconciled before the server listens.                   *)
(***************************************************************************)
EXTENDS Naturals, FiniteSets

CONSTANTS
    Drafts,           \* draft ids; each is used for one create request at most
    MediaDrafts,      \* the drafts of send_type 'file' or 'audio'
    Handlers,         \* slots for concurrent HTTP calls
    NoDraft,          \* not a draft id
    HangUpPoints,     \* program points at which a client may hang up
    DbOutcomes,       \* {TRUE}, or {TRUE, FALSE}: a statement may also fail
    MaxStops          \* how often the process may stop

\* The program points of handleCreateDraft and of handleConfirmSend.
CreatePoints == {"write", "insert", "rmRejected"}
ConfirmPoints == {"load", "ttl", "expire", "rmExpired", "upload", "flip",
                  "send", "markFailed", "markSent", "archive", "rmSent"}
Points == CreatePoints \union ConfirmPoints

\* The status column, and "none" for a draft id with no row.
Statuses == {"none", "draft", "confirmed", "sent", "failed", "expired"}

ASSUME SendAssumption ==
    /\ MediaDrafts \subseteq Drafts
    /\ NoDraft \notin Drafts
    /\ HangUpPoints \subseteq Points
    /\ DbOutcomes \subseteq BOOLEAN
    /\ TRUE \in DbOutcomes
    /\ MaxStops \in Nat

VARIABLES
    row,              \* row[d]: status of the draft's row in `sends`
    stale,            \* stale[d]: more than draftTTLSeconds since created_at
    file,             \* file[d]: the draft's bytes are in the outbound directory
    archived,         \* archived[d]: the `messages` row of the sent message exists
    delivered,        \* delivered[d]: how often WhatsApp accepted its message
    pc,               \* pc[h]: where the call in slot h is, "idle" if there is none
    req,              \* req[h]: the draft id the call is about
    gone,             \* gone[h]: r.Context() of the call is cancelled
    proc,             \* "scan" and "reconcile" while booting, "up" or "down"
    stuck,            \* rows the boot found 'confirmed' and has not handled yet
    freeing,          \* the reconciled draft whose file is to be removed next
    stops             \* how often the process has stopped

store == <<row, stale, file, archived, delivered>>
calls == <<pc, req, gone>>
boot == <<proc, stuck, freeing, stops>>
vars == <<store, calls, boot>>

Init ==
    /\ row = [d \in Drafts |-> "none"]
    /\ stale = [d \in Drafts |-> FALSE]
    /\ file = [d \in Drafts |-> FALSE]
    /\ archived = [d \in Drafts |-> FALSE]
    /\ delivered = [d \in Drafts |-> 0]
    /\ pc = [h \in Handlers |-> "idle"]
    /\ req = [h \in Handlers |-> NoDraft]
    /\ gone = [h \in Handlers |-> FALSE]
    /\ proc = "up"
    /\ stuck = {}
    /\ freeing = NoDraft
    /\ stops = 0

-----------------------------------------------------------------------------
(* Steps of a call.                                                        *)

At(h, point) == pc[h] = point

\* The handlers inside a call about d, at one of the given points.
Busy(d, points) == {h \in Handlers : req[h] = d /\ pc[h] \in points}

Call(h, d, point) ==
    /\ proc = "up"
    /\ At(h, "idle")
    /\ pc' = [pc EXCEPT ![h] = point]
    /\ req' = [req EXCEPT ![h] = d]
    /\ UNCHANGED gone

Goto(h, point) ==
    /\ pc' = [pc EXCEPT ![h] = point]
    /\ UNCHANGED <<req, gone>>

\* The handler answers and returns.
Return(h) ==
    /\ pc' = [pc EXCEPT ![h] = "idle"]
    /\ req' = [req EXCEPT ![h] = NoDraft]
    /\ gone' = [gone EXCEPT ![h] = FALSE]

SetStatus(d, status) ==
    /\ row' = [row EXCEPT ![d] = status]
    /\ UNCHANGED <<stale, file, archived, delivered>>

RemoveFile(d) ==
    /\ file' = [file EXCEPT ![d] = FALSE]
    /\ UNCHANGED <<row, stale, archived, delivered>>

-----------------------------------------------------------------------------
(* handleCreateDraft: validate, write the bytes, insert the row.           *)

\* A request that passes validation gets a fresh uuid.
Create(h, d) ==
    /\ row[d] = "none" /\ ~file[d] /\ Busy(d, CreatePoints) = {}
    /\ Call(h, d, IF d \in MediaDrafts THEN "write" ELSE "insert")
    /\ UNCHANGED <<store, boot>>

\* materializeOutboundFile: the media is refused, or os.WriteFile fails after
\* it created the file, or the bytes are on disk.
WriteOutbound(h) ==
    /\ At(h, "write")
    /\ \/ Return(h) /\ UNCHANGED file
       \/ Return(h) /\ file' = [file EXCEPT ![req[h]] = TRUE]
       \/ Goto(h, "insert") /\ file' = [file EXCEPT ![req[h]] = TRUE]
    /\ UNCHANGED <<row, stale, archived, delivered, boot>>

InsertDraft(h) ==
    /\ At(h, "insert")
    /\ \E ok \in DbOutcomes :
          IF ok /\ ~gone[h]
          THEN SetStatus(req[h], "draft") /\ Return(h)
          ELSE Goto(h, "rmRejected") /\ UNCHANGED store
    /\ UNCHANGED boot

RemoveRejected(h) ==
    /\ At(h, "rmRejected")
    /\ RemoveFile(req[h])
    /\ Return(h)
    /\ UNCHANGED boot

-----------------------------------------------------------------------------
(* handleConfirmSend.                                                      *)

\* Past the IsConnected check; a refusal there changes nothing.
Confirm(h, d) ==
    /\ Call(h, d, "load")
    /\ UNCHANGED <<store, boot>>

\* SELECT: 500 if the query fails, 404 without a row, 409 unless 'draft'.
LoadDraft(h) ==
    /\ At(h, "load")
    /\ \E ok \in DbOutcomes :
          IF ok /\ ~gone[h] /\ row[req[h]] = "draft"
          THEN Goto(h, "ttl")
          ELSE Return(h)
    /\ UNCHANGED <<store, boot>>

\* The TTL check; a recipient JID that does not parse is a 400.
CheckTTL(h) ==
    /\ At(h, "ttl")
    /\ IF stale[req[h]]
       THEN Goto(h, "expire")
       ELSE \/ Goto(h, IF req[h] \in MediaDrafts THEN "upload" ELSE "flip")
            \/ Return(h)
    /\ UNCHANGED <<store, boot>>

\* UPDATE sends SET status='expired' WHERE draft_id=?, whatever the status
\* is by now; an error is ignored.
MarkExpired(h) ==
    /\ At(h, "expire")
    /\ \E ok \in DbOutcomes :
          IF ok /\ ~gone[h]
          THEN SetStatus(req[h], "expired")
          ELSE UNCHANGED store
    /\ Goto(h, "rmExpired")
    /\ UNCHANGED boot

RemoveExpired(h) ==
    /\ At(h, "rmExpired")
    /\ RemoveFile(req[h])
    /\ Return(h)
    /\ UNCHANGED boot

\* Mutant: an upload that fails takes the bytes with it.
UploadOrDrop(h) ==
    /\ At(h, "upload")
    /\ \/ file[req[h]] /\ ~gone[h] /\ Goto(h, "flip") /\ UNCHANGED store
       \/ Return(h) /\ RemoveFile(req[h])
    /\ UNCHANGED boot

\* buildMediaMessage reads the file and uploads it.  A failure is a 502 and
\* leaves the draft as it is.
UploadMedia(h) ==
    /\ At(h, "upload")
    /\ \/ file[req[h]] /\ ~gone[h] /\ Goto(h, "flip")
       \/ Return(h)
    /\ UNCHANGED <<store, boot>>

\* Mutant: UPDATE ... SET status='confirmed' without AND status='draft'.
FlipAnyStatus(h) ==
    /\ At(h, "flip")
    /\ \E ok \in DbOutcomes :
          IF ok /\ ~gone[h]
          THEN SetStatus(req[h], "confirmed") /\ Goto(h, "send")
          ELSE Return(h) /\ UNCHANGED store
    /\ UNCHANGED boot

\* UPDATE ... SET status='confirmed' ... AND status='draft': 409 if no row
\* was affected, 500 if the statement failed.
FlipToConfirmed(h) ==
    /\ At(h, "flip")
    /\ \E ok \in DbOutcomes :
          IF ok /\ ~gone[h] /\ row[req[h]] = "draft"
          THEN SetStatus(req[h], "confirmed") /\ Goto(h, "send")
          ELSE Return(h) /\ UNCHANGED store
    /\ UNCHANGED boot

\* Mutant: the error of SendMessage is not looked at.
SendIgnoringError(h) ==
    /\ At(h, "send")
    /\ \E reached \in BOOLEAN :
          delivered' = [delivered EXCEPT ![req[h]] = IF reached THEN @ + 1 ELSE @]
    /\ Goto(h, "markSent")
    /\ UNCHANGED <<row, stale, file, archived, boot>>

\* whatsmeow.SendMessage.  It returns without error only once WhatsApp has
\* acknowledged the message; an error (30 s without an answer, a cancelled
\* context, a dropped socket) says nothing about whether it arrived.
SendMessage(h) ==
    /\ At(h, "send")
    /\ \E reached, acked \in BOOLEAN :
          /\ acked => reached
          /\ delivered' = [delivered EXCEPT ![req[h]] = IF reached THEN @ + 1 ELSE @]
          /\ Goto(h, IF acked THEN "markSent" ELSE "markFailed")
    /\ UNCHANGED <<row, stale, file, archived, boot>>

\* UPDATE ... SET status='failed' on r.Context(), its error ignored.
MarkFailed(h) ==
    /\ At(h, "markFailed")
    /\ \E ok \in DbOutcomes :
          IF ok /\ ~gone[h]
          THEN SetStatus(req[h], "failed")
          ELSE UNCHANGED store
    /\ Return(h)
    /\ UNCHANGED boot

\* Mutant: the write-back uses r.Context().
MarkSentUnlessGone(h) ==
    /\ At(h, "markSent")
    /\ IF gone[h] THEN UNCHANGED store ELSE SetStatus(req[h], "sent")
    /\ Goto(h, "archive")
    /\ UNCHANGED boot

\* UPDATE ... SET status='sent' on the detached persistCtx: a client that has
\* hung up does not matter, a failing statement is only logged.
MarkSent(h) ==
    /\ At(h, "markSent")
    /\ \E ok \in DbOutcomes :
          IF ok THEN SetStatus(req[h], "sent") ELSE UNCHANGED store
    /\ Goto(h, "archive")
    /\ UNCHANGED boot

\* Mutant: the archive row is written on r.Context().
ArchiveUnlessGone(h) ==
    /\ At(h, "archive")
    /\ archived' = [archived EXCEPT ![req[h]] = @ \/ ~gone[h]]
    /\ Goto(h, "rmSent")
    /\ UNCHANGED <<row, stale, file, delivered, boot>>

\* INSERT INTO messages on persistCtx.
ArchiveSent(h) ==
    /\ At(h, "archive")
    /\ \E ok \in DbOutcomes :
          archived' = [archived EXCEPT ![req[h]] = @ \/ ok]
    /\ Goto(h, "rmSent")
    /\ UNCHANGED <<row, stale, file, delivered, boot>>

RemoveSent(h) ==
    /\ At(h, "rmSent")
    /\ RemoveFile(req[h])
    /\ Return(h)
    /\ UNCHANGED boot

-----------------------------------------------------------------------------
(* Boot: ReconcileInFlightSends, then ListenAndServe (main.go).            *)

Boot ==
    /\ proc = "down"
    /\ proc' = "scan"
    /\ UNCHANGED <<store, calls, stuck, freeing, stops>>

\* Mutant: the boot looks for drafts instead of confirmed rows.
ScanDrafts ==
    /\ proc = "scan"
    /\ proc' = "reconcile"
    /\ stuck' = {d \in Drafts : row[d] = "draft"}
    /\ UNCHANGED <<store, calls, freeing, stops>>

\* SELECT ... WHERE status='confirmed'; if it fails the bridge serves anyway.
ScanInFlight ==
    /\ proc = "scan"
    /\ \E ok \in DbOutcomes :
          IF ok
          THEN proc' = "reconcile" /\ stuck' = {d \in Drafts : row[d] = "confirmed"}
          ELSE proc' = "up" /\ UNCHANGED stuck
    /\ UNCHANGED <<store, calls, freeing, stops>>

\* Mutant: reconciliation hands the draft back for another try.
RequeueInFlight(d) ==
    /\ proc = "reconcile" /\ freeing = NoDraft /\ d \in stuck
    /\ SetStatus(d, "draft")
    /\ stuck' = stuck \ {d}
    /\ UNCHANGED <<calls, proc, freeing, stops>>

\* UPDATE ... SET status='failed' ... AND status='confirmed'.  A failing
\* statement is logged and the next row taken.
FailInFlight(d) ==
    /\ proc = "reconcile" /\ freeing = NoDraft /\ d \in stuck
    /\ \E ok \in DbOutcomes :
          IF ok
          THEN /\ IF row[d] = "confirmed" THEN SetStatus(d, "failed") ELSE UNCHANGED store
               /\ freeing' = d
          ELSE UNCHANGED <<store, freeing>>
    /\ stuck' = stuck \ {d}
    /\ UNCHANGED <<calls, proc, stops>>

FreeInFlight ==
    /\ proc = "reconcile" /\ freeing # NoDraft
    /\ RemoveFile(freeing)
    /\ freeing' = NoDraft
    /\ UNCHANGED <<calls, proc, stuck, stops>>

Serve ==
    /\ proc = "reconcile" /\ freeing = NoDraft /\ stuck = {}
    /\ proc' = "up"
    /\ UNCHANGED <<store, calls, stuck, freeing, stops>>

-----------------------------------------------------------------------------
(* The environment.                                                        *)

\* The client closes the connection, or gives up waiting.
HangUp(h) ==
    /\ pc[h] \in HangUpPoints /\ ~gone[h]
    /\ gone' = [gone EXCEPT ![h] = TRUE]
    /\ UNCHANGED <<store, pc, req, boot>>

\* An hour has passed since the draft was created.
TimePasses(d) ==
    /\ row[d] # "none" /\ ~stale[d]
    /\ stale' = [stale EXCEPT ![d] = TRUE]
    /\ UNCHANGED <<row, file, archived, delivered, calls, boot>>

\* The process is killed, or leaves run() on a signal or a fatal condition:
\* ListenAndServe returns as soon as Shutdown begins, so the calls in flight
\* end with the process wherever they are.
Stop ==
    /\ proc # "down" /\ stops < MaxStops
    /\ proc' = "down"
    /\ stops' = stops + 1
    /\ pc' = [h \in Handlers |-> "idle"]
    /\ req' = [h \in Handlers |-> NoDraft]
    /\ gone' = [h \in Handlers |-> FALSE]
    /\ stuck' = {}
    /\ freeing' = NoDraft
    /\ UNCHANGED store

-----------------------------------------------------------------------------
HandlerStep(h) ==
    \/ WriteOutbound(h) \/ InsertDraft(h) \/ RemoveRejected(h)
    \/ LoadDraft(h) \/ CheckTTL(h) \/ MarkExpired(h) \/ RemoveExpired(h)
    \/ UploadMedia(h) \/ FlipToConfirmed(h) \/ SendMessage(h)
    \/ MarkFailed(h) \/ MarkSent(h) \/ ArchiveSent(h) \/ RemoveSent(h)

BootStep ==
    \/ Boot \/ ScanInFlight \/ FreeInFlight \/ Serve
    \/ \E d \in Drafts : FailInFlight(d)

Next ==
    \/ \E h \in Handlers : HandlerStep(h) \/ HangUp(h)
    \/ \E h \in Handlers, d \in Drafts : Create(h, d) \/ Confirm(h, d)
    \/ \E d \in Drafts : TimePasses(d)
    \/ BootStep
    \/ Stop

Spec == Init /\ [][Next]_vars

\* A goroutine is not descheduled for ever, every call it makes has a timeout,
\* and the supervisor (launchd KeepAlive) starts the bridge again.
FairSpec ==
    /\ Spec
    /\ \A h \in Handlers : WF_vars(HandlerStep(h))
    /\ WF_vars(BootStep)
-----------------------------------------------------------------------------
(* Properties.                                                             *)

StoreType ==
    /\ row \in [Drafts -> Statuses]
    /\ stale \in [Drafts -> BOOLEAN]
    /\ file \in [Drafts -> BOOLEAN]
    /\ archived \in [Drafts -> BOOLEAN]
    /\ delivered \in [Drafts -> Nat]

CallType ==
    /\ pc \in [Handlers -> Points \union {"idle"}]
    /\ req \in [Handlers -> Drafts \union {NoDraft}]
    /\ gone \in [Handlers -> BOOLEAN]

BootType ==
    /\ proc \in {"down", "scan", "reconcile", "up"}
    /\ stuck \subseteq Drafts
    /\ freeing \in Drafts \union {NoDraft}
    /\ stops \in 0..MaxStops

\* Every variable keeps its type; the status column only holds what the CHECK
\* of the sends table allows.
TypeOK == StoreType /\ CallType /\ BootType

\* However many confirm calls race for a draft, and wherever the process
\* stops and restarts, its message reaches WhatsApp at most once.
AtMostOnce == \A d \in Drafts : delivered[d] <= 1

\* A row says 'sent', and the archive holds the message, only if WhatsApp has
\* accepted it: no failed or unanswered send is ever recorded as done.
SentWasDelivered ==
    \A d \in Drafts : row[d] = "sent" \/ archived[d] => delivered[d] = 1

\* A draft the user can still confirm has its bytes, so an upload that failed
\* can be tried again on the same draft: no other call, no boot and no retry
\* has deleted the file under it.
LiveDraftHasBytes ==
    \A d \in MediaDrafts : row[d] = "draft" /\ ~stale[d] => file[d]

\* While the bridge serves, a row is 'confirmed' only as long as a call is
\* still working on that send: none is forgotten in a state nothing reads.
ConfirmedIsOwned ==
    proc = "up" =>
        \A d \in Drafts : row[d] = "confirmed" =>
            Busy(d, {"send", "markFailed", "markSent"}) # {}

\* A send WhatsApp acknowledged is recorded even if the client hangs up: an
\* archived message never leaves its row unfinished, and while the process
\* runs every 'sent' row has its message or a call about to write it.
AcknowledgedIsRecorded ==
    \A d \in Drafts :
        /\ archived[d] => row[d] \in {"sent", "expired"}
        /\ row[d] = "sent" /\ stops = 0 => archived[d] \/ Busy(d, {"archive"}) # {}

\* A draft the code has expired is never delivered: sends.go:296.  The code
\* violates it, and no configuration checks it.
ExpiredIsNotDelivered ==
    \A d \in Drafts : row[d] = "expired" => delivered[d] = 0

\* Every confirmed send comes to an end: sent, failed or expired.
ConfirmedResolves ==
    \A d \in Drafts : row[d] = "confirmed" ~> row[d] \in {"sent", "failed", "expired"}

-----------------------------------------------------------------------------
(* The inductive invariant behind the safety properties above, in parts.   *)

Closed(d) == row[d] \notin {"none", "draft"}

\* A slot is idle or is about a draft.
CallShape ==
    \A h \in Handlers :
        IF At(h, "idle") THEN req[h] = NoDraft ELSE req[h] \in Drafts

\* A draft being created has no row, a single creator and, at the insert, its
\* bytes; past the SELECT a confirm call has a row.
RowShape ==
    /\ \A h \in Handlers : pc[h] \in CreatePoints =>
          /\ row[req[h]] = "none"
          /\ At(h, "insert") /\ req[h] \in MediaDrafts => file[req[h]]
    /\ \A g, h \in Handlers :
          pc[g] \in CreatePoints /\ pc[h] \in CreatePoints /\ req[g] = req[h] => g = h
    /\ \A h \in Handlers : pc[h] \in ConfirmPoints \ {"load"} => row[req[h]] # "none"

\* Past the flip the draft is closed; before the send nothing was delivered,
\* after an acknowledged one exactly one message was; one call sends a draft.
SendShape ==
    /\ \A h \in Handlers :
          /\ pc[h] \in {"send", "markFailed", "markSent", "archive", "rmSent"} => Closed(req[h])
          /\ At(h, "send") => delivered[req[h]] = 0
          /\ pc[h] \in {"markSent", "archive", "rmSent"} => delivered[req[h]] = 1
    /\ \A g, h \in Handlers :
          At(g, "send") /\ At(h, "send") /\ req[g] = req[h] => g = h
    /\ \A d \in Drafts : delivered[d] # 0 => Closed(d) /\ delivered[d] = 1

\* Whoever is about to delete bytes is about a draft that expired or closed.
RemovalShape ==
    /\ \A h \in Handlers : pc[h] \in {"expire", "rmExpired"} => stale[req[h]]
    /\ \A d \in stuck : Closed(d)
    /\ freeing # NoDraft => Closed(freeing)

\* Each call, its row, its file and its deliveries stay in step; this is the
\* invariant the proofs use.
SendInv ==
    /\ TypeOK /\ CallShape /\ RowShape /\ SendShape /\ RemovalShape
    /\ SentWasDelivered /\ LiveDraftHasBytes

\* Behind ConfirmedIsOwned, where statements succeed and no client hangs up
\* between the flip and the failed-update: only a serving process runs calls,
\* and a boot that is past its scan has every confirmed row on its list.
OwnerShape ==
    /\ \A h \in Handlers : gone[h] => pc[h] \notin {"send", "markFailed"}
    /\ proc # "up" => \A h \in Handlers : At(h, "idle")
    /\ proc = "reconcile" => \A d \in Drafts : row[d] = "confirmed" => d \in stuck
    /\ ConfirmedIsOwned

\* Behind AcknowledgedIsRecorded, where statements succeed: one call at most is
\* between the flip and the archive row of a draft, and the row waits for it.
RecordShape ==
    /\ \A g, h \in Handlers :
          /\ pc[g] \in {"send", "markFailed", "markSent", "archive"}
          /\ pc[h] \in {"send", "markFailed", "markSent", "archive"}
          /\ req[g] = req[h]
          => g = h
    /\ \A h \in Handlers :
          /\ pc[h] \in {"send", "markFailed", "markSent"} =>
                row[req[h]] \in {"confirmed", "expired"} /\ ~archived[req[h]]
          /\ At(h, "archive") => row[req[h]] \in {"sent", "expired"}
    /\ proc # "up" => \A h \in Handlers : At(h, "idle")
    /\ AcknowledgedIsRecorded

\* The contract's state, computed from the flow's.
Contract == INSTANCE SendContract WITH
    phase <- [d \in Drafts |->
                 IF row[d] = "none" THEN "absent"
                 ELSE IF row[d] = "draft" THEN "open" ELSE "closed"],
    armed <- {d \in Drafts : Busy(d, {"send"}) # {}},
    delivered <- delivered

\* The flow implements its contract: an approval closes the draft for good and
\* is worth one delivery, whatever calls race and wherever the process stops.
ImplementsContract == Contract!Spec
=============================================================================
