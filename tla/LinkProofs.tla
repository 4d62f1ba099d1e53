----------------------------- MODULE LinkProofs -----------------------------
(***************************************************************************)
(* Proofs about Link: its inductive invariant, one step per action, and    *)
(* the safety properties that follow from it, for any number of goroutines *)
(* and callers.                                                            *)
(***************************************************************************)
EXTENDS Link, TLAPS

\* The invariant holds while the bridge has not been started.
LEMMA LinkInitial == Init => LinkInv
BY LinkAssumption
DEF Init, LinkInv, TypeOK, DeviceType, FlagType, ProcType, DeviceShape, ConnectedShape, ClockShape, OneLoginLoop,
    Looping, LoopPoints, AuthStates, Callers, Up, LoginSettled

\* Losing the process keeps the invariant.
LEMMA DieStep == LinkInv /\ Die => LinkInv'
BY LinkAssumption
DEF Die, LinkInv, TypeOK, DeviceType, FlagType, ProcType, DeviceShape, ConnectedShape, ClockShape, OneLoginLoop,
    Looping, LoopPoints, AuthStates, Callers, Up, LoginSettled

\* Starting, and the steps of RunAuth.
LEMMA AuthSteps == LinkInv /\ (NewBridge \/ AuthStep) => LinkInv'
<1> USE LinkAssumption
    DEF LinkInv, TypeOK, DeviceType, FlagType, ProcType, DeviceShape, ConnectedShape, ClockShape, OneLoginLoop,
        Looping, LoopPoints, AuthStates, Up, LoginSettled, device,
        flags, SetAuthState
<1>1. LinkInv /\ NewBridge => LinkInv'
  BY DEF NewBridge
<1>2. LinkInv /\ AuthStart => LinkInv'
  BY DEF AuthStart
<1>3. LinkInv /\ AuthConnect => LinkInv'
  BY DEF AuthConnect, Connectable
<1>4. LinkInv /\ AuthFlag => LinkInv'
  <2>1. ASSUME LinkInv, AuthFlag, ident PROVE LinkInv'
    BY <2>1 DEF AuthFlag, Die
  <2>2. AuthFlag => ident \/ Die
    BY DEF AuthFlag
  <2> QED
    BY <2>1, <2>2, DieStep
<1> QED
  BY <1>1, <1>2, <1>3, <1>4 DEF AuthStep

\* The steps of a pairing loop.  Only the goroutine that found loginRunning
\* false is past the entry, and it opens a socket only when none is up.
LEMMA LoopSteps ==
    ASSUME LinkInv, NEW l \in Loops, LoopStep(l)
    PROVE  LinkInv'
<1> USE DEF LinkInv, TypeOK, DeviceType, FlagType, ProcType, DeviceShape, ConnectedShape, ClockShape, OneLoginLoop,
        Looping, LoopPoints, AuthStates, Up, LoginSettled, device,
        flags, procs, SetAuthState, MoveLoop, LeaveLoop
<1>1. CASE LoopWait(l)
  BY <1>1 DEF LoopWait
<1>2. CASE LoopEnter(l)
  <2>1. TypeOK'
    <3>1. DeviceType'
      BY <1>2 DEF LoopEnter
    <3>2. FlagType'
      BY <1>2 DEF LoopEnter
    <3>3. ProcType'
      BY <1>2 DEF LoopEnter
    <3> QED
      BY <3>1, <3>2, <3>3
  <2>2. DeviceShape'
    BY <1>2 DEF LoopEnter
  <2>3. ConnectedShape'
    BY <1>2 DEF LoopEnter
  <2>4. ClockShape'
    BY <1>2 DEF LoopEnter
  <2>5. OneLoginLoop'
    BY <1>2 DEF LoopEnter
  <2> QED
    BY <2>1, <2>2, <2>3, <2>4, <2>5 DEF LinkInv
<1>3. CASE LoopRound(l)
  <2>1. TypeOK'
    <3>1. DeviceType'
      BY <1>3 DEF LoopRound
    <3>2. FlagType'
      BY <1>3 DEF LoopRound
    <3>3. ProcType'
      BY <1>3 DEF LoopRound
    <3> QED
      BY <3>1, <3>2, <3>3
  <2>2. DeviceShape'
    BY <1>3 DEF LoopRound
  <2>3. ConnectedShape'
    BY <1>3 DEF LoopRound
  <2>4. ClockShape'
    BY <1>3 DEF LoopRound
  <2>5. OneLoginLoop'
    BY <1>3 DEF LoopRound
  <2> QED
    BY <2>1, <2>2, <2>3, <2>4, <2>5 DEF LinkInv
<1>4. CASE LoopConnect(l)
  <2>1. TypeOK'
    <3>1. DeviceType'
      BY <1>4 DEF LoopConnect, Connectable
    <3>2. FlagType'
      BY <1>4 DEF LoopConnect, Connectable
    <3>3. ProcType'
      BY <1>4 DEF LoopConnect, Connectable
    <3> QED
      BY <3>1, <3>2, <3>3
  <2>2. DeviceShape'
    BY <1>4 DEF LoopConnect, Connectable
  <2>3. ConnectedShape'
    BY <1>4 DEF LoopConnect, Connectable
  <2>4. ClockShape'
    BY <1>4 DEF LoopConnect, Connectable
  <2>5. OneLoginLoop'
    BY <1>4 DEF LoopConnect, Connectable
  <2> QED
    BY <2>1, <2>2, <2>3, <2>4, <2>5 DEF LinkInv
<1>5. CASE LoopBatch(l)
  <2>1. TypeOK'
    <3>1. DeviceType'
      BY <1>5 DEF LoopBatch
    <3>2. FlagType'
      BY <1>5 DEF LoopBatch
    <3>3. ProcType'
      BY <1>5 DEF LoopBatch
    <3> QED
      BY <3>1, <3>2, <3>3
  <2>2. DeviceShape'
    BY <1>5 DEF LoopBatch
  <2>3. ConnectedShape'
    BY <1>5 DEF LoopBatch
  <2>4. ClockShape'
    BY <1>5 DEF LoopBatch
  <2>5. OneLoginLoop'
    BY <1>5 DEF LoopBatch
  <2> QED
    BY <2>1, <2>2, <2>3, <2>4, <2>5 DEF LinkInv
<1>6. CASE LoopSettle(l)
  <2>1. TypeOK'
    <3>1. DeviceType'
      BY <1>6 DEF LoopSettle
    <3>2. FlagType'
      BY <1>6 DEF LoopSettle
    <3>3. ProcType'
      BY <1>6 DEF LoopSettle
    <3> QED
      BY <3>1, <3>2, <3>3
  <2>2. DeviceShape'
    BY <1>6 DEF LoopSettle
  <2>3. ConnectedShape'
    BY <1>6 DEF LoopSettle
  <2>4. ClockShape'
    BY <1>6 DEF LoopSettle
  <2>5. OneLoginLoop'
    BY <1>6 DEF LoopSettle
  <2> QED
    BY <2>1, <2>2, <2>3, <2>4, <2>5 DEF LinkInv
<1>7. CASE LoopDrop(l)
  BY <1>7 DEF LoopDrop
<1>8. CASE LoopPause(l)
  BY <1>8 DEF LoopPause
<1> QED
  BY <1>1, <1>2, <1>3, <1>4, <1>5, <1>6, <1>7, <1>8, Zenon DEF LoopStep

\* Pairing codes, the watchdog and Reconnect.
LEMMA CallSteps ==
    ASSUME LinkInv,
           \/ AskPairingCode \/ GetPairingCode \/ WatchdogNudge
           \/ \E c \in Operators : OperatorCall(c)
           \/ \E c \in Callers : ReconnectStep(c)
    PROVE  LinkInv'
<1> USE DEF LinkInv, TypeOK, DeviceType, FlagType, ProcType, DeviceShape, ConnectedShape, ClockShape, OneLoginLoop,
        Looping, LoopPoints, AuthStates, Up, LoginSettled, device,
        flags, SetAuthState, MoveCall
<1>1. CASE AskPairingCode
  BY <1>1 DEF AskPairingCode
<1>6. CASE GetPairingCode
  <2>1. TypeOK'
    <3>1. DeviceType'
      BY <1>6 DEF GetPairingCode
    <3>2. FlagType'
      BY <1>6 DEF GetPairingCode
    <3>3. ProcType'
      BY <1>6 DEF GetPairingCode
    <3> QED
      BY <3>1, <3>2, <3>3
  <2>2. DeviceShape'
    BY <1>6 DEF GetPairingCode
  <2>3. ConnectedShape'
    BY <1>6 DEF GetPairingCode
  <2>4. ClockShape'
    BY <1>6 DEF GetPairingCode
  <2>5. OneLoginLoop'
    BY <1>6 DEF GetPairingCode
  <2> QED
    BY <2>1, <2>2, <2>3, <2>4, <2>5 DEF LinkInv
<1>2. CASE WatchdogNudge \/ \E c \in Operators : OperatorCall(c)
  BY <1>2 DEF WatchdogNudge, OperatorCall, Callers
<1>3. ASSUME NEW c \in Callers, ReconnectEnter(c) PROVE LinkInv'
  BY <1>3 DEF ReconnectEnter
<1>4. ASSUME NEW c \in Callers, ReconnectConnect(c) PROVE LinkInv'
  BY <1>4 DEF ReconnectConnect, Connectable
<1>5. ASSUME NEW c \in Callers, ReconnectPaired(c) PROVE LinkInv'
  BY <1>5 DEF ReconnectPaired
<1> QED
  BY <1>1, <1>2, <1>3, <1>4, <1>5, <1>6, Zenon DEF ReconnectStep

\* What whatsmeow and the network do.  A handshake is accepted only once the
\* pairing loops have settled, so none of them will drop the socket it opened.
LEMMA WhatsmeowSteps ==
    LinkInv /\ (WhatsmeowStep \/ NetChanges \/ UNCHANGED vars) => LinkInv'
<1> USE DEF LinkInv, TypeOK, DeviceType, FlagType, ProcType, DeviceShape, ConnectedShape, ClockShape, OneLoginLoop,
        Looping, LoopPoints, AuthStates, Up, LoginSettled, device,
        flags, procs
<1>1. LinkInv /\ Connected => LinkInv'
  <2>1. LinkInv /\ Connected => TypeOK'
    BY DEF Connected
  <2>2. LinkInv /\ Connected => DeviceShape'
    BY DEF Connected
  <2>3. LinkInv /\ Connected => ConnectedShape'
    BY DEF Connected
  <2>4. LinkInv /\ Connected => ClockShape'
    BY DEF Connected
  <2>5. LinkInv /\ Connected => OneLoginLoop'
    BY DEF Connected
  <2> QED
    BY <2>1, <2>2, <2>3, <2>4, <2>5 DEF LinkInv
<1>2. LinkInv /\ Refused => LinkInv'
  BY DEF Refused
<1>3. LinkInv /\ Disconnected => LinkInv'
  <2>1. LinkInv /\ Disconnected => TypeOK'
    BY DEF Disconnected
  <2>2. LinkInv /\ Disconnected => DeviceShape'
    BY DEF Disconnected
  <2>3. LinkInv /\ Disconnected => ConnectedShape'
    BY DEF Disconnected
  <2>4. LinkInv /\ Disconnected => ClockShape'
    BY DEF Disconnected
  <2>5. LinkInv /\ Disconnected => OneLoginLoop'
    BY DEF Disconnected
  <2> QED
    BY <2>1, <2>2, <2>3, <2>4, <2>5 DEF LinkInv
<1>4. LinkInv /\ AutoReconnect => LinkInv'
  BY DEF AutoReconnect, Connectable
<1>5. LinkInv /\ PairSuccess => LinkInv'
  BY DEF PairSuccess
<1>6. LinkInv /\ StoreDelete => LinkInv'
  <2>1. LinkInv /\ StoreDelete => TypeOK'
    <3>1. LinkInv /\ StoreDelete => DeviceType'
      BY DEF StoreDelete
    <3>2. LinkInv /\ StoreDelete => FlagType'
      BY DEF StoreDelete
    <3>3. LinkInv /\ StoreDelete => ProcType'
      BY DEF StoreDelete
    <3> QED
      BY <3>1, <3>2, <3>3
  <2>2. LinkInv /\ StoreDelete => DeviceShape'
    BY DEF StoreDelete
  <2>3. LinkInv /\ StoreDelete => ConnectedShape'
    BY DEF StoreDelete
  <2>4. LinkInv /\ StoreDelete => ClockShape'
    BY DEF StoreDelete
  <2>5. LinkInv /\ StoreDelete => OneLoginLoop'
    BY DEF StoreDelete
  <2> QED
    BY <2>1, <2>2, <2>3, <2>4, <2>5 DEF LinkInv
<1>7. ASSUME LinkInv, NEW l \in Loops, LoggedOut, loop' = [loop EXCEPT ![l] = "wait"], loop[l] = "free"
  PROVE LinkInv'
  BY <1>7 DEF LoggedOut
<1>8. LinkInv /\ NetChanges => LinkInv'
  BY DEF NetChanges
<1>9. LinkInv /\ UNCHANGED vars => LinkInv'
  BY DEF vars
<1> QED
  BY <1>1, <1>2, <1>3, <1>4, <1>5, <1>6, <1>7, <1>8, <1>9, Zenon
  DEF WhatsmeowStep, LoggedOut

-----------------------------------------------------------------------------
\* The inductive invariant of the link: identity, socket, flags, outage clock
\* and pairing loops stay in step.
THEOREM LinkInvariant == Spec => []LinkInv
<1>1. LinkInv /\ [Next]_vars => LinkInv'
  BY AuthSteps, LoopSteps, CallSteps, WhatsmeowSteps, DieStep, Zenon
  DEF Next, FatalExit, Signal
<1> QED
  BY LinkInitial, <1>1, PTL DEF Spec

\* Every variable of the link keeps its type.
THEOREM LinkTypeCorrect == Spec => []TypeOK
<1>1. LinkInv => TypeOK
  BY DEF LinkInv
<1> QED
  BY <1>1, LinkInvariant, PTL

\* However many logouts, reconnects and restarts ask for it, one goroutine runs
\* the pairing loop.
THEOREM LoginLoopIsUnique == Spec => []OneLoginLoop
<1>1. LinkInv => OneLoginLoop
  BY DEF LinkInv
<1> QED
  BY <1>1, LinkInvariant, PTL

\* The gate of the send flow is open only over a live socket of a paired device.
THEOREM SendGateIsSound == Spec => []SendsNeedLink
<1>1. LinkInv => SendsNeedLink
  BY DEF LinkInv, ConnectedShape, SendsNeedLink, SendReady
<1> QED
  BY <1>1, LinkInvariant, PTL

\* Every outage of a paired device is on the watchdog's clock.
THEOREM OutagesAreTimed == Spec => []OutageIsTimed
<1>1. LinkInv => OutageIsTimed
  BY DEF LinkInv, DeviceShape, ClockShape, OutageIsTimed
<1> QED
  BY <1>1, LinkInvariant, PTL

-----------------------------------------------------------------------------
(* Pairing goes on.                                                        *)

LEMMA PairingInitial == Init => PairingShape
BY DEF Init, PairingShape, UnpairedIsPairing, Up

\* Losing the process ends everything that was going on.
LEMMA PairingDie == Die => PairingShape'
BY DEF Die, PairingShape, UnpairedIsPairing, Up

LEMMA PairingAuth == LinkInv /\ PairingShape /\ (NewBridge \/ AuthStep) => PairingShape'
<1> USE DEF PairingShape, UnpairedIsPairing, Up, device, flags, SetAuthState
<1>1. ASSUME PairingShape, NewBridge PROVE PairingShape'
  BY <1>1 DEF NewBridge
<1>2. ASSUME LinkInv, PairingShape, AuthStart PROVE PairingShape'
  <2>1. loop \in [Loops -> LoopPoints]
    BY <1>2 DEF LinkInv, TypeOK, ProcType
  <2>2. CASE ident
    <3>1. UNCHANGED <<loop, call, proc, fatal, device, socket>> /\ auth' = "connect"
      BY <1>2, <2>2 DEF AuthStart
    <3> QED
      BY <1>2, <2>2, <3>1
  <2>3. ASSUME NEW l \in Loops, loop[l] = "free", loop' = [loop EXCEPT ![l] = "enter"],
               auth' = "done"
        PROVE PairingShape'
    BY <1>2, <2>1, <2>3 DEF AuthStart
  <2> QED
    BY <1>2, <2>2, <2>3 DEF AuthStart
<1>3. ASSUME LinkInv, PairingShape, AuthConnect PROVE PairingShape'
  BY <1>3 DEF AuthConnect, Connectable
<1>4. ASSUME PairingShape, AuthFlag PROVE PairingShape'
  <2>1. CASE ident
    BY <1>4, <2>1 DEF AuthFlag, Die
  <2>2. CASE ~ident
    BY <1>4, <2>2, PairingDie DEF AuthFlag
  <2> QED
    BY <2>1, <2>2
<1> QED
  BY <1>1, <1>2, <1>3, <1>4, Zenon DEF AuthStep

\* The steps of a pairing loop: it ends with an identity, with a restart, or
\* because another goroutine owns it.
LEMMA PairingLoop ==
    ASSUME LinkInv, PairingShape, PromptDelete, net, NEW l \in Loops, LoopStep(l)
    PROVE  PairingShape'
<1> USE DEF Up, device, flags, procs, SetAuthState, MoveLoop, LeaveLoop
<1>1. loop \in [Loops -> LoopPoints]
  BY DEF LinkInv, TypeOK, ProcType
<1>2. CASE LoopWait(l)
  BY <1>1, <1>2 DEF LoopWait, PairingShape, UnpairedIsPairing
<1>3. CASE LoopEnter(l)
  <2>1. CASE loginRunning
    <3>1. PICK k \in Loops : Looping(k)
      BY <2>1 DEF LinkInv, OneLoginLoop
    <3>2. k # l /\ loop[k] # "free"
      BY <1>3, <3>1 DEF LoopEnter, Looping
    <3>3. loop' = [loop EXCEPT ![l] = "free"]
          /\ UNCHANGED <<device, socket, flags, fatal, auth, call, proc>>
      BY <1>3, <2>1 DEF LoopEnter
    <3>4. loop[l] # "wait"
      BY <1>3 DEF LoopEnter
    <3> QED
      BY <1>1, <3>2, <3>3, <3>4 DEF PairingShape, UnpairedIsPairing
  <2>2. CASE ~loginRunning
    BY <1>1, <1>3, <2>2 DEF LoopEnter, PairingShape, UnpairedIsPairing
  <2> QED
    BY <2>1, <2>2
<1>4. CASE LoopRound(l)
  BY <1>1, <1>4 DEF LoopRound, PairingShape, UnpairedIsPairing
<1>5. CASE LoopConnect(l)
  <2>1. CASE Connectable
    <3>1. \A k \in Loops : loop[k] = "connect" => k = l
      BY <1>5 DEF LoopConnect, LinkInv, OneLoginLoop, Looping
    <3> QED
      BY <1>1, <1>5, <2>1, <3>1 DEF LoopConnect, PairingShape, UnpairedIsPairing
  <2>2. CASE ~Connectable
    <3>1. deleted
      BY <1>5, <2>2 DEF LoopConnect, Connectable, PairingShape
    <3> QED
      BY <1>1, <1>5, <2>2, <3>1 DEF LoopConnect, PairingShape, UnpairedIsPairing
  <2> QED
    BY <2>1, <2>2
<1>6. CASE LoopBatch(l)
  BY <1>1, <1>6 DEF LoopBatch, PairingShape, UnpairedIsPairing
<1>7. CASE LoopSettle(l)
  BY <1>1, <1>7 DEF LoopSettle, PairingShape, UnpairedIsPairing
<1>8. CASE LoopDrop(l)
  BY <1>1, <1>8 DEF LoopDrop, PairingShape, UnpairedIsPairing
<1>9. CASE LoopPause(l)
  BY <1>1, <1>9 DEF LoopPause, PairingShape, UnpairedIsPairing
<1> QED
  BY <1>2, <1>3, <1>4, <1>5, <1>6, <1>7, <1>8, <1>9, Zenon DEF LoopStep

LEMMA PairingCalls ==
    ASSUME LinkInv, PairingShape,
           \/ AskPairingCode \/ GetPairingCode \/ WatchdogNudge
           \/ \E c \in Operators : OperatorCall(c)
           \/ \E c \in Callers : ReconnectStep(c)
    PROVE  PairingShape'
<1> USE DEF PairingShape, UnpairedIsPairing, Up, device, flags, SetAuthState, MoveCall
<1>1. loop \in [Loops -> LoopPoints] /\ call \in [Callers -> {"idle", "enter", "connect", "paired"}]
  BY DEF LinkInv, TypeOK, ProcType
<1>2. CASE AskPairingCode \/ GetPairingCode
  BY <1>2 DEF AskPairingCode, GetPairingCode
<1>3. CASE WatchdogNudge \/ \E c \in Operators : OperatorCall(c)
  BY <1>1, <1>3 DEF WatchdogNudge, OperatorCall, Callers
<1>4. ASSUME NEW c \in Callers, ReconnectEnter(c) PROVE PairingShape'
  BY <1>1, <1>4 DEF ReconnectEnter
<1>5. ASSUME NEW c \in Callers, ReconnectConnect(c) PROVE PairingShape'
  BY <1>1, <1>5 DEF ReconnectConnect, Connectable
<1>6. ASSUME NEW c \in Callers, ReconnectPaired(c) PROVE PairingShape'
  BY <1>1, <1>6 DEF ReconnectPaired
<1> QED
  BY <1>2, <1>3, <1>4, <1>5, <1>6, Zenon DEF ReconnectStep

LEMMA PairingWhatsmeow ==
    LinkInv /\ PairingShape /\ (WhatsmeowStep \/ NetChanges \/ UNCHANGED vars) => PairingShape'
<1> SUFFICES ASSUME LinkInv, PairingShape, WhatsmeowStep \/ NetChanges \/ UNCHANGED vars
             PROVE  PairingShape'
  OBVIOUS
<1> USE DEF PairingShape, UnpairedIsPairing, Up, device, flags, procs
<1>1. loop \in [Loops -> LoopPoints]
  BY DEF LinkInv, TypeOK, ProcType
<1>2. CASE Connected \/ Refused \/ Disconnected
  BY <1>2 DEF Connected, Refused, Disconnected
<1>3. CASE AutoReconnect
  BY <1>3 DEF AutoReconnect, Connectable
<1>4. CASE PairSuccess
  BY <1>4 DEF PairSuccess
<1>5. CASE LoggedOut
  <2>1. PICK l \in Loops : loop[l] = "free" /\ loop' = [loop EXCEPT ![l] = "wait"]
    BY <1>5 DEF LoggedOut
  <2> QED
    BY <1>1, <1>5, <2>1 DEF LoggedOut
<1>6. CASE StoreDelete
  BY <1>6 DEF StoreDelete
<1>7. CASE NetChanges
  BY <1>7 DEF NetChanges
<1>8. CASE UNCHANGED vars
  BY <1>8 DEF vars
<1> QED
  BY <1>2, <1>3, <1>4, <1>5, <1>6, <1>7, <1>8, Zenon DEF WhatsmeowStep

\* If deletions land in time, an unpaired device is seen to for as long as the
\* network is there.
THEOREM PairingLasts == ASSUME PromptDelete PROVE Spec => PairingGoesOn
<1>1. LinkInv /\ PairingShape /\ net /\ [Next]_vars => PairingShape'
  BY PairingAuth, PairingLoop, PairingCalls, PairingWhatsmeow, PairingDie, Zenon
  DEF Next, FatalExit, Signal
<1>2. PairingShape => UnpairedIsPairing
  BY DEF PairingShape
<1> QED
  BY PairingInitial, LinkInvariant, <1>1, <1>2, PTL DEF Spec, PairingGoesOn
=============================================================================
