-------------------------------- MODULE Link --------------------------------
(***************************************************************************)
(* The bridge's link to WhatsApp: pairing, reconnecting, being logged out  *)
(* and the watchdog (whatsapp-bridge/auth.go, bridge.go, watchdog.go).     *)
(*                                                                         *)
(* RunAuth, every run of loginLoop and every call of Reconnect is a        *)
(* goroutine.  Each section they hold b.mu for, and each call they make    *)
(* into whatsmeow, is one action.  whatsmeow is external: it is modelled   *)
(* by the device identity (Store.ID), the socket, and the events it hands  *)
(* to handleEvent in the step that changes them.                           *)
(***************************************************************************)

CONSTANTS
    Loops,            \* slots for goroutines that call loginLoop
    Watchdog,         \* the caller of Reconnect in RunDisconnectionWatchdog
    Operators,        \* callers of POST /api/auth/reconnect
    PromptDelete      \* Store.Delete lands within the 2 s a logout waits

ASSUME LinkAssumption ==
    /\ Watchdog \notin Operators
    /\ PromptDelete \in BOOLEAN

Callers == Operators \union {Watchdog}

AuthStates == {"unauthenticated", "qr_pending", "pairing_pending", "paired",
               "logged_out", "timed_out"}

VARIABLES
    ident,            \* Store.ID # nil: the session store holds a device
    deleted,          \* Store.Deleted: this client can never connect again
    deleting,         \* a logout was dispatched, its Store.Delete has not landed
    socket,           \* "closed", "open" (handshaking or pairing) or "live"
    net,              \* WhatsApp is reachable and accepts this client
    connected, authenticated, authState,
    timed,            \* disconnectedSince is not the zero time
    loginRunning,
    fatal,            \* the Fatal channel is closed
    auth,             \* where RunAuth is
    loop,             \* loop[l]: where the goroutine in slot l is
    call,             \* call[c]: where caller c of Reconnect is
    typing,           \* RequestPairingCode is inside PairPhone
    proc              \* "up" or "down"

device == <<ident, deleted, deleting>>
flags == <<connected, authenticated, authState, timed>>
procs == <<loginRunning, fatal, auth, loop, call, typing, proc>>
vars == <<device, socket, net, flags, procs>>

Up == proc = "up"
LoopPoints == {"free", "wait", "enter", "round", "connect", "batch", "settle",
               "drop", "pause"}

\* The goroutine in slot l is past the entry of loginLoop.
Looping(l) == loop[l] \notin {"free", "wait", "enter"}

\* No login loop is between a QR channel that ended and its next step.  Those
\* steps take microseconds, a new handshake takes round trips.
LoginSettled == \A l \in Loops : loop[l] \notin {"batch", "settle", "drop"}

Init ==
    /\ ident \in BOOLEAN /\ deleted = FALSE /\ deleting = FALSE
    /\ socket = "closed" /\ net \in BOOLEAN
    /\ connected = FALSE /\ authenticated = FALSE
    /\ authState = "unauthenticated" /\ timed = FALSE
    /\ loginRunning = FALSE /\ fatal = FALSE /\ auth = "done"
    /\ loop = [l \in Loops |-> "free"] /\ call = [c \in Callers |-> "idle"]
    /\ typing = FALSE /\ proc = "down"

-----------------------------------------------------------------------------
(* Steps the goroutines share.                                             *)

\* client.Connect(): refused while a socket exists or the device is deleted.
Connectable == socket = "closed" /\ ~deleted /\ net

SetAuthState(s) ==
    /\ authState' = s
    /\ UNCHANGED <<connected, authenticated, timed>>

MoveLoop(l, point) ==
    /\ loop' = [loop EXCEPT ![l] = point]
    /\ UNCHANGED <<loginRunning, fatal, auth, call, typing, proc>>

\* loginLoop returns; its deferred functions ask for a restart if the error was
\* ErrDeviceDeleted and release loginRunning.
LeaveLoop(l, deviceDeleted) ==
    /\ loop' = [loop EXCEPT ![l] = "free"]
    /\ loginRunning' = FALSE
    /\ fatal' = (fatal \/ deviceDeleted)
    /\ UNCHANGED <<auth, call, typing, proc>>

MoveCall(c, point) ==
    /\ call' = [call EXCEPT ![c] = point]
    /\ UNCHANGED <<loginRunning, fatal, auth, loop, typing, proc>>

\* Everything in memory is gone; the session store keeps the device row unless
\* its deletion has landed.
Die ==
    /\ proc' = "down" /\ socket' = "closed"
    /\ connected' = FALSE /\ authenticated' = FALSE
    /\ authState' = "unauthenticated" /\ timed' = FALSE
    /\ deleted' = FALSE /\ deleting' = FALSE
    /\ loginRunning' = FALSE /\ fatal' = FALSE /\ auth' = "done"
    /\ loop' = [l \in Loops |-> "free"] /\ call' = [c \in Callers |-> "idle"]
    /\ typing' = FALSE
    /\ UNCHANGED <<ident, net>>

-----------------------------------------------------------------------------
(* Boot: NewBridge, then RunAuth in a goroutine.                           *)

\* Mutant: the outage clock starts with the first Disconnected event only.
NewBridgeUntimed ==
    /\ proc = "down" /\ proc' = "up"
    /\ auth' = "start"
    /\ UNCHANGED <<device, socket, net, flags, loginRunning, fatal, loop, call, typing>>

\* "Not connected yet" is an outage that started now.
NewBridge ==
    /\ proc = "down" /\ proc' = "up"
    /\ timed' = TRUE
    /\ auth' = "start"
    /\ UNCHANGED <<device, socket, net, connected, authenticated, authState,
                   loginRunning, fatal, loop, call, typing>>

\* A returning user reconnects, anyone else enters the login loop.
AuthStart ==
    /\ Up /\ auth = "start"
    /\ \/ ident /\ auth' = "connect" /\ SetAuthState("paired") /\ UNCHANGED loop
       \/ \E l \in Loops :
             /\ ~ident /\ auth' = "done"
             /\ loop[l] = "free" /\ loop' = [loop EXCEPT ![l] = "enter"]
             /\ UNCHANGED flags
    /\ UNCHANGED <<device, socket, net, loginRunning, fatal, call, typing, proc>>

AuthConnect ==
    /\ Up /\ auth = "connect"
    /\ IF Connectable
       THEN socket' = "open" /\ auth' = "flag"
       ELSE auth' = "done" /\ UNCHANGED socket
    /\ UNCHANGED <<device, net, flags, loginRunning, fatal, loop, call, typing, proc>>

\* authenticated = true; deviceJID = Store.ID.String(), which panics if a
\* logout has removed the identity meanwhile.
AuthFlag ==
    /\ Up /\ auth = "flag"
    /\ \/ /\ ident
          /\ authenticated' = TRUE /\ auth' = "done"
          /\ UNCHANGED <<device, socket, net, connected, authState, timed,
                         loginRunning, fatal, loop, call, typing, proc>>
       \/ ~ident /\ Die

-----------------------------------------------------------------------------
(* loginLoop.                                                              *)

\* The 2 s between the LoggedOut event and the re-login.
LoopWait(l) ==
    /\ Up /\ loop[l] = "wait" /\ (PromptDelete => ~deleting)
    /\ MoveLoop(l, "enter")
    /\ UNCHANGED <<device, socket, net, flags>>

\* Mutant: the loop does not look whether another one is running.
LoopEnterUnguarded(l) ==
    /\ Up /\ loop[l] = "enter"
    /\ loop' = [loop EXCEPT ![l] = "round"] /\ loginRunning' = TRUE
    /\ UNCHANGED <<device, socket, net, flags, fatal, auth, call, typing, proc>>

\* Another goroutine owning the loop makes this one return nil.
LoopEnter(l) ==
    /\ Up /\ loop[l] = "enter"
    /\ IF loginRunning
       THEN MoveLoop(l, "free")
       ELSE /\ loop' = [loop EXCEPT ![l] = "round"] /\ loginRunning' = TRUE
            /\ UNCHANGED <<fatal, auth, call, typing, proc>>
    /\ UNCHANGED <<device, socket, net, flags>>

\* Mutant: a stale socket is an error like any other.
LoopRoundAbandoning(l) ==
    /\ Up /\ loop[l] = "round"
    /\ \/ /\ socket # "closed" /\ ident
          /\ SetAuthState("paired") /\ LeaveLoop(l, FALSE)
       \/ /\ socket # "closed" /\ ~ident
          /\ LeaveLoop(l, FALSE) /\ UNCHANGED flags
       \/ /\ socket = "closed" /\ ident
          /\ LeaveLoop(l, FALSE) /\ UNCHANGED flags
       \/ /\ socket = "closed" /\ ~ident
          /\ MoveLoop(l, "connect") /\ UNCHANGED flags
    /\ UNCHANGED <<device, socket, net>>

\* GetQRChannel: refused while a socket is up or the store has an identity.
LoopRound(l) ==
    /\ Up /\ loop[l] = "round"
    /\ \/ /\ socket # "closed" /\ ident              \* paired between rounds
          /\ SetAuthState("paired") /\ LeaveLoop(l, FALSE) /\ UNCHANGED socket
       \/ /\ socket # "closed" /\ ~ident             \* a stale socket: drop it
          /\ socket' = "closed" /\ MoveLoop(l, "pause") /\ UNCHANGED flags
       \/ /\ socket = "closed" /\ ident              \* ErrQRStoreContainsID
          /\ LeaveLoop(l, FALSE) /\ UNCHANGED <<socket, flags>>
       \/ /\ socket = "closed" /\ ~ident
          /\ MoveLoop(l, "connect") /\ UNCHANGED <<socket, flags>>
    /\ UNCHANGED <<device, net>>

\* Mutant: ErrDeviceDeleted is an error like any other.
LoopConnectSilent(l) ==
    /\ Up /\ loop[l] = "connect"
    /\ IF Connectable
       THEN socket' = "open" /\ MoveLoop(l, "batch")
       ELSE LeaveLoop(l, FALSE) /\ UNCHANGED socket
    /\ UNCHANGED <<device, net, flags>>

LoopConnect(l) ==
    /\ Up /\ loop[l] = "connect"
    /\ IF Connectable
       THEN socket' = "open" /\ MoveLoop(l, "batch")
       ELSE LeaveLoop(l, deleted) /\ UNCHANGED socket
    /\ UNCHANGED <<device, net, flags>>

\* One item of the QR channel: a code, success, the terminal timeout, or the
\* channel closing without either.
LoopBatch(l) ==
    /\ Up /\ loop[l] = "batch"
    /\ \/ /\ ~ident /\ socket = "open"
          /\ SetAuthState(IF authState = "pairing_pending" THEN authState ELSE "qr_pending")
          /\ UNCHANGED procs
       \/ ident /\ SetAuthState("paired") /\ LeaveLoop(l, FALSE)
       \/ ~ident /\ SetAuthState("timed_out") /\ MoveLoop(l, "settle")
       \/ UNCHANGED flags /\ MoveLoop(l, "settle")
    /\ UNCHANGED <<device, socket, net>>

LoopSettle(l) ==
    /\ Up /\ loop[l] = "settle"
    /\ IF ident
       THEN SetAuthState("paired") /\ LeaveLoop(l, FALSE)
       ELSE MoveLoop(l, "drop") /\ UNCHANGED flags
    /\ UNCHANGED <<device, socket, net>>

\* A fresh batch requires a clean socket.
LoopDrop(l) ==
    /\ Up /\ loop[l] = "drop"
    /\ socket' = "closed"
    /\ MoveLoop(l, "pause")
    /\ UNCHANGED <<device, net, flags>>

LoopPause(l) ==
    /\ Up /\ loop[l] = "pause"
    /\ MoveLoop(l, "round")
    /\ UNCHANGED <<device, socket, net, flags>>

\* RequestPairingCode: the check, PairPhone, and the state it sets whatever
\* has happened meanwhile.
AskPairingCode ==
    /\ Up /\ ~typing /\ ~ident /\ loginRunning
    /\ typing' = TRUE
    /\ UNCHANGED <<device, socket, net, flags, loginRunning, fatal, auth, loop, call, proc>>

GetPairingCode ==
    /\ Up /\ typing
    /\ typing' = FALSE
    /\ SetAuthState("pairing_pending") \/ UNCHANGED flags
    /\ UNCHANGED <<device, socket, net, loginRunning, fatal, auth, loop, call, proc>>

-----------------------------------------------------------------------------
(* Reconnect and the watchdog.                                             *)

\* Mutant: the watchdog looks at the flag only a connection can set.
WatchdogIfAuthenticated ==
    /\ Up /\ call[Watchdog] = "idle"
    /\ ~connected /\ timed /\ authenticated
    /\ MoveCall(Watchdog, "enter")
    /\ UNCHANGED <<device, socket, net, flags>>

\* A tick that finds an outage longer than the grace period, an identity, and
\* the delay since the last nudge over.
WatchdogNudge ==
    /\ Up /\ call[Watchdog] = "idle"
    /\ ~connected /\ timed /\ ident
    /\ MoveCall(Watchdog, "enter")
    /\ UNCHANGED <<device, socket, net, flags>>

OperatorCall(c) ==
    /\ Up /\ call[c] = "idle"
    /\ MoveCall(c, "enter")
    /\ UNCHANGED <<device, socket, net, flags>>

\* Paired: see to the socket.  Unpaired: see to the login loop.
ReconnectEnter(c) ==
    /\ Up /\ call[c] = "enter"
    /\ \/ ident /\ MoveCall(c, IF socket = "closed" THEN "connect" ELSE "paired")
       \/ ~ident /\ loginRunning /\ MoveCall(c, "idle")
       \/ \E l \in Loops :
             /\ ~ident /\ ~loginRunning /\ loop[l] = "free"
             /\ loop' = [loop EXCEPT ![l] = "enter"]
             /\ call' = [call EXCEPT ![c] = "idle"]
             /\ UNCHANGED <<loginRunning, fatal, auth, typing, proc>>
    /\ UNCHANGED <<device, socket, net, flags>>

ReconnectConnect(c) ==
    /\ Up /\ call[c] = "connect"
    /\ IF Connectable
       THEN socket' = "open" /\ MoveCall(c, "paired")
       ELSE MoveCall(c, "idle") /\ UNCHANGED socket
    /\ UNCHANGED <<device, net, flags>>

ReconnectPaired(c) ==
    /\ Up /\ call[c] = "paired"
    /\ SetAuthState("paired")
    /\ MoveCall(c, "idle")
    /\ UNCHANGED <<device, socket, net>>

-----------------------------------------------------------------------------
(* whatsmeow and its events, as handleEvent takes them.                    *)

\* The handshake of a device is accepted.
Connected ==
    /\ Up /\ socket = "open" /\ ident /\ ~deleting /\ net /\ LoginSettled
    /\ socket' = "live"
    /\ connected' = TRUE /\ timed' = FALSE
    /\ authenticated' = TRUE /\ authState' = "paired"
    /\ UNCHANGED <<device, net, procs>>

\* A handshake the server refuses ("Client outdated") is a log line, no event.
Refused ==
    /\ Up /\ socket = "open" /\ ~net
    /\ socket' = "closed"
    /\ UNCHANGED <<device, net, flags, procs>>

Disconnected ==
    /\ Up /\ socket # "closed" /\ ~net
    /\ socket' = "closed"
    /\ connected' = FALSE /\ timed' = TRUE
    /\ UNCHANGED <<device, net, authenticated, authState, procs>>

\* whatsmeow's own retries after an outage; they may stop at any time.
AutoReconnect ==
    /\ Up /\ ident /\ timed /\ Connectable
    /\ socket' = "open"
    /\ UNCHANGED <<device, net, flags, procs>>

\* The QR code is scanned or the typed code entered.
PairSuccess ==
    /\ Up /\ socket = "open" /\ ~ident /\ ~deleted /\ net /\ \E l \in Loops : Looping(l)
    /\ ident' = TRUE
    /\ authenticated' = TRUE /\ authState' = "paired"
    /\ UNCHANGED <<deleted, deleting, socket, net, connected, timed, procs>>

\* Mutant: the handler leaves `connected` to the Disconnected event, which
\* whatsmeow does not send for a logout.
LogOutStillConnected ==
    /\ Up /\ socket # "closed" /\ ident /\ ~deleting /\ net /\ LoginSettled
    /\ deleting' = TRUE
    /\ socket' \in {"closed", socket}
    /\ authState' = "logged_out"
    /\ \E l \in Loops : loop[l] = "free" /\ loop' = [loop EXCEPT ![l] = "wait"]
    /\ UNCHANGED <<ident, deleted, net, connected, authenticated, timed,
                   loginRunning, fatal, auth, call, typing, proc>>

\* The phone unlinks this device.  The socket may outlive the event, the
\* deletion of the device row follows it.
LoggedOut ==
    /\ Up /\ socket # "closed" /\ ident /\ ~deleting /\ net /\ LoginSettled
    /\ deleting' = TRUE
    /\ socket' \in {"closed", socket}
    /\ connected' = FALSE /\ authenticated' = FALSE /\ authState' = "logged_out"
    /\ \E l \in Loops : loop[l] = "free" /\ loop' = [loop EXCEPT ![l] = "wait"]
    /\ UNCHANGED <<ident, deleted, net, timed, loginRunning, fatal, auth, call,
                   typing, proc>>

StoreDelete ==
    /\ Up /\ deleting
    /\ ident' = FALSE /\ deleted' = TRUE /\ deleting' = FALSE
    /\ UNCHANGED <<socket, net, flags, procs>>

NetChanges ==
    /\ net' = ~net
    /\ UNCHANGED <<device, socket, flags, procs>>

\* main takes the Fatal channel as it takes a signal: Disconnect, then exit.
FatalExit == Up /\ fatal /\ Die

Signal == Up /\ ~fatal /\ Die

-----------------------------------------------------------------------------
AuthStep == AuthStart \/ AuthConnect \/ AuthFlag

LoopStep(l) ==
    \/ LoopWait(l) \/ LoopEnter(l) \/ LoopRound(l) \/ LoopConnect(l)
    \/ LoopBatch(l) \/ LoopSettle(l) \/ LoopDrop(l) \/ LoopPause(l)

ReconnectStep(c) == ReconnectEnter(c) \/ ReconnectConnect(c) \/ ReconnectPaired(c)

WhatsmeowStep ==
    \/ Connected \/ Refused \/ Disconnected \/ AutoReconnect
    \/ PairSuccess \/ LoggedOut \/ StoreDelete

Next ==
    \/ NewBridge \/ AuthStep \/ FatalExit \/ Signal
    \/ \E l \in Loops : LoopStep(l)
    \/ AskPairingCode \/ GetPairingCode
    \/ WatchdogNudge
    \/ \E c \in Operators : OperatorCall(c)
    \/ \E c \in Callers : ReconnectStep(c)
    \/ WhatsmeowStep \/ NetChanges

Spec == Init /\ [][Next]_vars

\* Goroutines run, the watchdog ticks, the supervisor restarts the bridge, and
\* whatsmeow finishes a handshake and a deletion it has begun.  Nobody has to
\* scan a code, call the API or mend the network.
FairSpec ==
    /\ Spec
    /\ WF_vars(NewBridge) /\ WF_vars(AuthStep) /\ WF_vars(FatalExit)
    /\ \A l \in Loops : WF_vars(LoopStep(l))
    /\ WF_vars(WatchdogNudge) /\ \A c \in Callers : WF_vars(ReconnectStep(c))
    /\ WF_vars(Connected) /\ WF_vars(StoreDelete)

-----------------------------------------------------------------------------
(* Properties.                                                             *)

DeviceType ==
    /\ ident \in BOOLEAN /\ deleted \in BOOLEAN /\ deleting \in BOOLEAN
    /\ socket \in {"closed", "open", "live"} /\ net \in BOOLEAN

FlagType ==
    /\ connected \in BOOLEAN /\ authenticated \in BOOLEAN
    /\ authState \in AuthStates /\ timed \in BOOLEAN

ProcType ==
    /\ loginRunning \in BOOLEAN /\ fatal \in BOOLEAN
    /\ auth \in {"start", "connect", "flag", "done"}
    /\ loop \in [Loops -> LoopPoints]
    /\ call \in [Callers -> {"idle", "enter", "connect", "paired"}]
    /\ typing \in BOOLEAN /\ proc \in {"up", "down"}

\* Every variable keeps its type; authState only takes the values auth.go
\* declares for /api/status.
TypeOK == DeviceType /\ FlagType /\ ProcType

\* One goroutine at most runs the pairing loop, whoever asked for it: RunAuth,
\* a logout or Reconnect.  Two would fight for the pairing socket.
OneLoginLoop ==
    /\ \A k, l \in Loops : Looping(k) /\ Looping(l) => k = l
    /\ loginRunning <=> \E l \in Loops : Looping(l)

\* IsConnected: what the send flow asks before it sends.
SendReady == connected /\ authenticated

\* Sends are accepted only over a live socket of a paired device: no logout, no
\* re-pairing and no late flag of RunAuth leaves the gate open behind it.
SendsNeedLink == SendReady => socket = "live" /\ ident

\* Every outage of a paired device is on the watchdog's clock, the one that
\* lasts since boot included.
OutageIsTimed == Up /\ ident /\ ~connected /\ ~deleting => timed

\* Somebody sees to an unpaired device: a pairing loop or its restart.
UnpairedIsPairing ==
    Up /\ ~ident => fatal \/ auth = "start" \/ \E l \in Loops : loop[l] # "free"

\* While the network is there, a device that is not paired or no longer paired
\* is never left without a pairing loop or a restart, whoever else held the
\* loop, dropped its socket or started it (auth.go:58-61: "until paired or ctx
\* is cancelled").  A connect that the network refuses does end the loop.
PairingGoesOn == []net => []UnpairedIsPairing

\* A logout by the phone ends in a restart, and so in a fresh device, however
\* the pairing loop, Reconnect and RunAuth stand when it arrives.
LogoutRestarts == deleting \/ deleted ~> ~Up

\* Once the network stays up, a paired bridge becomes able to send, even if it
\* has never been connected before.
OutageHeals ==
    <>[]net => (Up /\ ident ~> SendReady \/ deleting \/ ~Up)

-----------------------------------------------------------------------------
(* The inductive invariant behind the safety properties, in parts.         *)

\* A deletion is of an identity; a deleted client has none left.
DeviceShape ==
    /\ deleting => ident
    /\ deleted => ~ident

\* The flag is up only over a live socket, which no pairing loop will drop and
\* no logout has condemned.
ConnectedShape == connected => socket = "live" /\ ident /\ ~deleting /\ LoginSettled

\* Until a logout, the clock runs whenever the flag is down, paired or not.
ClockShape == Up /\ ~connected /\ ~deleting /\ ~deleted => timed

LinkInv == TypeOK /\ DeviceShape /\ ConnectedShape /\ ClockShape /\ OneLoginLoop

\* What PairingGoesOn rests on: the loop a logout starts waits for the deletion,
\* whoever is about to connect has an identity or had one deleted, and the loop
\* connects with no socket up.
PairingShape ==
    /\ deleting => \E l \in Loops : loop[l] = "wait"
    /\ auth \in {"connect", "flag"} => ident \/ deleted
    /\ \A c \in Callers : call[c] = "connect" => ident \/ deleted
    /\ \A l \in Loops : loop[l] = "connect" => ~ident /\ (deleted \/ socket = "closed")
    /\ UnpairedIsPairing
=============================================================================
