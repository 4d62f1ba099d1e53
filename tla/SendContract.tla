---------------------------- MODULE SendContract ----------------------------
(***************************************************************************)
(* What the two-step send flow promises, without handlers, files or        *)
(* crashes: a draft is offered, it is either approved once or withdrawn,   *)
(* and only an approval gives the right to one delivery.  The right may be *)
(* lost (a failed send, a process that stops); it is never given back.     *)
(***************************************************************************)
EXTENDS Naturals

CONSTANT Drafts       \* draft ids

VARIABLES
    phase,            \* phase[d]: "absent", "open" (waiting for the user) or "closed"
    armed,            \* the drafts with one delivery still owed to an approval
    delivered         \* delivered[d]: how often WhatsApp accepted the message of d

vars == <<phase, armed, delivered>>

Init ==
    /\ phase = [d \in Drafts |-> "absent"]
    /\ armed = {}
    /\ delivered = [d \in Drafts |-> 0]

\* A draft is created and shown to the user.
Offer(d) ==
    /\ phase[d] = "absent"
    /\ phase' = [phase EXCEPT ![d] = "open"]
    /\ UNCHANGED <<armed, delivered>>

\* The user confirms: the draft is closed for good and one delivery is owed.
Approve(d) ==
    /\ phase[d] = "open"
    /\ phase' = [phase EXCEPT ![d] = "closed"]
    /\ armed' = armed \union {d}
    /\ UNCHANGED delivered

\* The draft expires without an approval.
Withdraw(d) ==
    /\ phase[d] = "open"
    /\ phase' = [phase EXCEPT ![d] = "closed"]
    /\ UNCHANGED <<armed, delivered>>

Deliver(d) ==
    /\ d \in armed
    /\ armed' = armed \ {d}
    /\ delivered' = [delivered EXCEPT ![d] = @ + 1]
    /\ UNCHANGED phase

\* Deliveries that were owed and will not happen.
Lose ==
    /\ \E kept \in SUBSET armed : armed' = kept
    /\ UNCHANGED <<phase, delivered>>

Next ==
    \/ \E d \in Drafts : Offer(d) \/ Approve(d) \/ Withdraw(d) \/ Deliver(d)
    \/ Lose

Spec == Init /\ [][Next]_vars
=============================================================================
