--------------------------- MODULE ArchiveContract ---------------------------
(***************************************************************************)
(* What the archive promises about messages, without rows, statements or   *)
(* handlers: of each it knows nothing, that it exists, that it was blank,  *)
(* or what it says, and where its media is; it never knows less than it    *)
(* did, and what it has handled it knows.                                  *)
(***************************************************************************)
CONSTANTS
    Msgs,             \* the messages
    Payloads,         \* what a message may say
    Blank,            \* the payload that says nothing
    Textual,          \* payloads with a text
    Keyed,            \* payloads with media
    Shown             \* payloads whose media history shows

VARIABLES
    payload,          \* payload[m]: what m says
    knows,            \* knows[m]: "nothing", "announced", "blank" or "read"
    keys,             \* keys[m]: whether its media can be downloaded
    received,         \* handled live and stored, or found stored
    recalled          \* delivered again by history

vars == <<payload, knows, keys, received, recalled>>

\* All there is to know of m.
Whole(m) == IF payload[m] = Blank THEN "blank" ELSE "read"

\* Earlier versions may have read nothing in a message, or lost its media.
Init ==
    /\ payload \in [Msgs -> Payloads]
    /\ knows \in [Msgs -> {"nothing", "blank", "read"}]
    /\ \A m \in Msgs : knows[m] = "read" => Whole(m) = "read"
    /\ keys = [m \in Msgs |-> FALSE]
    /\ received = {} /\ recalled = {}

\* How knowledge of m may grow to k: from nothing, or from a placeholder or a
\* blank to what the message says.
Grows(m, k) ==
    \/ k = knows[m]
    \/ knows[m] = "nothing" /\ k \in {"announced", Whole(m)}
    \/ knows[m] \in {"announced", "blank"} /\ k = "read" /\ Whole(m) = "read"

Record(m, k, found) ==
    /\ Grows(m, k)
    /\ found => payload[m] \in Keyed /\ k # "nothing"
    /\ knows' = [knows EXCEPT ![m] = k]
    /\ keys' = [keys EXCEPT ![m] = @ \/ found]
    /\ UNCHANGED payload

Learn(m) ==
    /\ \E k \in {"announced", "blank", "read"}, found \in BOOLEAN : Record(m, k, found)
    /\ UNCHANGED <<received, recalled>>

\* A message that was handled live is not left behind an announcement of it.
Receive(m) ==
    /\ \E k \in {"announced", "blank", "read"}, found \in BOOLEAN :
          Record(m, k, found) /\ (k = "announced" => Whole(m) = "blank")
    /\ received' = received \union {m}
    /\ UNCHANGED recalled

\* One that history has gone through reads, unless it is only announced, and
\* has the media that history shows.
Recall(m) ==
    /\ \E k \in {"announced", "blank", "read"}, found \in BOOLEAN :
          Record(m, k, found) /\ (k = "blank" => payload[m] \notin Textual)
    /\ payload[m] \in Shown => keys'[m]
    /\ recalled' = recalled \union {m}
    /\ UNCHANGED received

Next == \E m \in Msgs : Learn(m) \/ Receive(m) \/ Recall(m)

Spec == Init /\ [][Next]_vars
=============================================================================
