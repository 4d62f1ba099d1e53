--------------------------- MODULE MCBackfillWalk ---------------------------
(* BackfillWalk with small sets for TLC. *)
EXTENDS BackfillWalk

\* Chats that are blank throughout, or lack one and wait for a live message.
MCStores == { <<"blank", "blank", "blank", "blank", "blank">>,
              <<"none", "blank", "blank", "blank", "none">> }

\* The second and the third message share a second: a chunk has both, if the
\* walk begins at the fourth, or ends between them, if it begins at the fifth.
MCSecond == <<1, 2, 2, 3, 4>>
=============================================================================
