----------------------------- MODULE MCArchive -----------------------------
(* Archive for TLC. *)
EXTENDS Archive

MCMsgs == {1, 2}
=============================================================================
