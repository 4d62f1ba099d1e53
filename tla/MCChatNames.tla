---------------------------- MODULE MCChatNames ----------------------------
(* ChatNames with small sets for TLC. *)
EXTENDS ChatNames
=============================================================================
