----------------------------- MODULE MCSendFlow -----------------------------
(* SendFlow for TLC: where clients may hang up, and handler symmetry. *)
EXTENDS SendFlow, TLC

CONSTANTS d1, d2, h1, h2

MCDrafts == {d1, d2}
MCMediaDrafts == {d1}
MCHandlers == {h1, h2}

\* Everywhere except between the flip and the write that records a failure.
HangUpsThatAreHarmless == Points \ {"send", "markFailed"}

HandlerSymmetry == Permutations(MCHandlers)
=============================================================================
