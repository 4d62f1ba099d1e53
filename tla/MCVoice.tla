------------------------------ MODULE MCVoice ------------------------------
EXTENDS Voice

\* The last two notes are of one chat.
MCChat == [n \in 1..NumNotes |-> IF n = 1 THEN "work" ELSE "family"]
MCSet(b, ex, on, any) == [backend |-> b, exclude |-> ex, only |-> on, any |-> any]
MCConfigs == {MCSet("openai-api", {}, {}, TRUE),
              MCSet("local-cpp", {"family"}, {}, TRUE),
              MCSet("local-cpp", {}, {"work"}, FALSE)}
=============================================================================
