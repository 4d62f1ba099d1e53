------------------------------- MODULE MCCrm -------------------------------
EXTENDS Crm, TLC
CONSTANTS a, b

RequestSymmetry == Permutations(Requests)

Content(fm, p, h) == [fm |-> fm, primary |-> p, history |-> h, body |-> TRUE]
BareOf(v) == [value |-> v, quoted |-> FALSE]

\* An empty field, a quoted one, a bare one with a mixed history, frontmatter
\* that does not parse, none at all, and no file.
MCOwnerContents ==
  { Content("ok", NoValue, {}),
    Content("ok", Quoted(a), {}),
    Content("ok", BareOf(a), {Quoted(a), BareOf(b)}),
    Content("malformed", Quoted(b), {Quoted(a)}),
    Content("none", NoValue, {}),
    Absent }
=============================================================================
