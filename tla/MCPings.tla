------------------------------ MODULE MCPings ------------------------------
EXTENDS Pings
QuietWindow(start, end, override, change, shift) ==
  [start |-> start, end |-> end, override |-> override, change |-> change, shift |-> shift]
\* A window across midnight, one within a day, and none; the night of the first
\* has the clocks set back or on, or its end is shown twice or never.
MCConfigs ==
  { QuietWindow(2, 1, TRUE, 0, 0), QuietWindow(1, 2, FALSE, 0, 0), QuietWindow(2, 2, TRUE, 0, 0),
    QuietWindow(2, 1, FALSE, 4, -1), QuietWindow(2, 1, FALSE, 3, 1),
    QuietWindow(2, 1, FALSE, 6, -1), QuietWindow(2, 1, FALSE, 5, 1) }
=============================================================================
