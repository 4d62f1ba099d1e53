\* What survives a client that hangs up: anywhere but between the flip and the
\* failed-update.  Statements succeed; the process may stop once.
SPECIFICATION FairSpec
CONSTANTS
    d1 = d1
    d2 = d2
    h1 = h1
    h2 = h2
    Drafts <- MCDrafts
    MediaDrafts <- MCMediaDrafts
    Handlers <- MCHandlers
    NoDraft = NoDraft
    HangUpPoints <- HangUpsThatAreHarmless
    DbOutcomes = {TRUE}
    MaxStops = 1
INVARIANTS ConfirmedIsOwned AcknowledgedIsRecorded
PROPERTIES ConfirmedResolves
