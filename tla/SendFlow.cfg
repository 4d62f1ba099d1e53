\* Every hazard at once: two calls, two drafts, one with a file, clients that
\* hang up anywhere, statements that fail and one stop.
SPECIFICATION Spec
CONSTANTS
    d1 = d1
    d2 = d2
    h1 = h1
    h2 = h2
    Drafts <- MCDrafts
    MediaDrafts <- MCMediaDrafts
    Handlers <- MCHandlers
    NoDraft = NoDraft
    HangUpPoints <- Points
    DbOutcomes <- BOOLEAN
    MaxStops = 1
SYMMETRY HandlerSymmetry
INVARIANTS AtMostOnce SentWasDelivered LiveDraftHasBytes
PROPERTIES ImplementsContract
