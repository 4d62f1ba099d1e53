\* Two messages of one chat, statements that fail, restarts anywhere.
SPECIFICATION Spec
CONSTANTS
    Msgs <- MCMsgs
    DbOutcomes <- BOOLEAN
INVARIANTS RetryRecovers HistoryRepairs LabelNeverLies
PROPERTIES NeverLosesContent ImplementsArchiveContract
