\* Ann under two JIDs, Bob and a group: two exports, two changes, one fault.
SPECIFICATION Spec
CONSTANTS
    Direct <- MCDirect
    Groups <- MCGroups
    PhoneJids <- MCPhoneJids
    NoJid = "none"
    Order <- MCOrder
    Rank <- MCRank
    Digits <- MCDigits
    FullJid <- MCFullJid
    Card <- MCCard
    GroupMark = "group"
    Names <- MCNames
    FirstNames <- MCFirstNames
    Aliases <- MCAliases
    NoteNames <- MCNoteNames
    Vaults <- MCVaults
    FoldKeyOf <- MCFoldKeyOf
    FileSystems <- MCFileSystems
    Busy <- MCBusy
    Flags <- MCFlags
    MaxRows = 3
    MaxEvents = 2
    MaxRuns = 2
INVARIANTS RunIsComplete ForeignFilesSurvive RefusalIsDeserved
CHECK_DEADLOCK FALSE
