SPECIFICATION VoiceSpec
CONSTANTS
    NumNotes = 2
    Chat <- MCChat
    Silent = {}
    Configs <- MCConfigs
    QueueSize = 2
    Limit = 1
    MaxFaults = 1
    MaxArrivals = 2
    MaxAsks = 1
    MaxRestarts = 1
PROPERTIES PrivateChatsAreClosed SelfHealing
CHECK_DEADLOCK FALSE
