\* One session whose cap of 2 is reached, with forks, switches and system
\* messages; failing saves and crashes included.
CONSTANTS
    Sessions = {s1}
    MaxMessages = 2
    MaxDepth = 8
    MaxMsgId = 4
    MaxTotals = 0
    Edits = {"title"}
    MsgRoles = {"user", "system"}
    LegacyLen = 1
    ForeignParents = TRUE
SPECIFICATION Spec
INVARIANTS
    TypeOK
    LedgerOrdered
    TipResolves
    CapRespected
    TruncationMarksTheCut
PROPERTIES
    HistoryKept
    TipPinnedWhileStreaming
