\* Two sessions, failing writes, crashes, a lost index; a change is told by
\* archived, the messages and the tip.
CONSTANTS
    Sessions = {s1, s2}
    MaxMessages = 3
    MaxDepth = 8
    MaxMsgId = 2
    MaxTotals = 0
    Edits = {"archived", "totals"}
    MsgRoles = {"user"}
    LegacyLen = 0
    ForeignParents = FALSE
SPECIFICATION Spec
SYMMETRY Symmetry
INVARIANTS
    MemoryIsDurable
    IndexMatchesFiles
    DeletedStaysDeleted
PROPERTIES
    ImplementsDurableStore
