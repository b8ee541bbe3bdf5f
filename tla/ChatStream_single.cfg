\* One client sends, another only cancels; no save raises.
CONSTANTS
    Sessions = {s1}
    Conns = {c1, c2}
    Senders = {c1}
    Posts = {}
    Scripts <- AllReplies
    AdapterWired = {TRUE}
    DiskFaults = FALSE
    ForkRoles = {"user"}
    MaxRequests = 3
    MaxMessages = 20
    MaxDepth = 20
SPECIFICATION Spec
INVARIANTS
    TypeOK
    TotalsAreAdditive
    FlagGuardsStream
    CancelDiesWithStream
    StoredIsStreamed
    ReportedUsageWins
    ReplyOnItsBranch
    BranchesRecoverable
CHECK_DEADLOCK FALSE
