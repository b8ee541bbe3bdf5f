\* A socket and a request on one session, forks, switches, a hard delete, with
\* fairness; no save raises.
CONSTANTS
    Sessions = {s1}
    Conns = {c1}
    Senders = {c1}
    Posts = {p1}
    Scripts <- ToolAndShortReplies
    AdapterWired = {TRUE}
    DiskFaults = FALSE
    ForkRoles = {"assistant", "tool"}
    MaxRequests = 2
    MaxMessages = 20
    MaxDepth = 20
SPECIFICATION FairSpec
INVARIANTS
    FlagHasOwner
PROPERTIES
    FlagFalls
    EveryTurnEnds
CHECK_DEADLOCK FALSE
