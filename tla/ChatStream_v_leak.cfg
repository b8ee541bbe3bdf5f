\* A save that raises at the end of an HTTP turn.
CONSTANTS
    Sessions = {s1}
    Conns = {c1}
    Senders = {c1}
    Posts = {p1}
    Scripts <- BareReply
    AdapterWired = {TRUE}
    DiskFaults = TRUE
    ForkRoles = {"user"}
    MaxRequests = 2
    MaxMessages = 20
    MaxDepth = 20
SPECIFICATION Spec
INVARIANTS
    FlagHasOwner
CHECK_DEADLOCK FALSE
