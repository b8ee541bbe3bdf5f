\* Two overlapping turns of one session.
CONSTANTS
    Sessions = {s1}
    Conns = {c1}
    Senders = {c1}
    Posts = {p1}
    Scripts <- BareReply
    AdapterWired = {TRUE}
    DiskFaults = FALSE
    ForkRoles = {"user"}
    MaxRequests = 2
    MaxMessages = 20
    MaxDepth = 20
SPECIFICATION Spec
INVARIANTS
    TotalsAreAdditive
CHECK_DEADLOCK FALSE
