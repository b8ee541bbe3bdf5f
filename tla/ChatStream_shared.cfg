\* A socket and a request chat in one session whose cap of 2 is reached, with
\* forks and system messages; saves may raise.
CONSTANTS
    Sessions = {s1}
    Conns = {c1}
    Senders = {c1}
    Posts = {p1}
    Scripts <- MixedReply
    AdapterWired = {TRUE, FALSE}
    DiskFaults = TRUE
    ForkRoles = {"user", "system"}
    MaxRequests = 3
    MaxMessages = 2
    MaxDepth = 20
SPECIFICATION Spec
INVARIANTS
    NeverOvercounts
    LedgerSound
PROPERTIES
    KeepsTurnProtocol
CHECK_DEADLOCK FALSE
