\* A time limit that passes while a frame is being sent.
CONSTANTS
    Sessions = {s1}
    Conns = {c1}
    Senders = {c1}
    Posts = {}
    Scripts <- ShortReply
    AdapterWired = {TRUE}
    DiskFaults = FALSE
    ForkRoles = {"user"}
    MaxRequests = 1
    MaxMessages = 20
    MaxDepth = 20
SPECIFICATION Spec
INVARIANTS
    HandlerSurvivesTimeout
CHECK_DEADLOCK FALSE
