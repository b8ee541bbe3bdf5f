SPECIFICATION FairSpec
CONSTANTS
    Plugin = {p1, p2}
    Suspends = {p2}
    Raises = {p2}
    None = None
    Slot = {1, 2}
    Poll = {1}
    MaxLive = 2
INVARIANTS TypeOK OneInstance
PROPERTIES BusyFalls ViewConverges
CHECK_DEADLOCK FALSE
