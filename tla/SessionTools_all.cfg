SPECIFICATION FairSpec
CONSTANTS
    Session = {s1, s2}
    None = None
INVARIANTS TypeOK ShownIsOfSession
PROPERTY TreeSettles
CHECK_DEADLOCK FALSE
