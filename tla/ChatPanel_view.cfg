\* Two texts, two creations, two loads that cross, three sockets.
SPECIFICATION Spec
CONSTANTS
    Session = {s1, s2}
    Existing = {s1}
    Text = {t1, t2}
    None = None
    Flight = {f1, f2}
    Slot = {r1, r2}
    MaxSockets = 3
    MaxStops = 1
SYMMETRY Alike
INVARIANTS TypeOK SingleFlight IntendedSession StreamHasEnd
CHECK_DEADLOCK FALSE
