SPECIFICATION Spec
CONSTANTS
    m1 = m1
    x1 = x1
    k1 = k1
    k2 = k2
    Row = {m1, x1}
    Extra = {x1}
    Key = {k1, k2}
    keyName <- MCkeyName
    parent <- MCparent
    None = None
    Slot = {i1, i2}
SYMMETRY Alike
INVARIANTS TypeOK SavingIsReal StoredKeyIsShown
PROPERTY DraftKept
CHECK_DEADLOCK FALSE
