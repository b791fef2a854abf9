SPECIFICATION Spec
CONSTANTS
    t1 = t1
    t2 = t2
    a1 = a1
    a2 = a2
    a3 = a3
    i3 = i3
    k1 = k1
    k2 = k2
    k3 = k3
    None = None
    Thread = {t1, t2}
    Accessor = {a1, a2, a3}
    Iterator = {i3}
    Owner <- MCOwner
    Key = {k1, k2, k3}
    Hash <- MCHash
    N = 4
    CountModulus = 16
    MaxFaults = 2
INVARIANTS
    TypeOK
    LocksAccounted
    ElementsOwned
    DeadlockNeedsNesting
CHECK_DEADLOCK FALSE
