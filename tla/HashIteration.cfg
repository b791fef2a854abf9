SPECIFICATION HSpec
CONSTANTS
    k1 = k1
    k2 = k2
    k3 = k3
    t1 = t1
    t2 = t2
    None = None
    Thread <- MCThread
    Key = {k1, k2, k3}
    Val = {v1}
    Hash <- MCHash
    Primes = {1, 2}
    InitBuckets = 2
    HashMayThrow = FALSE
SYMMETRY MCSymmetry
PROPERTIES
    VisitsOnce
    VisitsAll
