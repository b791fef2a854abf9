SPECIFICATION FairSpec
CONSTANTS
    k1 = k1
    k2 = k2
    k3 = k3
    t1 = t1
    t2 = t2
    None = None
    Thread <- MCThread2
    Key = {k1, k2}
    Val = {v1, v2}
    Hash <- MCHash2
    Primes = {1, 2}
    InitBuckets = 0
    HashMayThrow = TRUE
PROPERTIES
    ImplementsMap
    CallsReturn
