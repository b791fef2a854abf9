SPECIFICATION Spec
CONSTANTS
    k1 = k1
    k2 = k2
    k3 = k3
    None = None
    t1 = t1
    t2 = t2
    Thread <- MCThread2
    Key = {k1, k2, k3}
    Val = {v1}
    Hash <- MCHashCollide
    Primes = {1, 2, 3}
    InitBuckets = 0
    HashMayThrow = TRUE
INVARIANTS
    TypeOK
    AccessorsLive
    SizeExact
    LoadBounded
    UniqueKeys
PROPERTIES
    MutexArrayReplacedFree
    NullMeansAbsent
