SPECIFICATION FairSpec
CONSTANTS
    r1 = r1
    r2 = r2
    t1 = t1
    t2 = t2
    Owner = Owner
    None = None
    Record <- MCRecord
    Line <- MCLine
    MaxPages = 3
    capacity = 1
    max_size_ = 2
    SizeModulus = 5
INVARIANTS
    TypeOK
    BuffersInOnePlace
    WritesToFile
PROPERTIES
    ImplementsLogStream
    BuffersReturn
CHECK_DEADLOCK FALSE
