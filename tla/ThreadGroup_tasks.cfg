SPECIFICATION FairSpec
CONSTANTS
    m1 = m1
    m2 = m2
    m3 = m3
    c1 = c1
    c2 = c2
    None = None
    Task <- MCTask
    Client <- MCClient
    num = 2
    Shared = TRUE
    Immediate = FALSE
    TicketModulus = 3
INVARIANTS
    TasksInOnePlace
PROPERTIES
    StopReturns
CHECK_DEADLOCK FALSE
