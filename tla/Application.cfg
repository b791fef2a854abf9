SPECIFICATION FairSpec
CONSTANTS
    NumServices = 2
    Linked = {1}
    MaxNodes = 2
    MaxCalls = 2
INVARIANTS
    TypeOK
    PointersBacked
PROPERTIES
    ImplementsLifecycle
    ShutdownHonoured
CHECK_DEADLOCK FALSE
