SPECIFICATION FairSpec
CONSTANTS
    NumServices = 1
    Linked = {1}
    MaxNodes = 1
    MaxCalls = 1
PROPERTY ShutdownEndsRun
CHECK_DEADLOCK FALSE
