SPECIFICATION Spec
CONSTANTS
    Schemas <- MCSchemas
    Schema <- MCSchema
    Second = 3
    Used = {"MessageVersion", "TestMessage", "RequestMessage"}
    Foreign = "foreign"
    MaxBatch = 2
    MaxLength = 4
INVARIANTS
    TypeOK
    GeneratedWhole
    
PROPERTIES
    ImplementsTransfer
CHECK_DEADLOCK FALSE
