SPECIFICATION Spec
CONSTANTS
    Messages <- MCMessages
    Concurrent = TRUE
    MaxHeard = 4
INVARIANTS
    TypeOK
    BufferInTurn
PROPERTIES
    ImplementsOrderedReplies
    ClosesOnlySilent
