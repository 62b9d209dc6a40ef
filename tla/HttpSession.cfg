SPECIFICATION Spec
CONSTANTS
    Limit = 8
    MaxRequests = 10
    Requests <- MCAllRequests
INVARIANTS
    TypeOK
    NoOverlap
    Backpressure
    NothingAfterClose
    NeverIdle
    Watchdog
    UpgradeIsFinal
PROPERTY ImplementsOrderedReplies
