SPECIFICATION Spec
CONSTANTS
    Messages <- MCMessages
    Concurrent = FALSE
    MaxHeard = 2
INVARIANT PingAssertion
