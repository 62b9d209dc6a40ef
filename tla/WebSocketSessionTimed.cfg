SPECIFICATION TimedSpec
CONSTANTS
    Messages <- MCMessages
    Concurrent = FALSE
    MaxHeard = 3
PROPERTY Ends
