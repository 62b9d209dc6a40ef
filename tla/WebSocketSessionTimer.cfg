SPECIFICATION TimedSpec
CONSTANTS
    Messages <- MCMessages
    Concurrent = TRUE
    MaxHeard = 2
PROPERTY TimerOperated
